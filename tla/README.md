# A verification project for the redial daemon

The repository holds two parts of a router's firmware: `one/redial`, the daemon `ih-redial` that keeps the
cellular link up, and `one/libshared`, the library it shares with the other daemons. Most of the program's
own logic is in `one/redial/ih_redial.c` (10 600 lines, one process, one thread, one event loop), with the
modem's drivers in `modem.c` and `mbim.c`; what `libshared` has of state are locks, the configuration in
flash, and the tables of interfaces and switch ports that every service keeps a copy of. This project models
both, one module per component, checks them with TLC on small instances, and proves the safety properties of
most of them for every value of the constants. Line numbers here and in the modules are those of
`ih_redial.c` unless a file is named.

## Contents

| file | what it is |
|---|---|
| `Dialer.tla` | the state machine of the dial, its sub-daemons, mailbox, timers, requests, broadcasts |
| `LinkService.tla` | abstract: what the other services may rely on; `Dialer` implements it |
| `VifBus.tla` | `Dialer` with a service that keeps a replica of its links, and restarts of both |
| `FactoryTest.tla` | `Dialer` with the factory test that moves its state machine |
| `SimPolicy.tla` | the same state machine seen from its two SIM cards |
| `BringUp.tla`, `IfRename.tla` | power, slot, resets and settings of the modem; the names of its network devices |
| `UsbScan.tla` | the scan of the USB bus for a modem |
| `AtList.tla` | the list of AT commands before a dial |
| `CellInfo.tla` | what is shown of the cell, and the verdict on its signal |
| `ModemTasks.tla` | questions to the modem that wait for its port |
| `DialPath.tla` | profile, context and credentials of a dial |
| `LinkParams.tla` | address, gateway and DNS of the IPv4 link and its watch |
| `Lease6.tla` | the IPv6 addresses of the link |
| `Sms.tla` | the poll of the inbox and the store of unsent alerts |
| `Settings.tla` | the settings, their four front ends, the printed configuration and the boot from it |
| `Locks.tla`, `ConfigStore.tla` | the two kinds of lock; the configuration in flash |
| `IfNames.tla`, `VifTable.tla` | names of interfaces; the table of interfaces of a service |
| `SwitchReplica.tla`, `SwitchTables.tla` | the copy of VLANs, trunks and ports; the tables beside them |
| `MCConnection`, `MCContext`, `MCHouse`, `MCInterfaces`, `MCModem`, `MCPolicy` | modules for TLC that put components which share no state into one run |
| `*Proofs.tla` | the theorems, see Proofs |
| `MC*.cfg` | one configuration per run |
| `PROJECT.json` | components, runs, mutants, source map, findings, hazards, theorems |

To check: `tlc -config MCDialer.cfg Dialer.tla`, `tlc -config MCHouse.cfg MCHouse.tla`, and so on; `tlapm
DialerProofs.tla`.

## Inventory

| component | state | operations | talks to |
|---|---|---|---|
| **Dial state machine** `redial_handle` | `gl_redial_state`, `gl_ppp_redial_cnt`, `gl_wait_reconnect_cnt`, `gl_redial_dial_state` | sixteen arms, run by the main timer | everything below |
| **Sub-daemon supervision** `start_*`, `stop_*`, `sigchld_cb` | `gl_ppp_pid`, `gl_2nd_ppp_pid`, `gl_odhcp6c_pid`, `gl_dual_wwan_enable` | start, stop (SIGTERM, then -9), reap | pppd, udhcpc, odhcp6c, ih-qmi, ih-mipc |
| **Mailbox and event loop** `my_msg_handle`, `main` | libevent timers, the IPC queue | one callback at a time, to its end | sub-daemons, services |
| **Link broadcast** `vif_shared.c` | `vif_info[].status`; the last `VIF_LINK_CHANGE`; each service's `gl_vif_info` | UP, DOWN, the question of a late service | routing, backup, VPN, SD-WAN |
| **SIM policy** `check_dualsim_switch`, `current_sim_is_right` | `current_sim`, `main_sim`, `sim_status[]`, `gl_sim_switch_flag`, counters, backup timer | remember, switch, sleep, reboot | the state machine; the traffic service |
| **Requests** `my_cmd_handle`, `redial_web.c`, `redial_cloud_web.c`, `redial_sysrepo.c` | `gl_myinfo.priv` | change a setting, dial again, print, boot | the state machine |
| **Modem bring-up** `set_modem`, `modem_dualsim_switch`, `check_cell_sys_name` | reset flags and counters; the modem's power, slot, settings, devices | reset, force reset, AT reset, rename | the modem; the kernel |
| **USB scan** `usb_get_device_info` | an automaton over lines | scan | `/proc/bus/usb/devices` |
| **AT command list** `redial_at_callback`, `modem.c` | `gl_at_lists`, `gl_at_index`, `gl_at_try_n`, `gl_at_errno` | send, match, retry, next, PIN | the modem's port |
| **Cell information** `modem.c`, `my_signal_timer` | `MODEM_INFO`, signal counters | read, clear, judge | the modem's port, SIM policy |
| **Dial parameters** `ppp.c`, `ih_redial.c` | profiles, `default_cid`; the modem's contexts | set context, authenticate, activate | the modem's port |
| **Link parameters** `mbim.c`, `ih_redial.c` | `VIF_INFO`, the poll and its silence counter | configure, poll, break off | the modem; services |
| **IPv6 leases** `ipv6_common.c` | `dynamic_ifaddr`, DNS and routes | merge, configure, broadcast | odhcp6c; services |
| **SMS** `sms.c` | the store of unsent alerts, the poll timer | send, receive, save, resend | the modem's port, smsd |
| **Factory test** `redial_factory.c` | `gl_factory_dial_state`, its timer | start, stop, auto-test, leave | state machine, SIM policy |
| **Pending modem tasks** | a bit mask and a back-off timer | schedule, retry, drop | the modem's port |
| **Saved running state** `my_dump_running_state` | a file | dump at exit, load at start | the state machine |
| **Locks** `sysv_ipc.c`, `lock.c` | a semaphore with undo; a file | lock, unlock, break | every process |
| **Configuration storage** `is_config.c` | two partitions | save, boot, repair | every process |
| **Interfaces** `if_info.c`, `vif_shared.c` | `gl_vif_info` by region | convert, add, find, conflict | every service |
| **Switch** `if_common.c`, `lldp_shared.c`, `g8032d_shared.c` | port map, replica, MIB, VLAN places | publish, synchronise, print, parse | every service |
| **Addresses, IPC; licences, crypto, strings** | none, or tables | wrappers of system calls, conversions | everyone |

What is hard, and what correctness means:

* *One handler decides, another acts later.* `do_redial_procedure()` does not move the state machine: it
  kills the processes and leaves it to CONNECTING and CONNECTED to notice; `change_redial_state()` moves it
  and broadcasts nothing. That UP means somebody watches that link is spread over all of them.
* *Reports lag.* Link reports wait in a mailbox while processes are killed and started; a report must not be
  taken for one of the next dial. Late answers of the modem must not be taken for those of the next command.
* *Timers outlive what armed them*, under settings that may have changed since.
* *The modem has one port*, for the bring-up, the list, the probes, the tasks and the messages.
* *What is remembered must be true*: of a card, of a cell, of a lease, of the modem's contexts and slot, of
  another service's link.
* *Two SIM cards take turns*, and the daemon may sleep only if there is no card.
* *Crashes*: a process dies with a lock, the power fails in the middle of a save, a daemon restarts while
  others believe in its link.
* *Liveness.* A dead link is withdrawn, a list ends, a hung modem is woken, a switch is made.

`PROJECT.json` lists every such hazard at its line, with the properties that would catch it, or the reason
why none does.

## The modules and the code

**Dialer.** `st` is `gl_redial_state` (REBOOT is the daemon hanging after `system("reboot")`); `child` the
three pids, a process being `fresh` until it first has a link, then `up` or `lost`; `mail` the IPC queue,
restricted to link reports; `vif` the WWANs whose status is up and `pub` those whose last broadcast said so;
`tmr` the four timers `gl_ev_ppp_tmr`, `gl_ev_ppp_up_tmr`, `gl_ev_signal_tmr`, `gl_ev_wwan_connect_tmr`;
`cfg` the mode, `enable`, the backup hold, dual APN and the modem. Each arm of `redial_handle()` is one
action, or two or three where it branches into different outcomes; so is each timer callback, each kind of
report and each request. `stop_child_by_sub_daemon()` and `do_redial_procedure()` are the operators
`StopChild` and `DoRedial`. The sub-daemons are the environment: a process may get a link, lose it and exit
whenever it likes, and says goodbye when it is told to stop (`Farewell`) unless it crashes.

* Callbacks are atomic: the daemon has one thread. The exception is sysrepo's thread, which runs the NETCONF
  callbacks; it is treated as one more callback.
* `WaitAt` requires an empty mailbox: that arm follows a driver load and up to ten one-second probes, during
  which the event loop delivers what waits. `UpIsOfThisDial` depends on it (its mutant removes it), on
  goodbyes (no crashes) and on a dial without odhcp6c, whose late UP may leave `vif_info` up for the next
  dial.
* Exit and SIGCHLD are one step: a process that is dead but not reaped looks like one that is silent, which
  the model has. Timers have no durations.
* The triggers of `PPP_DEMAND` and the sub-interfaces are left out.

**LinkService.** A service that keeps routes or tunnels sees only broadcasts. A dial begins with nothing
promised, UP is announced only at the end of a dial, single WWANs may flap while online, the end of a
connection withdraws everything at once. `Dialer` maps CONNECTED to `online`, CONNECTING to `dialing`, every
other state to `down`, `pub` to `told`.

**VifBus** adds to `Dialer` the queue to one service, its replica `gl_vif_info`, its question
`VIF_LINK_CHANGE_REQ` and the restarts of both; `DaemonRestart` is `my_load_running_state()`, INIT withdraws
the first WWAN its predecessor promised (not the second, l.8866). **FactoryTest** adds the test's three
states, its timer and the hook `redial_handle_leave()` that runs behind every arm.

**SimPolicy** has the same arms, seen from the cards: the three dialing arms are one state DIAL, the AT list
is its outcome (`Outcomes`). `sim` is `sim_status[]`; `ModemStartup` books the outcome of a scan and lets
`check_dualsim_switch()` decide; `SwitchAtOnce` is the test with `current_sim_is_right()` that opens five
arms. Kept as in the code: the count of a card's failures counts failures of any kind, and `if(cfg->csq)`
tests an array and is always true. A scan may end in any error of `modem.h` but NAK; the errors that
`check_dualsim_switch()` does not look at neither switch nor count, and `OtherSimIsTried` says so.

**BringUp** has INIT to READY with the hardware under them (`hw`: power, slot, the card it has read, the
settings it booted with and stored, its devices); what is wanted, and when the dialer sleeps, is free. How
the checks of the modem's settings end is `CheckEnds` and `NvEnds`: fine, changed, changed in vain, refused
by an RM520N, or not answered; the last two go on to READY. The ghosts `check` and `forgot` remember that,
and a restart that lost a reset or a slot. **IfRename** has the renaming of the devices of modems that carry
several contexts, `ip link set name` being refused where the kernel refuses it. **UsbScan** has the line
automaton of `usb_get_device_info()` over what the kernel writes, block by block.

**AtList**: the list as a static array rewritten in place, the command and the tries; `wire` are commands
the modem has not executed, `tty` what nobody has read, in pieces; a handler that waits for an answer of its
own (the PIN) is `sync`. **CellInfo**: a field of `MODEM_INFO` holds the number of the cell it was read
from; a poll is a sequence of the family's commands, between any two of which the modem may change the cell.
A cell is heard on a scale: AT+CSQ writes RSSI below 100, RSCP from there on, and leaves the other field as
it was. **ModemTasks**: the bit mask, its timer, and the port.

**DialPath**: what a dial tells the modem when the IMSI has been read and when the connection is activated,
per family; the modem keeps contexts, credentials and the RM520N's rule from dial to dial. **LinkParams**: a
field of `VIF_INFO` is the lease it came from; the network may change or drop a context between any two
questions. **Lease6**: `wwan0_odhcp6c_event_handle()` and the merge of `ipv6_common.c`. **Sms**: the timer,
the text or PDU mode the modem understands, and `g_saved_unsent_sms`. An alert counts as sent when OK has
come back; one whose text went out without it is sent again. A Python program may send PDU messages, each of
which sets the PDU mode, for as long as it likes.

**Settings**: a command is a tuple, `Run` its effect, `Printed` the running configuration, a boot `RunAll`,
its lines run one after the other; the web form, the cloud and NETCONF write the same structure. **Locks**:
one action per system call another process can interleave with; a process may die in any of them.
**ConfigStore**: one action per erase and per write; power may fail between and in them; a process that
waits for ever sleeps in `semop()`, one with a timeout polls. **IfNames**, **VifTable**: a text is a record
of its word, token and numbers, read by the command line (`FromCmdName`), by the services (`FromCliName`)
and by the panel (`FromPanelName`); an address is a sequence of bits; the `usb0` of an ME909 comes and goes.
**SwitchReplica**, **SwitchTables**: the messages on their way, the replica, and what the hooks were told. A
trunk has two publishers: LACP's message reaches the interface service through a mailbox of its own
(`inbox`), so that an answer with the old trunk can cross it. A publication is in every mailbox at once. The
ports are numbered by the loops of `if_slot_portmap_init()`, over every slot and type between the smallest
and the largest.

## Runs

| run | module, constants | shows |
|---|---|---|
| `dialer` | six modems, infinite retries, crashes, one ordinary request of any kind, two reports in the mailbox | `TypeOK`, `QuietBringUp`, `ProbesOnlyWhileConnected`, `DialIsWatched`, `ImplementsLinkService` |
| `connection` | `Dialer` with six modems, no crashes, infinite retries, fairness; `CellInfo` with five families (the theorem has them all), two cells on either scale, one trouble | `UpIsOfThisDial`, `DeadLinkIsWithdrawn`, `LostLinkIsSettled`, `CellIsCurrent`, `BadSignalIsActedOn` |
| `vif_bus` | DHCP and dual QMI, two messages on their way, one restart of either | `ReplicaAgrees`, `RestartWithdraws` |
| `factory` | DHCP with IPv6 and QMI, two commands of the tester, all requests that force the state machine | `StopIsObeyed`, `SuspendIsQuiet`, `AutoTestTriesBothSims` |
| `policy` | scans that end in OK, in a missing modem, and in an error that counts and one that does not, two requests, backup timer, fairness | `ScannedCardsAreKnown`, `OtherSimIsTried`, `SwitchIsMade` |
| `house` | `Settings`, `Locks`, `ConfigStore`, each in behaviours of its own | `SettingsLast`, `SettingsTakeEffect`, `LockIsKept`, `DeathIsSurvived`, `AlwaysBootable`, `BootIsSettled` |
| `modem` | `UsbScan`, `BringUp`, `AtList`, `ModemTasks` | `ModemIsFound`, `ModemIsPrepared`, `HungModemIsRevived`, `ListIsCareful`, `PassEnds`, `PendingIsTried` |
| `context` | `DialPath`, `LinkParams`, `Sms` | `DialIsOfCard`, `LinkIsOfDial`, `LostContextIsNoticed`, `UnsentIsKept`, `TextIsRead` |
| `interfaces` | `VifTable` with five products, `SwitchReplica` with three port tables, the two halves of `SwitchTables`, `Lease6` | `InterfacesFit`, `CopyAgrees`, `PrintedIsReadBack`, `TablesAreSound`, `LeaseIsFollowed` |
| `watchdog`, `sim_alert`, `late_pin` | the smallest constants that show it | one finding each |

The MC modules of merged runs have a variable `turn` (in `MCPolicy`: `asked`): a behaviour is of one
component, the others stay in one initial state of theirs. Nothing is lost, since these components share no
state; the fairness conditions are guarded by `turn`, so that an idle component owes nothing.

**Bounds.** `MaxRedial` 1 or 0: the counter is compared with the maximum and nothing else. `MaxCount` 2 or
3: with retries without end the counter of pppd goes on for ever, and TLC follows it for a dial or two past
the maximum. `MaxMail` 2: one report per WWAN, or an UP and the DOWN that follows it, can overlap with the
next dial (1 where the run is large; it holds back only reports a process sends by itself). `MaxRequests` 1
or 2: setting a mode and taking it back. `MaxReset` and `MaxSimRetry` 1 (120 and 30 in the code, l.69): with
retries without end only a missing modem reboots. `MaxChan` 2, `MaxRestarts` 1: an answer and a broadcast
cross. `MaxCommands` 2 for the tester (start and stop), 3 for the settings. `MaxEvents` 2 in `BringUp`: a
reset in the middle of a switch; `MaxCells` 2: one handover; `MaxDials` 2: what the dial before has left;
two leases; a store with room for one alert and two alerts, so that it overflows; `MaxWire`, `MaxTty` 2 in
`AtList`: a late answer and the next (4 in `late_pin`, which needs two questions and two PINs on their way);
three devices on the bus; two rows for each kind of interface and one for two tunnels, so that a row is
dropped; three posts, two places for three VLANs, so that the table is full; `MaxNews` 2: LACP's word about
a trunk and the interface service's; `MaxSlot`, `MaxType` 2 and `MaxPort` 3: runs of ports, and two slots.
In `LinkParams` a call in which a lease changes is answered in full. The proofs lift all the bounds of what
they are about.

**Fairness.** `Dialer`: weak fairness of `RedialHandle` (the main timer is re-armed at the end of every
call), of `HandleReport` (the event loop reads its mailbox) and of the watchdog timer. `SimPolicy`,
`BringUp`, `CellInfo`: weak fairness of the arms or the step of the timer, and in `BringUp` of the modem's
boot. `AtList`: the timers, the reads and the modem's executing or staying mute. `LinkParams`: the poll
timer and what ends a connection. `Sms`: the timer, and strong fairness of the modem answering it (a port
that is busy now and then is free in between); nothing is assumed of Python programs, a text is promised
only where none sends. `Locks`: weak fairness of each process's own steps, strong fairness of taking the
semaphore only for those that sleep in `semop()`, whom the kernel queues and wakes; a process with a timeout
polls with IPC_NOWAIT every 100 ms (`sysv_ipc.c:271`), nobody queues it, and it may lose to the others every
time. Nothing is assumed of the sub-daemons, of the network, of users, or of a modem that hangs.

**Deadlock** is not checked: the daemon hangs after a reboot, a suspended, sleeping or disabled dialer waits
for a request that need not come, and nobody has to give a command.

**Mutants.** Every property of a passing run has a mutated definition that a plausible slip of the code
would give (`RestartBesideChild`, `BootFromBackup`, `TakeForEver`, ...), defined beside the original, under
which TLC finds the property violated.

## Findings

1. `watchdog`: l.10231 disarms the dial watchdog only if the mode is ONLINE at that moment. Dial in ONLINE,
   switch to another mode before it is up, and the watchdog kills the established connection.
2. `sim_alert`: two cards over a limit that is only to be reported are swapped for ever:
   `current_sim_is_right()` (l.5235) does not look at the action, `check_sim_status()` does.
3. `late_pin`: `send_at_cmd_sync2()` (`modem.c:1353`) gives a question up after 3 s and takes the next "OK"
   for the answer to the next one. From a modem that answers late, the PIN counter that was read before a
   PIN was tried allows another behind it: two wrong PINs, where the counter of 2 was to leave the last one
   to the user, and the card asks for its PUK.

Seen while modelling and kept as the code has them (no text of the repository says otherwise, so no run
calls them wrong):

* *Dialer.* The up timer outlives its dial (l.10114); a dialer hung up by hand and put back to ONLINE by the
  cloud or NETCONF may never dial (l.9943); a living odhcp6c masks a dead udhcpc (l.10114); the forced
  requests leave CONNECTED without a DOWN; the second WWAN stays promised when the daemon is restarted
  (l.8866); an MIPC link that is lost is not looked at again.
* *Cards.* With dual SIM disabled the card in use is compared with `policy_main`, which may be no card
  (l.5241); with retries without end, scans that end in NEED_RESET or NOVALIDIP are never counted and never
  lead to the other card (l.5201); the backup timer stays armed (l.1476) and raises its flag in SLEEP
  (l.9556); a switch asked for in the middle of the list books a present card as missing (l.5110).
* *Bring-up.* The whitelist (`modem.c:746`) lacks LP41, TOBY-L201, ELS31/61/81, U8300, LUA10 and ME909,
  which are never found; a hung FG360 is woken by a reboot only; its slot switch is lost if it does not
  answer; a daemon restarted while on SIM 2 selects slot 1 and forgets a reset to come (l.10464). A setting
  that an RM520N refuses, and a question any modem but an FM650 leaves unanswered, go on to READY; a refusal
  by another resets it for ever, for the answer is not looked at (`modem.c:3946`); an FM650 that does not
  answer AT+GTIPPASS is reset (`modem.c:4034`).
* *AT list.* A late OK is taken for that of the PIN; PH-NETSUB's failed unlock returns OK; the fallback of
  LUA10 looks at SIM 1's network type whatever card is in use (l.9687).
* *Cell.* Several families keep the RSRP of a cell they have lost; RSSI decides the level. AT+CSQ of a
  TD-SCDMA cell leaves the RSSI of the cell before, which then decides it (`modem.c:2731`).
* *Dial.* LARA-R2, TOBY-L201 and LP41 never clear credentials; a PPP profile with context 2 dials it, and
  most chat scripts set context 1 (`ppp.c:421`); LE910 and ELS31 erase the automatic APN (l.7786);
  `modem_qmap_connect()`'s result is ignored (l.7243).
* *Link.* A DECONFIG while connecting leaves the earlier gateway; FG360's own UP and DOWN are not broadcast
  (l.3480); a changed address of TOBY-L201 does not restart the link (l.8685).
* *IPv6.* A script that reports after `BreakOff` sets the status UP; only changed addresses are broadcast;
  UNBOUND leaves the status untold.
* *SMS.* `no sms enable` leaves the timer polling; one recipient's success counts for all; an alert whose OK
  took more than 10 s is sent again (`sms.c:113`); a Python program that sends a PDU message in each
  interval of the poll keeps texts unread (`sms.c:608`).
* *Tasks.* `change_redial_state()` disarms the timer and keeps the task (l.2871).
* *Shared.* A timed `file_lock()` may block past its timeout (`sysv_ipc.c:243`); an erased eMMC copy loads
  as an empty configuration; the panel names of IG9 are overwritten (`vif_shared.c:82`); "l2tp-server" reads
  back as port 0; a full region drops its row silently; a sub interface of the radio gets no name on ER3 and
  IG9 (`vif_shared.c:190`); "openvpn server" is the server to the command line and the cloud's client to the
  services (`if_info.c:626`); on a board with one ETH2_OMAP the services refuse every port above 1; an ME909
  is called by another name when its usb0 comes or goes; a trunk on which LACP's message and the interface
  service's cross stays different in the two; a gap in the table of slots or types would be written past its
  end (`if_common.c:574`); the VLAN copy overwrites the ring's flag (`if_common.c:2819`); a list of ports
  over two slots is printed in a form the parser refuses.

## Proofs

Eight modules, for every value of the constants; assumptions are the named ASSUMEs of the modules (types of
the constants) and, where a theorem names them, conditions on the instance. None of the invariants proved is
inductive as it stands. Each strengthening was checked by TLC before it was proved.

**`DialerProofs`.** `Inductive` proves `IInv` for all modems, bounds and requests. It adds to the properties
`UsedOnly` (a modem's slots are the only ones ever filled, reported of or up: without it `StopChild` would
not be known to leave nothing behind), `DialArm` (a modem is dialed by its own arm only), `DualOnlyQmi` and
`DualKept` (only ih-qmi dials twice, and a dual dial is known as dual while it lives). From it:
`TypeCorrect`, `DialAlwaysWatched`, `SuspendAlwaysQuiet` (the counter is bounded unless retries are without
end); if no forced request arrives, `BringUpAlwaysQuiet`, `ProbesOnlyWhenConnected`; and for modems without
odhcp6c `UpOnlyWhenConnected` and `DialerImplementsLinkService`, where `LinkStep` shows that every step is a
step of `LinkService` or a stutter. `UpIsAlwaysOfThisDial` needs an invariant on the ORDER of reports
(`HonestInv`), without crashes: whatever the mailbox will have `vif` say of a WWAN once it is read to its
end is what its process says (`NewsIsTrue`), and while a process is fresh no report or status says up
(`OneIsHonest`, `OneIsDead`). It holds because a process that is told to stop says goodbye behind everything
it said, and because WAIT_AT lets the mailbox run empty.

**`ServicesProofs`.** `FactInductive`: the dialer's invariant `Core` survives the tester, each of whose
moves is `change_redial_state()` into a state that does not dial; `SwitchIsComing` keeps an owed switch in
the flag or in the hook. From it `StoppedStaysStopped`, `TestedSuspendIsQuiet`, `BothSimsAreTried`.
`BusInductive` states what a service believes as ONE piece of information, `Newest`: the last message on its
way, or its replica if there is none. From it `ReplicaAlwaysAgrees` and, under the assumptions of the
refinement, `RestartAlwaysWithdraws`: what a second WWAN was promised before the first restart is all that
may be left (`NoRestartYet`).

**`HouseProofs`.** `LockKept`, for any number of processes: exclusion and conservation of `file_lock()` from
`OneCreator` and `ValueIsTheHolder` (the semaphore's value and its holders add up, `semadj` and death
included); breaks of `simple_lock()` are bounded (`BreaksBounded`). `NorAlwaysBoots`, `NorBootSettled`: on
NOR flash, as long as no flash call fails, one good copy is left at every moment (`OneIsGood`), and what may
be loaded is what was saved last or is being saved (`LegalCopies`). eMMC is excluded because the code is
wrong there, see above. `SettingsAlwaysLast`, for any number of profiles and any commands, forms, messages
and boots, goes through the printer section by section. A command touches the settings it names and no other
(`OnlyIn`; one lemma per command, `DoProfile` to `DoNoMain`), run by the daemon it is that command (`RunIs`,
`LineIs`), and lists of commands are run one after the other (`RunConcat`). So each section says what the
settings it prints become of any daemon it is run on (`ProfilesRun`, `DualSimRuns`, `StaticRuns`, ...),
`BootSections` puts the thirteen together and `BootKeeps` says that no later section undoes an earlier one,
from which `Booted` and `AfterReboot` agree in every field. What the front ends leave is in the types of the
settings (`CliStep`, `WebFormStep`, ..., `NetconfInterfaceStep`); only `SettingsAlwaysTakeEffect` needs more
than types, `BackupIsOther`: the backup SIM follows the main one until NETCONF sets either, so that a switch
ends on the other card.

**`PolicyProofs`.** `CardsAreAlwaysKnown`, as long as nobody asks for a switch: `ErrorIsOfCard` and
`CardIsKept` say that the error a scan ended in belongs to the card in use until it is booked.
`CellStaysCurrent`, for any cells, families and polls: `NeverRead` (fields that no command of the family
fills stay empty), `PollIsFresh` (inside a poll, what has been read is of this poll, but for the field of
the scale the last AT+CSQ did not speak of).

**`InterfacesProofs`.** `TablesStaySound`, from `PlaceInv` (each taken place knows its number and its VLAN)
and `MibInv` (rows, and `Following`: the newest message about a neighbour or ring agrees with the service's
record). `LeaseAlwaysFollowed`, for any prefixes and any number of slots, from `AddressInv` (what is stored
is what the interface has) and `LeaseInv`. That an event is kept is the loop of `add_dhcpv6_info2inf()`,
round by round: the slots in use are always the first ones (`Filled`), so a free slot is left for each
address the event has yet to store, and what is stored after n rounds are the first n addresses
(`RoundsStore`). An event that finds nothing new leaves what there is, and that is what it reports
(`NothingNew`) because no address is listed twice. `CopyAlwaysAgrees`, for any ports, VLANs and trunks and
any number of changes, resynchronisations and messages on their way. Its invariant `SwInv` relates the three
places a fact about the switch is held: what the hooks were told is the copy (`Listens`), and once the
interface service is synchronised it will have, of each VLAN, trunk and port, what the newest message about
it says, or the copy if none is on its way (`Follows`); of a trunk the same holds of the newest message on
its way to the interface service, unless the two have crossed. The lemmas say that the six kinds of event,
in the order of the code, take a listener from the old tables to the new ones (`EventsTell`), that a listing
names everything that exists, once (`ListedFacts`), and that a request is answered with the tables of its
moment (`LatestIsAnswered`). `InterfacesAlwaysFit`, for any products, interfaces, sizes of the table and
lengths of an address. Its invariant `TblInv` says that an interface has one row at most, of its own region
and under its own system name (`SoundTable`), that the rows hold the addresses the command line gave, and
that addresses of two interfaces never overlap: whatever look-up by address then finds a row, it is the row
of that interface (`OverlapIsOwn`, `FirstIs`). A name is another matter, two interfaces may share a device:
`CliReturns` and `PanelReturns` go through the types, one by one, from the interface to its text and back,
and `SameNameFound` carries that to the first row with the name. The proof needs to know which interfaces a
product can have (`InterfacesAreProper`, checked on the instance): an SVI of the radio on anything but IR9,
say, is shown as the radio and is read as one. `ShownMayBeTyped` lists what cannot be typed, each with its
reason in the code. `PrintedAlwaysReadBack`, for any port tables without a gap, any slots, types and trunks:
the loops of the numbering are recursive functions over 1 .. N, whose invariant is that every entry of the
groups gone through has the number of its base and its port, and no other has it; the runs a set is printed
in are rising and apart, so the parser takes each (`GroupReadBack`), and the trunks shown and the ports left
cover the VLAN (`TrunksCover`).

**`ContextProofs`.** `AlertsKept`, for any alerts, room and answers, those that come without an OK included.
`LinkAlwaysOfDial`, for any list of contexts, any leases and any answers of the modem: the gateway of a
connected link is of this dial, a link the poll has let pass is as the modem has it, and the services were
told of the address it has. The loop over the contexts is a recursive function over `0 .. N`; `LoopExists`
(`LoopTheorems`, with what else is said there of numbers `1 .. N`) shows that there is one, and
`BridgeSettles` that what the loop found is what the modem has, if no lease changed during the call.
`ParamsInv` adds to the property what holds of a link between the polls: `GatewayGiven`, `ClientInv` (a link
is down until its client has reported of this dial, and its interface has the address reported) and
`CheckedInv`. The attempt to prove it found that two guards of the CASE in `Verdict` overlapped, where the
code returns at the first. `DialAlwaysOfCard`, for any operators, profiles, cards and refusals, needs no
stronger invariant: a dial says everything anew. What it needs is an account of the lists of commands a
family is sent: each sets a context to one value whatever stands before it (`Ends`) or leaves it at that
value (`Keeps`), both kept when lists are joined, so that `Told` has the value of the profile at the end
(`SetupEnds`, `ConnectKeeps`); no list but the RM520N's own touches its rule (`RuleFree`, `QmapRule`). The
attempt to prove it found that the instance never dialed a PPP profile with a context of its own, and that
there the property is false: the chat script of most families sets context 1 (`ppp.c:421`), whichever is
then dialed, so that the APN of context 2 is whatever the modem kept. The premise is now in
`ContextIsOfProfile`.

**`ModemProofs`.** `ModemStaysPrepared`, from `UpInv`: `CardInv` (the card read is that of the slot, or
something is on its way that will read it again), `NvInv` (settings stored but not live have a reset
coming), `LinkInv` (a device has the name of an uplink only if it is that of its context). The attempt to
prove it found that a reboot has to put the SIM switch back to its default slot, which the model lacked. A
restart of the daemon may lose a reset to come; what holds after one that did is no more than the names of
the devices (`forgot`), and a modem that did not answer, or refused, runs as it is (`check`).
`PendingAlwaysTried` is about `ModemTasks`.

`ListAlwaysCareful`, for any modem, any number of tries and any length of the line, any loss of answers: a
dial has been earned in its own pass, and a modem that answers in time never has its card locked. Its
invariant `AtInv` says what every token on the line or collected is worth (`TextsAreTrue`: it has been
earned in this pass or is true of the card, since the first command of a pass throws away what was left),
what the place in the list has behind it (`PassInv`), that a slot of the registration asks for it (`Asks`,
with `FixupKeeps` and `FallbackIs` about the lists as they are rewritten), and, of a modem in time, that one
command at most is under way and only reports are behind an answer (`Prompt`), so that a counter on the line
is the card's own (`PinInv`). The attempt to prove it found the third finding: the bound of two commands on
the line had hidden it. It assumes `SameTypes`: with cards of different network types the fallback of LUA10
is wrong, see above.

`ModemAlwaysFound`, for any devices and any lines after their P lines: `Follows` says where the automaton is
in the block it reads (`attached` is of this block or false), and of the devices read before none is a
modem.

**Only model-checked.** Every liveness property (`DeadLinkIsWithdrawn`, `LostLinkIsSettled`,
`OtherSimIsTried`, `SwitchIsMade`, `DeathIsSurvived`, `PassEnds`, `HungModemIsRevived`,
`BadSignalIsActedOn`, `LostContextIsNoticed`, `TextIsRead`): liveness under fairness is out of the prover's
reach. And the three findings, which are counterexamples.

## Not modelled

* **Addresses and IPC, licences, crypto, strings** (`libshared`): wrappers of system calls, vendored code
  and conversions without state.
* In modelled components: the NETCONF thread's race with the event loop; PDU coding; validation of texts;
  the boards' GPIO sequences; durations of timers; the QMI proxy; MC7350's contexts; U8300C's list and the
  probes of WAIT_AT; get_band_by_arfcn(); the sub-interfaces; the IPv6 advertisements on the LAN side;
  truncated blocks of a USB listing; access to the switch chip.

## Plan

Done: all modules above; the proofs of `Dialer` with `VifBus` and `FactoryTest`, `Locks`, `ConfigStore`,
`SimPolicy`, `SwitchTables`, `Sms`, `CellInfo`, `BringUp`, `AtList`, `ModemTasks`, `LinkParams`, `DialPath`,
`UsbScan`, `Lease6`, `SwitchReplica` and `VifTable`.
