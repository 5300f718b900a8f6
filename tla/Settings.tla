------------------------------ MODULE Settings ------------------------------
(***************************************************************************)
(* The settings of the dialer: the commands that change them, the printer  *)
(* of the running configuration, whose output is the startup configuration *)
(* of the next boot, and the three other front ends that write the same    *)
(* structure: the web form, the cloud and NETCONF.                         *)
(*                                                                         *)
(* A command is a tuple.  Run() is the pure effect of one command on the   *)
(* daemon, so that a boot runs the lines of Printed() one after the other. *)
(***************************************************************************)
EXTENDS Integers, Sequences, FiniteSets

CONSTANTS
  MaxProfile,  \* PPP_MAX_PROFILE
  Profiles,    \* numbers of the dial profiles, 1 .. PPP_MAX_PROFILE in the code
  Named,       \* those the commands and forms of the instance speak of
  Infinite,    \* infinitely_dial_retry of a fresh router: a build option
  Fronts,      \* who changes settings: "cli", "web", "cloud", "netconf"
  MaxCommands  \* bound: commands in a behaviour, a form counting for two, a boot for one

\* The profile NETCONF keeps for SIM 2.
SecondApn == MaxProfile \div 2 + 1

ASSUME SettingsConstantsOK ==
  /\ MaxProfile \in Nat /\ Profiles \subseteq 1 .. MaxProfile
  /\ Named \subseteq Profiles /\ {1, 2, 3, 4, SecondApn} \subseteq Profiles
  /\ Infinite \in BOOLEAN /\ MaxCommands \in Nat
  /\ Fronts \subseteq {"cli", "web", "cloud", "netconf"}

VARIABLES
  cfg,        \* gl_myinfo.priv
  current,    \* current_sim
  switching,  \* gl_sim_switch_flag
  redial,     \* the last command has called do_redial_procedure(), or a boot dials
  by,         \* history: the front ends that have changed something
  commands    \* how many commands, forms and boots there have been

settingsVars == <<cfg, current, switching, redial, by, commands>>

SimNames   == {"sim1", "sim2"}
Wans   == {"wan1", "wan2"}
OtherName(s) == IF s = "sim1" THEN "sim2" ELSE "sim1"

Triggers == {"traffic", "sms"}

\* All settings that one command sets and its "no" form resets: those whose
\* change starts the dial again ("loud", like the MTU) and those whose change
\* does not ("quiet", like the dial interval).
Plain == {"loud", "quiet"}

Settings ==
  [prof : [Profiles -> {"none", "factory", "gsm", "cdma"}],
   use : [SimNames -> Profiles \cup {0}],      \* profile_idx, profile_2nd_idx
   use2 : [SimNames -> Profiles \cup {0}],     \* profile_wwan2_idx, profile_wwan2_2nd_idx
   wan2 : [SimNames -> BOOLEAN],               \* dual_wwan_enable
   net : [SimNames -> {"auto", "4g"}], nr5g : {"auto", "sa"},
   oper : [SimNames -> {"auto", "verizon"}], pin : [SimNames -> BOOLEAN], roam : [SimNames -> BOOLEAN],
   dual : BOOLEAN, main : SimNames, backup : SimNames, policy : SimNames \cup {"random", "sequence"},
   retries : {0, 3, 5}, csq : [SimNames -> BOOLEAN], backtime : BOOLEAN,
   smsInterval : {0, 10, 30}, enable : BOOLEAN,
   mode : {"ONLINE", "DEMAND", "MANUAL"}, trig : SUBSET {"traffic", "sms"}, idle : {60, 90},
   static : BOOLEAN, local : BOOLEAN, peer : {"none", "1.1.1.3", "own"}, netmask : BOOLEAN,
   infinite : BOOLEAN, share : {"off", "default", "own"}, pd : [Wans -> {"default", "own"}],
   prefix : [Wans -> {0, 56, 80}], strict : [Wans -> BOOLEAN],
   plain : [Plain -> BOOLEAN]]

SettingsTypeOK ==
  /\ cfg \in Settings
  /\ current \in SimNames /\ switching \in BOOLEAN /\ redial \in BOOLEAN
  /\ by \subseteq Fronts /\ commands \in 0 .. MaxCommands

\* gl_default_myinfo.
Default ==
  [prof |-> [n \in Profiles |-> IF n = 1 THEN "factory" ELSE "none"],
   use |-> [s \in SimNames |-> 0], use2 |-> [s \in SimNames |-> 0], wan2 |-> [s \in SimNames |-> FALSE],
   net |-> [s \in SimNames |-> "auto"], nr5g |-> "auto",
   oper |-> [s \in SimNames |-> "auto"], pin |-> [s \in SimNames |-> FALSE], roam |-> [s \in SimNames |-> TRUE],
   dual |-> FALSE, main |-> "sim1", backup |-> "sim2", policy |-> "sim1",
   retries |-> 5, csq |-> [s \in SimNames |-> FALSE], backtime |-> FALSE,
   smsInterval |-> 30, enable |-> TRUE,
   mode |-> "ONLINE", trig |-> {}, idle |-> 60,
   static |-> FALSE, local |-> FALSE, peer |-> "1.1.1.3", netmask |-> FALSE,
   infinite |-> Infinite, share |-> "off", pd |-> [w \in Wans |-> "default"],
   prefix |-> [w \in Wans |-> 0], strict |-> [w \in Wans |-> FALSE],
   plain |-> [f \in Plain |-> FALSE]]

-----------------------------------------------------------------------------
(* What a command does to the settings.                                    *)

Exists(c, n) == n = 0 \/ c.prof[n] # "none"

\* "cellular 1 gsm|cdma profile".
ProfileCmd(c, m) == [c EXCEPT !.prof[m[2]] = m[3]]

\* "cellular 1 network", "nr5g-mode".
Network(c, m) ==
  IF m[1] = "nr5g" THEN [c EXCEPT !.nr5g = m[2]]
  ELSE [c EXCEPT !.net = [s \in SimNames |-> m[2]]]

\* "cellular 1 sim".
SimCard(c, m) ==
  CASE m[1] = "pin"      -> [c EXCEPT !.pin[m[2]] = TRUE]
    [] m[1] = "forbid"   -> [c EXCEPT !.roam[m[2]] = FALSE]
    [] m[1] = "operator" -> [c EXCEPT !.oper[m[2]] = m[3]]

\* "cellular 1 sms".
SmsConfig(c, m) == [c EXCEPT !.smsInterval = m[2]]

\* "dual-sim main"; `main' is what rand() or the file SEQ_SIM_FILE gives.
SetMainSim(c, policy, main) ==
  [c EXCEPT !.main = main, !.backup = OtherName(main), !.policy = policy]

DualSim(c, m) ==
  CASE m[1] = "main"      -> SetMainSim(c, m[2], m[3])
    [] m[1] = "dual"      -> [c EXCEPT !.dual = TRUE, !.retries = IF @ = 0 THEN 5 ELSE @]
    [] m[1] = "retries"   -> [c EXCEPT !.retries = m[2]]
    [] m[1] = "csq"       -> [c EXCEPT !.csq[m[2]] = m[3]]
    [] m[1] = "backtime"  -> [c EXCEPT !.backtime = m[2]]

\* "no cellular 1 ...": a profile that a card dials with is not deleted.
NoCellular(c, m) ==
  CASE m[1] = "no profile" -> IF m[2] \in {c.use[s] : s \in SimNames} THEN c
                              ELSE [c EXCEPT !.prof[m[2]] = "none"]
    [] m[1] = "no network" -> [c EXCEPT !.net["sim1"] = "auto"]
    [] m[1] = "no sim"     -> [c EXCEPT !.pin[m[2]] = FALSE, !.roam[m[2]] = TRUE]
    [] m[1] = "no roaming" -> [c EXCEPT !.roam[m[2]] = TRUE]
    [] m[1] = "no pin"     -> [c EXCEPT !.pin[m[2]] = FALSE]
    [] m[1] = "no main"    -> SetMainSim(c, "sim1", "sim1")
    [] m[1] = "no dual"    -> [c EXCEPT !.dual = FALSE]
    [] m[1] = "no policy"  -> [c EXCEPT !.csq = [s \in SimNames |-> FALSE], !.backtime = FALSE,
                                        !.retries = 5]

\* "no dialer activate traffic|sms".
DropTrigger(c, t) ==
  [c EXCEPT !.trig = @ \ {t}, !.mode = IF c.trig \subseteq {t} THEN "ONLINE" ELSE @]

Activate(c, m) ==
  LET on == m[1] = "activate" IN
  CASE on /\ m[2] = "auto"       -> [c EXCEPT !.mode = "ONLINE", !.trig = {}]
    [] on /\ m[2] = "manual"     -> [c EXCEPT !.mode = "MANUAL", !.trig = {}]
    [] ~on /\ m[2] = "all"       -> [c EXCEPT !.mode = "ONLINE", !.trig = {}]
    [] ~on /\ m[2] = "manual"    -> [c EXCEPT !.mode = "ONLINE"]
    [] on /\ m[2] \in Triggers   -> [c EXCEPT !.mode = "DEMAND", !.trig = @ \cup {m[2]}]
    [] ~on /\ m[2] \in Triggers  -> DropTrigger(c, m[2])

\* "dialer profile" and "dialer idle-timeout"; "no dialer profile" asks nothing.
UseProfile(c, m) ==
  CASE m[1] = "idle"   -> [c EXCEPT !.idle = m[2]]
    [] m[1] = "use"    -> IF Exists(c, m[3]) THEN [c EXCEPT !.use[m[2]] = m[3]] ELSE c
    [] m[1] = "no use" -> [c EXCEPT !.use[m[2]] = IF m[2] = "sim1" THEN 1 ELSE 0]

\* "dialer secondary-wan" and "infinitely-retry".
SecondaryWan(c, m) ==
  CASE m[1] = "wan2"     -> IF Exists(c, m[3])
                            THEN [c EXCEPT !.use2[m[2]] = m[3], !.wan2[m[2]] = TRUE] ELSE c
    [] m[1] = "no wan2"  -> [c EXCEPT !.wan2[m[2]] = FALSE]
    [] m[1] = "infinite" -> [c EXCEPT !.infinite = m[2]]

\* "shutdown".
SetEnable(c, m) == [c EXCEPT !.enable = ~m[2]]

\* "ppp", "dhcp" and the like: a setting and its "no" form.
PlainCmd(c, m) == [c EXCEPT !.plain[m[2]] = m[3]]

\* Without a local and a peer address nothing is static any more.
SettleStatic(c) == [c EXCEPT !.static = @ /\ (c.local \/ c.peer # "none")]

Ip(c, m) ==
  CASE m[1] = "negotiated" -> [c EXCEPT !.static = FALSE]
    [] m[1] = "local"      -> [c EXCEPT !.static = TRUE, !.local = TRUE]
    [] m[1] = "peer"       -> [c EXCEPT !.static = TRUE, !.peer = m[2]]
    [] m[1] = "both"       -> [c EXCEPT !.static = TRUE, !.local = TRUE, !.peer = m[2]]
    [] m[1] = "netmask"    -> [c EXCEPT !.static = TRUE, !.netmask = TRUE]
    [] m[1] = "no static"  -> SettleStatic([c EXCEPT !.static = FALSE])
    [] m[1] = "no local"   -> SettleStatic([c EXCEPT !.local = FALSE])
    [] m[1] = "no peer"    -> SettleStatic([c EXCEPT !.peer = "none"])
    [] m[1] = "no netmask" -> SettleStatic([c EXCEPT !.netmask = FALSE])

Ipv6(c, m) ==
  CASE m[1] = "share"     -> [c EXCEPT !.share = m[2]]
    [] m[1] = "pd"        -> [c EXCEPT !.pd[m[2]] = m[3]]
    [] m[1] = "prefix"    -> [c EXCEPT !.prefix[m[2]] = m[3]]
    [] m[1] = "strict"    -> [c EXCEPT !.strict[m[2]] = m[3]]
    [] m[1] = "no prefix" -> [c EXCEPT !.prefix[m[2]] = 0, !.strict[m[2]] = FALSE]

DialerWords == {"activate", "no activate", "idle", "use", "no use", "wan2", "no wan2",
                "infinite", "shutdown"}
IpWords     == {"negotiated", "local", "peer", "both", "netmask",
                "no static", "no local", "no peer", "no netmask"}
Ipv6Words   == {"share", "pd", "prefix", "strict", "no prefix"}

Do(c, m) ==
  CASE m[1] = "profile"                                     -> ProfileCmd(c, m)
    [] m[1] \in {"network", "nr5g"}                         -> Network(c, m)
    [] m[1] \in {"pin", "forbid", "operator"}               -> SimCard(c, m)
    [] m[1] = "sms interval"                                -> SmsConfig(c, m)
    [] m[1] \in {"main", "dual", "retries", "csq", "backtime"} -> DualSim(c, m)
    [] m[1] \in {"no profile", "no network", "no sim", "no roaming", "no pin",
                 "no main", "no dual", "no policy"}         -> NoCellular(c, m)
    [] m[1] \in {"activate", "no activate"}                 -> Activate(c, m)
    [] m[1] \in {"idle", "use", "no use"}                   -> UseProfile(c, m)
    [] m[1] \in {"wan2", "no wan2", "infinite"}             -> SecondaryWan(c, m)
    [] m[1] = "shutdown"                                    -> SetEnable(c, m)
    [] m[1] = "plain"                                       -> PlainCmd(c, m)
    [] m[1] \in IpWords                                     -> Ip(c, m)
    [] m[1] \in Ipv6Words                                   -> Ipv6(c, m)

-----------------------------------------------------------------------------
(* What else a command does.                                               *)

\* Mutant: the profiles of the secondary WAN are forgotten.
InUseFirst(c, n) == \E s \in SimNames : n = c.use[s]

\* "if profile in use, revise it will cause ppp restart": whatever the
\* secondary WAN is enabled or not.
InUse(c, n) == \E s \in SimNames : n \in {c.use[s], c.use2[s]}

\* dual-sim commands that find the card in use not to be the main one.
NotMain(c, s, m) ==
  /\ s # c.main
  /\ m[1] \in {"dual", "no main"} \/ (m[1] = "main" /\ c.dual)

\* config_type is set, c being the settings the command has made.
Restarts(c, s, m) ==
  \/ m[1] = "profile" /\ InUse(c, m[2])
  \/ m[1] \in {"network", "no network", "nr5g", "operator"}
  \/ NotMain(c, s, m)
  \/ m[1] \in DialerWords \cup IpWords \cup Ipv6Words
  \/ m[1] = "plain" /\ m[2] = "loud"

\* One command on the daemon: [cfg, sim, flag, redial].
Run(d, m) ==
  LET c == Do(d.cfg, m) IN
  [cfg |-> c, sim |-> d.sim,
   flag |-> (d.flag \/ NotMain(c, d.sim, m)) /\ m[1] # "no dual",
   redial |-> c # d.cfg /\ Restarts(c, d.sim, m)]

\* One after the other, as they stand in s.
RunAll(d, s) ==
  LET after[k \in 0 .. Len(s)] == IF k = 0 THEN d ELSE Run(after[k - 1], s[k])
  IN after[Len(s)]

-----------------------------------------------------------------------------
(* The running configuration, as it is printed.                            *)

If(b, m) == IF b THEN <<m>> ELSE <<>>

PrintProfiles(c) ==
  LET upto[n \in 0 .. MaxProfile] ==
        IF n = 0 THEN <<>>
        ELSE upto[n - 1] \o If(n \in Profiles /\ c.prof[n] # "none", <<"profile", n, c.prof[n]>>)
  IN upto[MaxProfile]

\* Mutant: the main SIM is printed before dual SIM is enabled, the policies
\* whatever it is.
PrintDualSimAlways(c) ==
  <<<<"retries", c.retries>>>> \o If(c.dual, <<"dual">>) \o <<<<"main", c.policy, c.main>>>>
  \o If(c.backtime, <<"backtime", TRUE>>)

PrintDualSim(c) ==
  IF ~c.dual THEN <<>>
  ELSE <<<<"dual">>, <<"main", c.policy, c.main>>>>
       \o If(c.retries > 0, <<"retries", c.retries>>)
       \o If(c.csq["sim1"], <<"csq", "sim1", TRUE>>) \o If(c.csq["sim2"], <<"csq", "sim2", TRUE>>)
       \o If(c.backtime, <<"backtime", TRUE>>)

PrintSim(c, s) == If(c.pin[s], <<"pin", s>>) \o If(~c.roam[s], <<"forbid", s>>)
                  \o <<<<"operator", s, c.oper[s]>>>>

PrintIpv6(c) ==
  If(c.share # "off", <<"share", c.share>>)
  \o <<<<"pd", "wan1", c.pd["wan1"]>>, <<"pd", "wan2", c.pd["wan2"]>>>>
  \o If(c.prefix["wan1"] \in 1 .. 64, <<"prefix", "wan1", c.prefix["wan1"]>>)
  \o If(c.prefix["wan2"] \in 1 .. 64, <<"prefix", "wan2", c.prefix["wan2"]>>)
  \o If(c.strict["wan1"], <<"strict", "wan1", TRUE>>) \o If(c.strict["wan2"], <<"strict", "wan2", TRUE>>)

PrintMode(c) ==
  CASE c.mode = "DEMAND" -> If("traffic" \in c.trig, <<"activate", "traffic">>)
                            \o If("sms" \in c.trig, <<"activate", "sms">>) \o <<<<"idle", c.idle>>>>
    [] c.mode = "MANUAL" -> <<<<"activate", "manual">>>>
    [] OTHER             -> <<<<"activate", "auto">>>>

PrintIp(c) ==
  IF ~c.static THEN <<<<"negotiated">>>>
  ELSE If(c.local /\ c.peer # "none", <<"both", c.peer>>)
       \o If(c.local /\ c.peer = "none", <<"local">>)
       \o If(~c.local /\ c.peer # "none", <<"peer", c.peer>>)
       \o If(c.netmask, <<"netmask">>)
       \o If(c.peer = "none", <<"no peer">>) \o If(~c.local, <<"no local">>)
       \o If(~c.netmask, <<"no netmask">>)

PrintNetwork(c) == <<<<"network", c.net["sim1"]>>, <<"nr5g", c.nr5g>>>>

PrintSms(c) == If(c.smsInterval > 0, <<"sms interval", c.smsInterval>>)

PrintUses(c) ==
  If(~c.enable, <<"shutdown", TRUE>>)
  \o <<<<"use", "sim1", c.use["sim1"]>>, <<"use", "sim2", c.use["sim2"]>>>>

PrintWan2(c) ==
  If(c.wan2["sim1"], <<"wan2", "sim1", c.use2["sim1"]>>)
  \o If(c.wan2["sim2"], <<"wan2", "sim2", c.use2["sim2"]>>)

PrintRest(c) == If(c.infinite, <<"infinite", TRUE>>) \o If(c.plain["loud"], <<"plain", "loud", TRUE>>)

\* show_cellular_config().
Printed(c) ==
  PrintProfiles(c) \o If(c.plain["quiet"], <<"plain", "quiet", TRUE>>)
  \o PrintNetwork(c) \o PrintDualSim(c) \o PrintSim(c, "sim1") \o PrintSim(c, "sim2")
  \o PrintSms(c) \o PrintUses(c) \o PrintIpv6(c) \o PrintWan2(c)
  \o PrintMode(c) \o PrintIp(c) \o PrintRest(c)

\* A router that boots: current_sim is SIM1 and the startup configuration is
\* dispatched command by command.
Fresh == [cfg |-> Default, sim |-> "sim1", flag |-> FALSE, redial |-> FALSE]
Booted(c) == RunAll(Fresh, Printed(c))

-----------------------------------------------------------------------------
(* The command line.                                                       *)

CliCommands ==
  ({"profile"} \X Named \X {"gsm", "cdma"}) \cup ({"no profile"} \X Named)
  \cup ({"network"} \X {"auto", "4g"}) \cup ({"nr5g"} \X {"auto", "sa"})
  \cup ({"pin", "forbid", "no sim", "no roaming", "no pin"} \X SimNames)
  \cup ({"operator"} \X SimNames \X {"auto", "verizon"}) \cup ({"sms interval"} \X {0, 10, 30})
  \cup {<<"main", s, s>> : s \in SimNames} \cup ({"main"} \X {"random", "sequence"} \X SimNames)
  \cup ({"no network", "no main", "dual", "no dual", "no policy", "negotiated", "local", "netmask"} \X {"-"})
  \cup ({"retries"} \X {0, 3, 5}) \cup ({"csq"} \X SimNames \X BOOLEAN)
  \cup ({"activate"} \X {"auto", "traffic", "sms", "manual"})
  \cup ({"no activate"} \X {"all", "traffic", "sms", "manual"})
  \cup ({"idle"} \X {60, 90})
  \cup ({"use", "wan2"} \X SimNames \X (Named \cup {0})) \cup ({"no use", "no wan2"} \X SimNames)
  \cup ({"backtime", "infinite", "shutdown"} \X BOOLEAN) \cup ({"peer", "both"} \X {"own"})
  \cup ({"no static", "no local", "no peer", "no netmask"} \X {"-"})
  \cup ({"share"} \X {"off", "own"}) \cup ({"pd"} \X Wans \X {"default", "own"})
  \cup ({"prefix"} \X Wans \X {56, 80}) \cup ({"strict"} \X Wans \X BOOLEAN)
  \cup ({"no prefix"} \X Wans) \cup ({"plain"} \X Plain \X BOOLEAN)

\* my_cmd_handle().
Cli ==
  /\ "cli" \in Fronts /\ commands < MaxCommands
  /\ \E m \in CliCommands :
       LET d == Run([cfg |-> cfg, sim |-> current, flag |-> switching, redial |-> FALSE], m) IN
       /\ cfg' = d.cfg /\ switching' = d.flag /\ redial' = d.redial
  /\ by' = by \cup {"cli"} /\ commands' = commands + 1
  /\ UNCHANGED current

-----------------------------------------------------------------------------
(* The other front ends.                                                   *)

ChangedBy(f) ==
  /\ f \in Fronts /\ commands + 2 <= MaxCommands
  /\ by' = by \cup {f} /\ commands' = commands + 2
  /\ UNCHANGED current

\* The dual SIM part of the form: the flag compares with the main SIM of before
\* and with that of after.
WebDualSim(c, form) ==
  IF ~form.dual THEN [c EXCEPT !.dual = FALSE]
  ELSE LET m == [c EXCEPT !.dual = TRUE, !.retries = form.retries]
       IN IF form.policy = c.policy THEN m ELSE SetMainSim(m, form.policy, form.main)

WebFlag(c, form) ==
  IF ~form.dual THEN FALSE
  ELSE switching \/ current # c.main \/ (form.policy # c.policy /\ current # form.main)

\* A profile that is new to a card must be in the form.
Refused(s, form) == form.use[s] # cfg.use[s] /\ form.use[s] # 0 /\ form.use[s] \notin form.profiles

Forms == [dual : BOOLEAN, policy : SimNames \cup {"random"}, main : SimNames, retries : {3},
          use : [SimNames -> Named \cup {0}], profiles : SUBSET Named,
          mode : {"ONLINE", "DEMAND"}, static : BOOLEAN]

\* set_redial_for_json(): a form that is refused has been carried out as far as
\* the card it is refused for.
WebForm ==
  /\ ChangedBy("web")
  /\ \E form \in {f \in Forms : f.policy \in {f.main, "random"}} :
       LET dualDone == WebDualSim(cfg, form)
           secondDone == IF form.dual THEN [dualDone EXCEPT !.use["sim2"] = form.use["sim2"]]
                         ELSE dualDone
           firstDone == [secondDone EXCEPT !.use["sim1"] = form.use["sim1"]]
           done == [firstDone EXCEPT
             !.static = form.static,
             !.local = IF form.static /\ ~cfg.static THEN TRUE ELSE @,
             !.peer = IF form.static /\ ~cfg.static THEN "own" ELSE @,
             !.mode = form.mode, !.trig = IF form.mode = "DEMAND" THEN {"traffic"} ELSE @,
             !.prof = [n \in Profiles |-> IF n \in form.profiles THEN "gsm" ELSE "none"]]
       IN /\ switching' = WebFlag(cfg, form)
          /\ CASE form.dual /\ Refused("sim2", form) ->
                    cfg' = [dualDone EXCEPT !.enable = TRUE] /\ redial' = FALSE
               [] ~(form.dual /\ Refused("sim2", form)) /\ Refused("sim1", form) ->
                    cfg' = [secondDone EXCEPT !.enable = TRUE] /\ redial' = FALSE
               [] OTHER -> cfg' = [done EXCEPT !.enable = TRUE] /\ redial' = TRUE

\* "enable": 0 stops the form there.
WebDisable ==
  /\ ChangedBy("web")
  /\ cfg' = [cfg EXCEPT !.enable = FALSE] /\ redial' = TRUE
  /\ UNCHANGED switching

\* check_cellular_config(): the settings whose change the cloud follows with a
\* new dial.
Compared(c) == <<c.enable, c.net, c.nr5g, c.wan2, c.pin, c.dual, c.policy, c.use, c.mode,
                 c.prof[1], c.prof[2], c.prof[3], c.prof[4], c.netmask, c.plain["loud"]>>

CloudSave(c) == cfg' = c /\ redial' = (Compared(c) # Compared(cfg))

\* parse_modem_config(): "sim1" and "sim2".  Each card has one profile and one
\* for its secondary WAN.
CloudProfile(s)  == IF s = "sim1" THEN 1 ELSE 2
CloudProfile2(s) == IF s = "sim1" THEN 3 ELSE 4

CloudSim ==
  /\ ChangedBy("cloud")
  /\ \E s \in SimNames, own \in BOOLEAN, second \in BOOLEAN, net \in {"auto", "4g"} :
       CloudSave([cfg EXCEPT !.use[s] = IF own THEN CloudProfile(s) ELSE 0,
                             !.use2[s] = IF second THEN CloudProfile2(s) ELSE 0,
                             !.wan2[s] = second, !.net[s] = net])
  /\ UNCHANGED switching

\* "dual_sim": the flag is raised though dual SIM may be disabled.
CloudDualSim ==
  /\ ChangedBy("cloud")
  /\ \E on \in BOOLEAN, s \in SimNames : /\ CloudSave(SetMainSim([cfg EXCEPT !.dual = on], s, s))
                                     /\ switching' = (switching \/ current # s)

CloudModem ==
  /\ ChangedBy("cloud")
  /\ \/ \E b \in BOOLEAN : CloudSave([cfg EXCEPT !.enable = b])
     \/ \E m \in {"ONLINE", "DEMAND", "MANUAL"} : CloudSave([cfg EXCEPT !.mode = m])
     \/ \E b \in BOOLEAN : CloudSave([cfg EXCEPT !.netmask = b])
     \/ \E n \in 1 .. 4 : CloudSave([cfg EXCEPT !.prof[n] = "gsm"])
  /\ UNCHANGED switching

\* ih_sr_cellular_config_cb(): one leaf changes; these dial again.
ApnOf(s) == IF s = "sim1" THEN 1 ELSE SecondApn

NetconfCellular ==
  /\ ChangedBy("netconf")
  /\ \/ \E b \in BOOLEAN : cfg' = [cfg EXCEPT !.enable = b]
     \/ \E m \in {"ONLINE", "DEMAND", "MANUAL"} : cfg' = [cfg EXCEPT !.mode = m]
     \/ \E s \in SimNames, b \in BOOLEAN : cfg' = [cfg EXCEPT !.roam[s] = b]
     \/ \E s \in SimNames, v \in {"auto", "4g"} : cfg' = [cfg EXCEPT !.net[s] = v]
     \/ \E s \in SimNames : cfg' = [cfg EXCEPT !.prof[ApnOf(s)] = "gsm", !.use[s] = ApnOf(s)]
     \/ \E s \in SimNames : cfg' = [cfg EXCEPT !.prof[ApnOf(s)] = "none", !.use[s] = 0]
  /\ redial' = TRUE
  /\ UNCHANGED switching

\* "dual-sim" and "csq": of these the main SIM alone dials again.
NetconfDualSim ==
  /\ ChangedBy("netconf")
  /\ \/ /\ \/ \E b \in BOOLEAN : cfg' = [cfg EXCEPT !.dual = b]
           \/ \E n \in {0, 3, 5} : cfg' = [cfg EXCEPT !.retries = n]
           \/ \E b \in BOOLEAN : cfg' = [cfg EXCEPT !.backtime = b]
           \/ \E s \in SimNames, b \in BOOLEAN : cfg' = [cfg EXCEPT !.csq[s] = b]
        /\ redial' = FALSE
     \/ /\ \/ \E s \in SimNames : cfg' = [cfg EXCEPT !.main = s, !.policy = s]
           \/ \E p \in {"random", "sequence"}, s \in SimNames :
                cfg' = [cfg EXCEPT !.main = s, !.policy = p]
        /\ redial' = TRUE
  /\ UNCHANGED switching

\* "advanced": all but the retries for ever dial again.
NetconfAdvanced ==
  /\ ChangedBy("netconf")
  /\ \/ \E b \in BOOLEAN : cfg' = [cfg EXCEPT !.infinite = b] /\ redial' = FALSE
     \/ \E b \in BOOLEAN : cfg' = [cfg EXCEPT !.plain["loud"] = b] /\ redial' = TRUE
  /\ UNCHANGED switching

\* ih_sr_cellular_if_config_cb(): the addresses, without the switch to them.
NetconfInterface ==
  /\ ChangedBy("netconf")
  /\ \/ \E b \in BOOLEAN : cfg' = [cfg EXCEPT !.local = b]
     \/ \E b \in BOOLEAN : cfg' = [cfg EXCEPT !.netmask = b]
     \/ \E p \in {"none", "own"} : cfg' = [cfg EXCEPT !.peer = p]
  /\ redial' = FALSE
  /\ UNCHANGED switching

\* ih_sr_cellular_switch_sim_rpc_cb().
NetconfSwitch ==
  /\ ChangedBy("netconf")
  /\ cfg.dual
  /\ switching' = TRUE /\ redial' = TRUE
  /\ UNCHANGED cfg

-----------------------------------------------------------------------------
\* do_dualsim_switch(), on its way through an arm of the state machine.
Switch ==
  /\ switching /\ switching' = FALSE
  /\ current' = IF current = cfg.main THEN cfg.backup ELSE cfg.main
  /\ redial' = FALSE
  /\ UNCHANGED <<cfg, by, commands>>

\* The configuration is saved and the router boots from it.
Reboot ==
  /\ by \subseteq {"cli", "web", "cloud"} /\ commands < MaxCommands
  /\ LET d == Booted(cfg) IN cfg' = d.cfg /\ switching' = d.flag
  /\ current' = "sim1" /\ redial' = TRUE
  /\ commands' = commands + 1
  /\ UNCHANGED by

SettingsInit ==
  /\ cfg = Default /\ current = "sim1" /\ switching = FALSE /\ redial = FALSE
  /\ by = {} /\ commands = 0

SettingsNext ==
  \/ Cli \/ WebForm \/ WebDisable
  \/ CloudSim \/ CloudDualSim \/ CloudModem
  \/ NetconfCellular \/ NetconfDualSim \/ NetconfAdvanced \/ NetconfInterface \/ NetconfSwitch
  \/ Switch \/ Reboot

SettingsSpec == SettingsInit /\ [][SettingsNext]_settingsVars

-----------------------------------------------------------------------------
(* Properties.                                                             *)

\* What a reboot may change: settings of a dual SIM that is not enabled, the
\* network of SIM 2, the secondary WAN of a profile that has been deleted, and
\* values the printer takes for the default or for invalid.
AfterReboot(c) ==
  LET prof == [c.prof EXCEPT ![1] = IF @ = "none" THEN "factory" ELSE @]
      known(n) == n = 0 \/ prof[n] # "none"
      wan2(s) == c.wan2[s] /\ known(c.use2[s])
      addressed == c.local \/ c.peer # "none"
  IN [prof |-> prof,
      use |-> [s \in SimNames |-> IF known(c.use[s]) THEN c.use[s] ELSE 0],
      use2 |-> [s \in SimNames |-> IF wan2(s) THEN c.use2[s] ELSE 0],
      wan2 |-> [s \in SimNames |-> wan2(s)],
      net |-> [s \in SimNames |-> c.net["sim1"]], nr5g |-> c.nr5g,
      oper |-> c.oper, pin |-> c.pin, roam |-> c.roam,
      dual |-> c.dual, main |-> IF c.dual THEN c.main ELSE "sim1",
      backup |-> IF c.dual THEN OtherName(c.main) ELSE "sim2", policy |-> IF c.dual THEN c.policy ELSE "sim1",
      retries |-> IF c.dual /\ c.retries # 0 THEN c.retries ELSE 5,
      csq |-> [s \in SimNames |-> c.dual /\ c.csq[s]], backtime |-> c.dual /\ c.backtime,
      smsInterval |-> IF c.smsInterval = 0 THEN 30 ELSE c.smsInterval, enable |-> c.enable,
      mode |-> IF c.mode = "DEMAND" /\ c.trig = {} THEN "ONLINE" ELSE c.mode,
      trig |-> IF c.mode = "DEMAND" THEN c.trig ELSE {}, idle |-> IF c.mode = "DEMAND" THEN c.idle ELSE 60,
      static |-> c.static /\ addressed, local |-> c.static /\ c.local,
      peer |-> IF c.static THEN c.peer ELSE "1.1.1.3", netmask |-> c.static /\ c.netmask,
      infinite |-> c.infinite \/ Infinite, share |-> c.share, pd |-> c.pd,
      prefix |-> [w \in Wans |-> IF c.prefix[w] > 64 THEN 0 ELSE c.prefix[w]], strict |-> c.strict,
      plain |-> c.plain]

\* The router that boots has the settings it was saved with, but for those: the
\* printer (l.888-1205) and the parser (l.1454-2810) agree on every combination
\* of settings and on the order in which they depend on each other.
RebootKeeps == Booted(cfg).cfg = AfterReboot(cfg)

\* "if profile in use, revise it will cause ppp restart" (l.1821): whoever
\* changes a profile that a card or a secondary WAN dials with, dials again,
\* unless the WAN is not enabled (l.1821-1826).
ProfileChangeRedials ==
  [][\A n \in Profiles :
       cfg'.prof[n] # cfg.prof[n] /\ cfg'.prof[n] # "none" /\ current' = current /\ commands' # commands
       /\ (\E s \in SimNames : n = cfg.use[s] \/ (cfg.wan2[s] /\ n = cfg.use2[s]))
         => redial']_settingsVars

\* "Switching SIM: current SIM%d,switch to SIM%d" (l.5161): a switch ends on the
\* other card, whatever the main SIM has been set to since the flag was raised,
\* as long as NETCONF has not set it.
SwitchMovesToOther ==
  [][by \subseteq {"cli", "web", "cloud"} /\ commands' = commands /\ switching /\ ~switching'
       => current' # current]_settingsVars

\* A dialer that waits for a demand has something that can demand it, as long as
\* the command line alone has set it up (l.2191-2240).
DemandHasTrigger == by \subseteq {"cli"} /\ cfg.mode = "DEMAND" => cfg.trig # {}

\* No order of commands, forms and boots leaves settings that a boot would change
\* without being meant to, or that cannot work (l.888-1205, l.2191-2240).
SettingsLast == SettingsTypeOK /\ RebootKeeps /\ DemandHasTrigger

\* Whoever gives them, commands do to the connection what they say: the profile
\* in use is redialed when it changes, a switch ends on the other card.
SettingsTakeEffect == ProfileChangeRedials /\ SwitchMovesToOther
=============================================================================
