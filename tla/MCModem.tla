------------------------------- MODULE MCModem -------------------------------
(* The modem from the USB bus to the first dial, for TLC: how it is found, how it  *)
(* is brought up, its list of AT commands, and what else waits for its port.  A    *)
(* behaviour is of one of the four; the others stay in a state of theirs.          *)
EXTENDS AtList, BringUp, UsbScan, ModemTasks

VARIABLE turn  \* the one that moves

Kit(fam) == [fam |-> fam, wr3 |-> FALSE, dual |-> FALSE, exempt |-> FALSE]
MCKits ==
  {Kit(f) : f \in {"EC20", "EC25", "PLS8", "RM520N", "RM500U", "FM650", "FG360", "TOBYL201", "U8300C"}}
  \cup {[Kit(f) EXCEPT !.dual = d] : f \in {"RM500", "EP06"}, d \in BOOLEAN}
  \cup {[Kit("RM500U") EXCEPT !.wr3 = TRUE]}
  \cup {[Kit(f) EXCEPT !.exempt = TRUE] : f \in {"EC20", "RM500U"}}
\* The S lines of a device may be missing; an interface may have no endpoints, or an
\* association.
MCEndings ==
  {<<"S", "S", "C", "I", "E", "E", "I", "E", "C", "I", "E">>, <<"C", "I", "I">>, <<"S", "C", "A", "I", "E">>}
MCDevPort == <<3, 0>>
MCTaskKits == [time : BOOLEAN, pol : BOOLEAN, shared : BOOLEAN]

AnyInit ==
  /\ turn \in {"at", "up", "usb", "tasks"}
  /\ Init /\ (setup.family \in Slow => setup.slow /\ modem.pins = 3)
  /\ turn # "at" => setup.family = "EC25" /\ setup.types[1] = "AUTO" /\ ~setup.slow
                    /\ modem.card = "READY" /\ modem.reg = "lte"
  /\ UpInit
  /\ turn # "up" => kit.fam = "EC25" /\ ~dualsim /\ ~enabled /\ ctx = 1
                    /\ ~hw.nv
  /\ UsbInit /\ (turn # "usb" => bus = <<>>)
  /\ TasksInit /\ (turn # "tasks" => dialing /\ taskKit = CHOOSE k \in TaskKits : TRUE)

AnyNext ==
  \/ turn = "at"    /\ Next             /\ UNCHANGED <<upVars, usbVars, taskVars, turn>>
  \/ turn = "up"    /\ UpNext           /\ UNCHANGED <<vars, usbVars, taskVars, turn>>
  \/ turn = "usb"   /\ UsbNext          /\ UNCHANGED <<vars, upVars, taskVars, turn>>
  \/ turn = "tasks" /\ TasksNext        /\ UNCHANGED <<vars, upVars, usbVars, turn>>

\* Fairness of AtList and UpFairness of BringUp, each for its behaviours.
AnyFairness ==
  /\ WF_vars(turn = "at" /\ (Send \/ GiveUp \/ ListDone))
  /\ WF_vars(turn = "at" /\ \E k \in 1..MaxTty : ReadTty(k))
  /\ WF_vars(turn = "at" /\ SyncTimeout)
  /\ WF_vars(turn = "at" /\ \E k \in 1..MaxTty : SyncAnswer(k))
  /\ WF_vars(turn = "at" /\ (Execute \/ Mute))
  /\ WF_upVars(turn = "up" /\ Arms) /\ WF_upVars(turn = "up" /\ Boot)

AnySpec ==
  AnyInit /\ [][AnyNext]_<<vars, upVars, usbVars, taskVars, turn>> /\ AnyFairness
===============================================================================
