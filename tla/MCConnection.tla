---------------------------- MODULE MCConnection ----------------------------
(* The connection while it lasts, for TLC: the timers and reports by which the   *)
(* dialer follows its link, and the poll by which it follows the cell.  A        *)
(* behaviour is of one of the two; the other stays in its initial state.         *)
EXTENDS Dialer, CellInfo

VARIABLE turn  \* the one that moves

Good == [net |-> "4G", level |-> "good", scale |-> "rssi"]

ConnectionInit ==
  /\ turn \in {"dialer", "cell"}
  /\ Init     /\ (turn # "dialer" => cfg.modem = "PPP")
  /\ CellInit /\ (turn # "cell" => family = "LP41" /\ cells[1] = Good)

ConnectionNext ==
  \/ turn = "dialer" /\ Next     /\ UNCHANGED <<cellVars, turn>>
  \/ turn = "cell"   /\ CellNext /\ UNCHANGED <<vars, turn>>

\* Fairness of Dialer and CellFairness of CellInfo, each for its behaviours.
ConnectionFairness ==
  /\ WF_vars(turn = "dialer" /\ RedialHandle) /\ WF_vars(turn = "dialer" /\ HandleReport)
  /\ WF_vars(turn = "dialer" /\ PppTimer)
  /\ WF_cellVars(turn = "cell" /\ Step)

ConnectionSpec ==
  ConnectionInit /\ [][ConnectionNext]_<<vars, cellVars, turn>> /\ ConnectionFairness
=============================================================================
