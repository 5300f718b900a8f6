------------------------------- MODULE MCHouse -------------------------------
(* What the dialer rests on, for TLC: its settings, the locks and the flash.  A  *)
(* behaviour is of one of the three, which share no state.                       *)
EXTENDS Settings, Locks, ConfigStore

VARIABLE turn  \* the one that moves

HouseInit ==
  /\ turn \in {"settings", "locks", "storage"}
  /\ SettingsInit
  /\ LocksInit /\ (turn # "locks" => free)
  /\ StoreInit /\ (turn # "storage" => image = CHOOSE c \in Configs : TRUE)

HouseNext ==
  \/ turn = "settings" /\ SettingsNext /\ UNCHANGED <<lockVars, storeVars, turn>>
  \/ turn = "locks"    /\ LocksNext    /\ UNCHANGED <<settingsVars, storeVars, turn>>
  \/ turn = "storage"  /\ StoreNext    /\ UNCHANGED <<settingsVars, lockVars, turn>>

\* LocksFairness, for the behaviours of the locks.
HouseFairness ==
  \A p \in Procs :
    /\ WF_lockVars(turn = "locks" /\ SetVal(p)) /\ WF_lockVars(turn = "locks" /\ GiveUp(p))
    /\ WF_lockVars(turn = "locks" /\ FileUnlock(p)) /\ WF_lockVars(turn = "locks" /\ Try(p))
    /\ SF_lockVars(turn = "locks" /\ TakeAsleep(p)) /\ WF_lockVars(turn = "locks" /\ TakeAwake(p))

HouseSpec == HouseInit /\ [][HouseNext]_<<settingsVars, lockVars, storeVars, turn>> /\ HouseFairness
===============================================================================
