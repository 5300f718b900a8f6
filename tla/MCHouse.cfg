SPECIFICATION HouseSpec
CONSTANTS
  MaxProfile = 10
  Profiles = {1, 2, 3, 4, 6}
  Named = {1, 2}
  Infinite = TRUE
  Fronts = {"cli", "web", "cloud", "netconf"}
  MaxCommands = 3
  Procs = {p1, p2, p3}
  Tries = 2
  Configs = {"c1", "c2", "c3"}
  Emmc = FALSE
  Faults = TRUE
INVARIANT SettingsLast
INVARIANT LockIsKept
INVARIANT AlwaysBootable
INVARIANT BootIsSettled
PROPERTY DeathIsSurvived
PROPERTY SettingsTakeEffect
\* Nobody has to give another command.
CHECK_DEADLOCK FALSE
