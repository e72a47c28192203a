SPECIFICATION FairSpec
CONSTANTS
  Calls = {c1, c2}
  Actions = {"ban", "quarantine", "activate"}
  Operations = {"unban", "disable", "archive", "restore"}
  Reverts = TRUE
  Activation = "pending"
  BanFor = 1
  Window = 2
  Gap = 1
  Timeout = 1
  MaxTime = 4
  MaxCalls = 2
  MaxFaults = 2
INVARIANTS Agreed
PROPERTIES HotForward ReleaseVisible
CHECK_DEADLOCK FALSE
