SPECIFICATION FairSpec
CONSTANTS
  Capacity = 1
  Workers = {w1, w2}
  Submitters = {s1}
  Controllers = {k1}
  Controls = {"shutdown", "pause", "resume"}
  Options = {"FORCE", "WAIT_FOR"}
  Policies = {"BLOCKING"}
  Tasks = {t1, t2}
  NoTask = NoTask
  NoThread = NoThread
  SizeMod = 8
PROPERTIES QueuedTaskRuns BlockedSubmitEnters ShutdownReturns
CHECK_DEADLOCK FALSE
