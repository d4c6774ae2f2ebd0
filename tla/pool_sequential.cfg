SPECIFICATION FairSpec
CONSTANTS
  Capacity = 1
  Workers = {w1, w2}
  Submitters = {c1}
  Controllers = {c1}
  Controls = {"shutdown", "waitForAllTask", "waitForRunningTask", "pause", "resume"}
  Options = {"WAIT_ALL", "FORCE", "WAIT_FOR"}
  Policies = {"BLOCKING"}
  Tasks = {t1, t2, t3}
  NoTask = NoTask
  NoThread = NoThread
  SizeMod = 8
PROPERTIES WaitMeansDone WaitForAllTaskReturns ShutdownReturns
