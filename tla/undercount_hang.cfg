SPECIFICATION FairSpec
CONSTANTS
  Capacity = 1
  Workers = {w1}
  Submitters = {s1}
  Controllers = {k1}
  Controls = {"waitForAllTask"}
  Options = {}
  Policies = {"BLOCKING"}
  Tasks = {t1}
  NoTask = NoTask
  NoThread = NoThread
  SizeMod = 8
PROPERTIES WaitForAllTaskReturns
