SPECIFICATION FairSpec
CONSTANTS
  Capacity = 1
  Workers = {w1}
  Submitters = {c1}
  Controllers = {c1}
  Controls = {"waitForAllTask"}
  Options = {}
  Policies = {"OVERWRITE"}
  Tasks = {t1, t2}
  NoTask = NoTask
  NoThread = NoThread
  SizeMod = 8
PROPERTIES WaitForAllTaskReturns
