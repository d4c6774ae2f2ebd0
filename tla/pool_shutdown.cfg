SPECIFICATION Spec
CONSTANTS
  Capacity = 2
  Workers = {w1, w2}
  Submitters = {s1, s2}
  Controllers = {k1, k2}
  Controls = {"shutdown", "waitForAllTask"}
  Options = {"WAIT_ALL", "FORCE", "WAIT_FOR"}
  Policies = {"BLOCKING", "OVERWRITE"}
  Tasks = {t1, t2, t3}
  NoTask = NoTask
  NoThread = NoThread
  SizeMod = 8
SYMMETRY Renamings
INVARIANTS WakeupOwed OneThreadJoins ShutdownSettlesPromised
