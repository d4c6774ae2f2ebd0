SPECIFICATION Spec
CONSTANTS
  Capacity = 1
  Workers = {w1, w2}
  Submitters = {s1, s2}
  Controllers = {k1, k2}
  Controls = {"stop", "shutdown", "pause", "resume", "setQueueFullPolicy"}
  Options = {"WAIT_ALL", "FORCE", "WAIT_FOR"}
  Policies = {"BLOCKING", "OVERWRITE", "DISCARD"}
  Tasks = {t1, t2}
  NoTask = NoTask
  NoThread = NoThread
  SizeMod = 8
SYMMETRY Renamings
INVARIANTS TypeOK DequeueNeverBlocks EveryTaskInOnePlace CountersMatch StatsMatch
PROPERTIES SettledOnce StatesMoveOn
