SPECIFICATION Spec
CONSTANTS
  Capacity = 1
  Workers = {w1}
  Submitters = {s1}
  Controllers = {k1}
  Controls = {"shutdown"}
  Options = {"FORCE"}
  Policies = {"BLOCKING"}
  Tasks = {t1}
  NoTask = NoTask
  NoThread = NoThread
  SizeMod = 8
INVARIANTS ForceDiscardsAll
CHECK_DEADLOCK FALSE
