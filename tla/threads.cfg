SPECIFICATION Spec
CONSTANTS
  hardware_concurrency = 2
  SizeMod = 65536
  Wrong = Wrong
  Garbage = Garbage
  config <- TwoSlotConfig
  Submitters = {s1}
  Controllers = {k1}
  Controls = {"loadCheck", "stop", "shutdown"}
  Builder = k1
  Balancer = balancer
  NoThread = NoThread
INVARIANTS TypeOK IndexIsSlot CountsMatch ExpandFindsSlot CoreWorkersStay StopJoinsAll
