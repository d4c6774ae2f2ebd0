SPECIFICATION FairSpec
CONSTANTS
  hardware_concurrency = 2
  SizeMod = 65536
  Wrong = Wrong
  Garbage = Garbage
  config <- SmallConfig
  Submitters = {s1}
  Controllers = {k1}
  Controls = {"loadCheck", "stop", "shutdown", "pause", "resume"}
  Builder = k1
  Balancer = balancer
  NoThread = NoThread
INVARIANTS FlaggedNeverSleeps
PROPERTIES FlaggedThreadReaped LoadCheckReturns StopReturns
