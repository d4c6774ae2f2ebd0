SPECIFICATION Spec
CONSTANTS
  hardware_concurrency = 8
  SizeMod = 65536
  Wrong = Wrong
  Garbage = Garbage
  LogThreads = {main, balancer}
  Names = {pool_log, app_log}
  Foreign = {app_log}
  NoLogger = NoLogger
  Main = main
  Balancer = balancer
  Texts <- SomeTexts
  Counts = {0, 5}
  NoPool = NoPool
INVARIANTS TypeOK SavedConfigLoads InitializedIsRegistered
 
CHECK_DEADLOCK FALSE
