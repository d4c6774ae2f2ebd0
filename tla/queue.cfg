SPECIFICATION FairSpec
CONSTANTS
  Capacity = 2
  Producers = {p1, p2}
  Consumers = {c1, c2}
  Pushes = {"enqueue", "enqueueNoWait", "enqueueIfNotFull"}
  Pops = {"dequeue", "dequeueWaitFor"}
  Elements = {1, 2, 3, 4}
  NoElement = NoElement
INVARIANTS TypeOK ConsumersOwed ProducersOwed EveryElementAccounted
PROPERTIES ElementsReachSleepers RoomReachesSleepers TimedWaitEnds
