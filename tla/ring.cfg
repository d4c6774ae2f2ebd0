SPECIFICATION Spec
CONSTANTS
  Queues = {q1, q2}
  Requests = {0, 2, 7}
  MaxSlots = 4
  Elements = {a}
  NoElement = NoElement
  SizeMod = 8
SYMMETRY Renamings
INVARIANTS TypeOK ViewsAgree
PROPERTIES RingIsFifo
