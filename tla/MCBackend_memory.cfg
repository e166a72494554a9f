SPECIFICATION Spec
CONSTANTS
  r1 = r1  r2 = r2  x1 = x1  x2 = x2  y1 = y1  X = X  Y = Y
  Regs = {r1}
  Addrs = {x1, x2}
  BlockOf <- MCBlockOf
  Instrs <- MemoryShapes
  ROB_SIZE = 3
  LQ_SIZE = 2
  SQ_SIZE = 2
  SCHEDULER_SIZE = 2
  MaxInstr = 4
INVARIANTS LoadsObserveLatestStore MemOpsConserved ForwardLinksExact
PROPERTIES StoresDrainInOrder ImplementsProgramOrder
CHECK_DEADLOCK FALSE
