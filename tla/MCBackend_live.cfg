SPECIFICATION FairSpec
CONSTANTS
  r1 = r1  r2 = r2  x1 = x1  x2 = x2  y1 = y1  X = X  Y = Y
  Regs = {r1, r2}
  Addrs = {x1, y1}
  BlockOf <- MCBlockOf
  Instrs <- MixedShapes
  ROB_SIZE = 4
  LQ_SIZE = 2
  SQ_SIZE = 2
  SCHEDULER_SIZE = 2
  MaxInstr = 4
INVARIANTS NoExecuteBeforeOperands SchedulerLinksLive
PROPERTY AllDrain
CHECK_DEADLOCK FALSE
