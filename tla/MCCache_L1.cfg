SPECIFICATION Spec
CONSTANTS
  a1 = a1  a2 = a2  b1 = b1  c1 = c1  A = A  B = B  C = C
  core = core  upper = upper
  Clients = {core, upper}
  Disciplined = {upper}
  Addrs = {a1, a2, b1}
  BlockOf <- MCBlockOf
  SetOf <- MCSetOf
  NUM_WAY = 2
  MSHR_SIZE = 2
  QueueSize <- TwoReadsAndWrites
  match_offset_bits = TRUE
  MaxRequests = 4
INVARIANTS OneMissPerBlock ReturnedFirst NoLostWaiter NoUnsolicitedAnswer OneCopyPerBlock
CHECK_DEADLOCK FALSE
