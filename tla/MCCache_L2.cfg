SPECIFICATION FairSpec
CONSTANTS
  a1 = a1  a2 = a2  b1 = b1  c1 = c1  A = A  B = B  C = C
  core = core  upper = upper
  Clients = {core, upper}
  Disciplined = {upper}
  Addrs = {a1, b1, c1}
  BlockOf <- MCBlockOf
  SetOf <- MCSetOf
  NUM_WAY = 2
  MSHR_SIZE = 2
  QueueSize <- OnePerQueue
  match_offset_bits = FALSE
  MaxRequests = 3
INVARIANTS EveryAnswerHasItsMiss AsksOncePerBlock
PROPERTY EveryRequestAnswered
CHECK_DEADLOCK FALSE
