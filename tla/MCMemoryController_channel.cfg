SPECIFICATION FairSpec
CONSTANTS
  a1 = a1  a2 = a2  b1 = b1  r1 = r1  r2 = r2
  Addrs = {a1, a2, b1}
  BANKS = 2
  BankOf <- MCBankOf
  RowOf <- MCRowOf
  RQ_SIZE = 2
  WQ_SIZE = 3
  tCAS = 1
  tRP_RCD = 1
  RETURN_TIME = 2
  TURN_AROUND_TIME = 1
  MaxRequests = 4
INVARIANTS BanksHoldScheduled OnePacketPerBlock ReadsWaitOnce
PROPERTY AllServed
