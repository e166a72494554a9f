SPECIFICATION Spec
CONSTANTS
  w1 = w1  w2 = w2  w3 = w3  w4 = w4  w5 = w5
  NoWindow = NoWindow
  Windows = {w1, w2}
  Kinds = {"branch", "taken", "guessed"}
  NUM_WAYS = 3
  LRU_WAYS = 2
  MaxCycle = 2
SYMMETRY Symmetry
INVARIANT TypeOK
PROPERTY EvictsAsDocumented
