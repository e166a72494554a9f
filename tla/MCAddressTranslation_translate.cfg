SPECIFICATION FairSpec
CONSTANTS
  v1 = 4  v2 = 5  k = k  k1 = k1  k2 = k2
  a1 = a1  b1 = b1  i1 = i1  i2 = i2
  VPages = {4, 5}
  Tables <- MCTables
  PIECES = 2
  FIRST_PPAGE = 1
  LAST_PPAGE = 7
  LEVELS = 2
  KeyOf <- MCKeyOf
  RootKey = k
  LineOf <- MCLineOf
  RQ_SIZE = 1
  PSCL_SIZE = 1
  VAddrs = {a1, b1}
  PageOf <- MCPageOf
  OffsetOf <- MCOffsetOf
  Ids = {i1, i2}
  QueueSize <- WriteAndRead
  MaxEvictions = 1
INVARIANTS PagesDisjoint EnoughMemory EveryAnswerHasItsWalk UntranslatedIsComing RequestsKeepTheirBlock TranslationsAreCurrent
PROPERTY MappingsStable EveryRequestTranslated
CHECK_DEADLOCK FALSE
