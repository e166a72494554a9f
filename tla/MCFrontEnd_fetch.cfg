SPECIFICATION FairSpec
CONSTANTS
  Traces <- MCTraces
  Outcomes <- MCOutcomes
  IFETCH_BUFFER_SIZE = 4
  DECODE_BUFFER_SIZE = 2
  DISPATCH_BUFFER_SIZE = 2
  FETCH_WIDTH = 2
  DECODE_WIDTH = 2
  DISPATCH_WIDTH = 2
  UOP_CACHE_THROUGHPUT = 2
  L1I_BANDWIDTH = 2
  MaxDelays = 2
INVARIANTS DependentsInFTQ InFlightIsAsked StallHasOneCause
PROPERTY EverythingDispatched
