SPECIFICATION Spec
CONSTANTS
  p1 = p1  p2 = p2  p3 = p3  q1 = q1  s1 = s1  L = L  M = M  N = N
  V = V  W = W  X = X  Y = Y
  Ips = {p1, p3, q1}
  LineOf <- MCLineOf
  WindowOf <- MCWindowOf
  Paths <- ReturningPaths
  UOP_MSHR = 2
  PRF_DECODE_SIZE = 2
  MaxBranches = 2
  MaxFetches = 1
INVARIANT AlternatePathIsMarked
CHECK_DEADLOCK FALSE
