SPECIFICATION Spec
CONSTANTS
  Branches <- MCBranches
  TypeOf <- MCTypeOf
  TargetOf <- MCTargetOf
  IndirectTargets = {0, 2, 3}
  Confidences = {1, 5}
  RAS_SIZE = 3
  ALT_RAS_SIZE = 2
  WAYS = 3
  H2P_T = 9
  MAX_IP_CHECK = 2
INVARIANTS ReturnStacksAgree PathsReturnToCaller
PROPERTY ImplementsMainPath
