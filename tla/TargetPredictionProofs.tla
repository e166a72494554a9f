------------------------ MODULE TargetPredictionProofs ------------------------
(***************************************************************************)
(* Theorems about TargetPrediction: walks are bounded and return to their  *)
(* callers, the two return stacks never disagree, and what the main path   *)
(* has taught the predictors survives every walk.                          *)
(***************************************************************************)
EXTENDS TargetPrediction, SequenceTheorems, FiniteSetTheorems, TLAPS

USE DEF NoCall, Invalid

-----------------------------------------------------------------------------
(* Return stacks: the i-th call from the top.                              *)

Nth(stack, size, i) ==
  stack.slots[IF i <= stack.index THEN stack.index - i ELSE stack.index - i + size]

LEMMA PushedType ==
  ASSUME NEW size \in Nat \ {0}, NEW Calls, NEW stack \in Stack(size, Calls), NEW ip \in Calls
  PROVE  Push(stack, size, ip) \in Stack(size, Calls)
  BY DEF Push, Stack

LEMMA PoppedType ==
  ASSUME NEW size \in Nat \ {0}, NEW Calls, NEW stack \in Stack(size, Calls)
  PROVE  Pop(stack, size) \in Stack(size, Calls)
  BY DEF Pop, Stack

LEMMA AfterType ==
  ASSUME NEW size \in Nat \ {0}, NEW Calls, NEW stack \in Stack(size, Calls), NEW ip \in Calls,
         NEW type
  PROVE  After(stack, size, ip, type) \in Stack(size, Calls)
  BY PushedType, PoppedType DEF After

LEMMA NthOfPush ==
  ASSUME NEW size \in Nat \ {0}, NEW Calls, NEW stack \in Stack(size, Calls), NEW ip \in Calls,
         NEW i \in 0..(size - 1)
  PROVE  Nth(Push(stack, size, ip), size, i) = IF i = 0 THEN ip ELSE Nth(stack, size, i - 1)
  BY DEF Nth, Push, Stack

LEMMA NthOfPop ==
  ASSUME NEW size \in Nat \ {0}, NEW Calls, NEW stack \in Stack(size, Calls),
         NEW i \in 0..(size - 1)
  PROVE  Nth(Pop(stack, size), size, i)
           = IF i = size - 1 THEN NoCall ELSE Nth(stack, size, i + 1)
  BY DEF Nth, Pop, Stack

\* Where both stacks know the i-th caller, it is the same one.
Aligned(s, m, t, n) ==
  \A i \in 0..(m - 1) : i < n =>
    Nth(s, m, i) = NoCall \/ Nth(t, n, i) = NoCall \/ Nth(s, m, i) = Nth(t, n, i)

LEMMA AfterAligned ==
  ASSUME NEW m \in Nat \ {0}, NEW n \in Nat \ {0}, NEW Calls,
         NEW s \in Stack(m, Calls), NEW t \in Stack(n, Calls), Aligned(s, m, t, n),
         NEW ip \in Calls, NEW type
  PROVE  Aligned(After(s, m, ip, type), m, After(t, n, ip, type), n)
<1>1. CASE type \in {"call", "indirect_call"}
  <2>1. After(s, m, ip, type) = Push(s, m, ip) /\ After(t, n, ip, type) = Push(t, n, ip)
    BY <1>1 DEF After
  <2>2. ASSUME NEW i \in 0..(m - 1), i < n
        PROVE  \/ Nth(Push(s, m, ip), m, i) = NoCall
               \/ Nth(Push(t, n, ip), n, i) = NoCall
               \/ Nth(Push(s, m, ip), m, i) = Nth(Push(t, n, ip), n, i)
    <3>1. i \in 0..(n - 1)
      BY <2>2
    <3>2. CASE i = 0
      BY <3>1, <3>2, NthOfPush
    <3>3. CASE i # 0
      <4>1. i - 1 \in 0..(m - 1) /\ i - 1 < n
        BY <2>2, <3>3
      <4>2. \/ Nth(s, m, i - 1) = NoCall \/ Nth(t, n, i - 1) = NoCall
            \/ Nth(s, m, i - 1) = Nth(t, n, i - 1)
        BY <4>1 DEF Aligned
      <4> QED
        BY <3>1, <3>3, <4>2, NthOfPush
    <3> QED
      BY <3>2, <3>3
  <2> QED
    BY <2>1, <2>2 DEF Aligned
<1>2. CASE type = "return"
  <2>1. After(s, m, ip, type) = Pop(s, m) /\ After(t, n, ip, type) = Pop(t, n)
    BY <1>2 DEF After
  <2>2. ASSUME NEW i \in 0..(m - 1), i < n
        PROVE  \/ Nth(Pop(s, m), m, i) = NoCall
               \/ Nth(Pop(t, n), n, i) = NoCall
               \/ Nth(Pop(s, m), m, i) = Nth(Pop(t, n), n, i)
    <3>1. i \in 0..(n - 1)
      BY <2>2
    <3>2. CASE i = m - 1 \/ i = n - 1
      BY <3>1, <3>2, NthOfPop
    <3>3. CASE i # m - 1 /\ i # n - 1
      <4>1. i + 1 \in 0..(m - 1) /\ i + 1 < n
        BY <2>2, <3>3
      <4>2. \/ Nth(s, m, i + 1) = NoCall \/ Nth(t, n, i + 1) = NoCall
            \/ Nth(s, m, i + 1) = Nth(t, n, i + 1)
        BY <4>1 DEF Aligned
      <4> QED
        BY <3>1, <3>3, <4>2, NthOfPop
    <3> QED
      BY <3>2, <3>3
  <2> QED
    BY <2>1, <2>2 DEF Aligned
<1>3. CASE type \notin {"call", "indirect_call", "return"}
  BY <1>3 DEF After
<1> QED
  BY <1>1, <1>2, <1>3

-----------------------------------------------------------------------------
(* The branch target buffer.                                               *)

LEMMA MovedType ==
  ASSUME TypeOK, NEW p \in 1..WAYS, NEW ip \in Branches
  PROVE  Moved(p, ip) \in [1..WAYS -> Branches \cup {Invalid}]
  BY TargetPredictionAssumption DEF TypeOK, Moved

LEMMA TouchedType ==
  ASSUME TypeOK, NEW ip \in Branches
  PROVE  Touched(ip) \in [1..WAYS -> Branches \cup {Invalid}]
<1>1. CASE Known(ip)
  <2>1. \E p \in 1..WAYS : m_btb[p] = ip
    BY <1>1 DEF Known, Range, TypeOK
  <2>2. (CHOOSE p \in 1..WAYS : m_btb[p] = ip) \in 1..WAYS
    BY <2>1
  <2> QED
    BY <1>1, <2>2, MovedType DEF Touched
<1>2. CASE ~Known(ip)
  BY <1>2 DEF Touched, TypeOK
<1> QED
  BY <1>1, <1>2

LEMMA UpdatedType ==
  ASSUME TypeOK, NEW ip \in Branches, NEW taken \in BOOLEAN
  PROVE  Updated(ip, taken) \in [1..WAYS -> Branches \cup {Invalid}]
<1>1. 1 \in 1..WAYS
  BY TargetPredictionAssumption
<1>2. [m_btb EXCEPT ![1] = ip] \in [1..WAYS -> Branches \cup {Invalid}]
  BY DEF TypeOK
<1>3. Moved(1, ip) \in [1..WAYS -> Branches \cup {Invalid}]
  BY <1>1, MovedType
<1> QED
  BY <1>2, <1>3 DEF Updated, TypeOK

LEMMA KnownIsBranch ==
  ASSUME TypeOK, NEW ip, ip # Invalid, Known(ip)
  PROVE  ip \in Branches
  BY DEF TypeOK, Known, Range

-----------------------------------------------------------------------------
(* Types.                                                                  *)

LEMMA ConstantTypes ==
  /\ RAS_SIZE \in Nat \ {0} /\ ALT_RAS_SIZE \in Nat \ {0}
  /\ Branches \subseteq Nat \ {0}
  /\ IndirectTargets \subseteq Nat
  /\ \A ip \in Branches : TypeOf[ip] \in BranchTypes /\ TargetOf[ip] \in Nat \ {0}
  BY TargetPredictionAssumption

LEMMA TrainType ==
  ASSUME TypeOK, NEW ip \in Branches, NEW taken \in BOOLEAN, Train(ip, taken)
  PROVE  /\ ras' \in Stack(RAS_SIZE, Branches)
         /\ h2p_ras' \in Stack(ALT_RAS_SIZE, Branches)
         /\ m_btb' \in [1..WAYS -> Branches \cup {Invalid}]
         /\ lru_counter' \in {0, 1}
<1>1. ras' \in Stack(RAS_SIZE, Branches) /\ h2p_ras' \in Stack(ALT_RAS_SIZE, Branches)
  BY ConstantTypes, AfterType DEF TypeOK, Train
<1>2. m_btb' \in [1..WAYS -> Branches \cup {Invalid}]
  BY TouchedType, UpdatedType DEF Train
<1>3. lru_counter' \in {0, 1}
  BY DEF Train, TypeOK
<1> QED
  BY <1>1, <1>2, <1>3

LEMMA TargetIsAddress ==
  ASSUME TypeOK, NEW ip \in Branches, NEW indirect \in IndirectTargets
  PROVE  Target(ip, h2p_ras, indirect) \in Nat
<1>1. ReturnTarget(h2p_ras) \in Nat
  <2>1. h2p_ras.index \in 0..(ALT_RAS_SIZE - 1)
    BY DEF TypeOK, Stack
  <2>2. h2p_ras.slots[h2p_ras.index] \in Branches \cup {NoCall}
    BY <2>1 DEF TypeOK, Stack
  <2>3. Branches \cup {NoCall} \subseteq Nat
    BY ConstantTypes
  <2>4. Top(h2p_ras) \in Nat
    BY <2>2, <2>3 DEF Top
  <2> QED
    BY <2>4 DEF ReturnTarget
<1> QED
  BY <1>1, ConstantTypes DEF Target

LEMMA WalkStepType ==
  ASSUME TypeOK, NEW prediction \in BOOLEAN, NEW confidence \in Confidences,
         NEW indirect \in IndirectTargets, WalkStep(prediction, confidence, indirect)
  PROVE  TypeOK'
<1> DEFINE known == Known(m_ip)
           type == IF known THEN TypeOf[m_ip] ELSE "none"
           taken == known /\ (type = "conditional" => prediction)
           target == IF known THEN Target(m_ip, h2p_ras, indirect) ELSE 0
<1>1. walking /\ speculate_state /\ m_ip \in Nat \ {0}
  BY DEF WalkStep, TypeOK
<1>2. known => m_ip \in Branches
  BY <1>1, KnownIsBranch
<1>3. type \in BranchTypes \cup {"none"} /\ target \in Nat
  BY <1>2, ConstantTypes, TargetIsAddress
<1>4. h2p_ras' \in Stack(ALT_RAS_SIZE, Branches)
  BY <1>2, ConstantTypes, AfterType DEF TypeOK, WalkStep
<1>5. m_btb' \in [1..WAYS -> Branches \cup {Invalid}]
  BY <1>2, TouchedType DEF WalkStep, TypeOK, Touched
<1>6. path' \in Seq([ip : Nat, br_type : BranchTypes \cup {"none"}])
  <2>1. path' = Append(path, [ip |-> m_ip, br_type |-> type])
    BY DEF WalkStep
  <2> HIDE DEF type
  <2>2. [ip |-> m_ip, br_type |-> type] \in [ip : Nat, br_type : BranchTypes \cup {"none"}]
    BY <1>1, <1>3
  <2> QED
    BY <2>1, <2>2, AppendProperties DEF TypeOK
<1>7. ips_checked' \in 0..255
  BY DEF WalkStep, TypeOK
<1>8. end_counter' \in Nat
  BY TargetPredictionAssumption DEF WalkStep, Weight, TypeOK
<1>9. m_ip' \in Nat /\ (walking' => m_ip' # 0)
  <2>1. m_ip' = IF taken THEN target ELSE m_ip + 1
    BY DEF WalkStep
  <2>2. walking' => ~(taken /\ target = 0)
    BY DEF WalkStep
  <2> HIDE DEF taken, target
  <2> QED
    BY <1>1, <1>3, <2>1, <2>2
<1>10. walking' \in BOOLEAN /\ UNCHANGED <<ras, save_ras, lru_counter, speculate_state, fetching>>
  BY DEF WalkStep
<1> QED
  BY <1>1, <1>4, <1>5, <1>6, <1>7, <1>8, <1>9, <1>10 DEF TypeOK

THEOREM TypeCorrect == Spec => []TypeOK
<1>1. ASSUME Init PROVE TypeOK
  <2>1. \A n \in Nat \ {0} : EmptyStack(n) \in Stack(n, Branches)
    BY DEF Stack, EmptyStack
  <2>2. m_btb \in [1..WAYS -> Branches \cup {Invalid}]
    BY <1>1 DEF Init
  <2>3. path \in Seq([ip : Nat, br_type : BranchTypes \cup {"none"}])
    BY <1>1 DEF Init
  <2>4. /\ ras \in Stack(RAS_SIZE, Branches)
        /\ h2p_ras \in Stack(ALT_RAS_SIZE, Branches)
        /\ save_ras \in Stack(ALT_RAS_SIZE, Branches)
    BY <1>1, <2>1, ConstantTypes DEF Init
  <2>5. /\ speculate_state \in BOOLEAN
        /\ walking \in BOOLEAN /\ (walking => speculate_state) /\ (walking => m_ip # 0)
        /\ fetching \in IF speculate_state THEN [ip : Branches, taken : BOOLEAN] ELSE {NoBranch}
    BY <1>1 DEF Init
  <2>6. m_ip \in Nat /\ ips_checked \in 0..255 /\ end_counter \in Nat /\ lru_counter \in {0, 1}
    BY <1>1 DEF Init
  <2> QED
    BY <2>2, <2>3, <2>4, <2>5, <2>6 DEF TypeOK
<1>2. TypeOK /\ [Next]_vars => TypeOK'
  <2> SUFFICES ASSUME TypeOK, [Next]_vars PROVE TypeOK'
    OBVIOUS
  <2>1. ASSUME NEW ip \in Branches, NEW taken \in BOOLEAN, FetchBranch(ip, taken)
        PROVE  TypeOK'
    BY <2>1, TrainType DEF FetchBranch, walkVars, TypeOK
  <2>2. ASSUME NEW ip \in Branches, NEW taken \in BOOLEAN, FetchWithoutTarget(ip, taken)
        PROVE  TypeOK'
    BY <2>2, TrainType DEF FetchWithoutTarget, walkVars, TypeOK
  <2>3. ASSUME NEW ip \in Branches, NEW taken \in BOOLEAN, NEW prediction \in BOOLEAN,
               BeginWalk(ip, taken, prediction)
        PROVE  TypeOK'
    <3>1. m_ip' \in Nat /\ m_ip' # 0
      BY <2>3, ConstantTypes DEF BeginWalk
    <3>2. m_btb' \in [1..WAYS -> Branches \cup {Invalid}]
      BY <2>3, TouchedType DEF BeginWalk
    <3>3. path' \in Seq([ip : Nat, br_type : BranchTypes \cup {"none"}])
      BY <2>3 DEF BeginWalk
    <3> QED
      BY <2>3, <3>1, <3>2, <3>3 DEF BeginWalk, TypeOK
  <2>4. CASE Walk
    BY <2>4, WalkStepType DEF Walk
  <2>5. CASE EndWalk
    <3>1. fetching.ip \in Branches /\ fetching.taken \in BOOLEAN
      BY <2>5 DEF EndWalk, TypeOK
    <3>2. ras' \in Stack(RAS_SIZE, Branches) /\ h2p_ras' \in Stack(ALT_RAS_SIZE, Branches)
      BY <2>5, <3>1, ConstantTypes, AfterType DEF EndWalk, TypeOK, Restored
    <3>3. m_btb' \in [1..WAYS -> Branches \cup {Invalid}]
      BY <2>5, <3>1, UpdatedType DEF EndWalk
    <3>4. path' \in Seq([ip : Nat, br_type : BranchTypes \cup {"none"}])
      BY <2>5 DEF EndWalk
    <3>5. /\ lru_counter' \in {0, 1} /\ speculate_state' = FALSE
          /\ walking' = FALSE /\ fetching' = NoBranch /\ m_ip' = 0
          /\ ips_checked' = 0 /\ end_counter' = 0 /\ save_ras' = save_ras
      <4>1. walking = FALSE
        BY <2>5 DEF EndWalk, TypeOK
      <4> QED
        BY <2>5, <4>1 DEF EndWalk, TypeOK
    <3>6. save_ras' \in Stack(ALT_RAS_SIZE, Branches)
      BY <3>5 DEF TypeOK
    <3>7. /\ walking' \in BOOLEAN /\ (walking' => speculate_state')
          /\ (walking' => m_ip' # 0)
      BY <3>5
    <3>8. fetching' \in IF speculate_state' THEN [ip : Branches, taken : BOOLEAN] ELSE {NoBranch}
      BY <3>5
    <3>9. m_ip' \in Nat /\ ips_checked' \in 0..255 /\ end_counter' \in Nat
      BY <3>5
    <3> QED
      BY <3>2, <3>3, <3>4, <3>5, <3>6, <3>7, <3>8, <3>9 DEF TypeOK
  <2>6. CASE UNCHANGED vars
    BY <2>6 DEF vars, stackVars, walkVars, TypeOK
  <2> QED
    BY <2>1, <2>2, <2>3, <2>4, <2>5, <2>6 DEF Next
<1> QED
  BY <1>1, <1>2, PTL DEF Spec

-----------------------------------------------------------------------------
(* The return stacks.                                                      *)

\* The inductive invariant: not only the tops agree, but all that both stacks hold.
StacksAligned == Aligned(ras, RAS_SIZE, MainPathRas, ALT_RAS_SIZE)

\* A walk changes neither stack, as the main path sees them.
LEMMA WalkKeepsMainPath ==
  ASSUME TypeOK,
         \/ Walk
         \/ \E ip \in Branches, taken \in BOOLEAN, prediction \in BOOLEAN :
              BeginWalk(ip, taken, prediction)
         \/ UNCHANGED vars
  PROVE  ras' = ras /\ MainPathRas' = MainPathRas
<1>1. CASE Walk
  <2>1. /\ ras' = ras /\ save_ras' = save_ras
        /\ speculate_state' = speculate_state /\ speculate_state
    BY <1>1 DEF Walk, WalkStep, TypeOK
  <2> QED
    BY <2>1 DEF MainPathRas
<1>2. ASSUME NEW ip \in Branches, NEW taken \in BOOLEAN, NEW prediction \in BOOLEAN,
             BeginWalk(ip, taken, prediction)
      PROVE  ras' = ras /\ MainPathRas' = MainPathRas
  BY <1>2 DEF BeginWalk, MainPathRas
<1>3. CASE UNCHANGED vars
  BY <1>3 DEF vars, stackVars, walkVars, MainPathRas
<1> QED
  BY <1>1, <1>2, <1>3

\* The other steps execute one branch, on both stacks.
LEMMA ExecutesOne ==
  ASSUME TypeOK,
         \/ EndWalk
         \/ \E ip \in Branches, taken \in BOOLEAN :
              FetchBranch(ip, taken) \/ FetchWithoutTarget(ip, taken)
  PROVE  \E ip \in Branches, taken \in BOOLEAN :
           /\ ras' = After(ras, RAS_SIZE, ip, TypeOf[ip])
           /\ MainPathRas' = After(MainPathRas, ALT_RAS_SIZE, ip, TypeOf[ip])
           /\ m_btb' = Updated(ip, taken) \/ (Known(ip) /\ m_btb' = Touched(ip))
<1>1. CASE EndWalk
  <2>1. fetching.ip \in Branches /\ fetching.taken \in BOOLEAN
    BY <1>1 DEF EndWalk, TypeOK
  <2>2. MainPathRas = save_ras /\ MainPathRas' = h2p_ras'
    BY <1>1 DEF EndWalk, MainPathRas
  <2>3. /\ ras' = After(ras, RAS_SIZE, fetching.ip, TypeOf[fetching.ip])
        /\ h2p_ras' = After(save_ras, ALT_RAS_SIZE, fetching.ip, TypeOf[fetching.ip])
        /\ m_btb' = Updated(fetching.ip, fetching.taken)
    BY <1>1 DEF EndWalk, Restored
  <2> QED
    BY <2>1, <2>2, <2>3
<1>2. ASSUME NEW ip \in Branches, NEW taken \in BOOLEAN,
             FetchBranch(ip, taken) \/ FetchWithoutTarget(ip, taken)
      PROVE  /\ ras' = After(ras, RAS_SIZE, ip, TypeOf[ip])
             /\ MainPathRas' = After(MainPathRas, ALT_RAS_SIZE, ip, TypeOf[ip])
             /\ m_btb' = Updated(ip, taken) \/ (Known(ip) /\ m_btb' = Touched(ip))
  <2>1. /\ ~speculate_state /\ speculate_state' = speculate_state /\ Train(ip, taken)
    BY <1>2 DEF FetchBranch, FetchWithoutTarget, walkVars
  <2>2. MainPathRas = h2p_ras /\ MainPathRas' = h2p_ras'
    BY <2>1 DEF MainPathRas
  <2> QED
    BY <2>1, <2>2 DEF Train
<1> QED
  BY <1>1, <1>2

LEMMA NextSplits ==
  ASSUME [Next]_vars
  PROVE  \/ \/ Walk
            \/ \E ip \in Branches, taken \in BOOLEAN, prediction \in BOOLEAN :
                 BeginWalk(ip, taken, prediction)
            \/ UNCHANGED vars
         \/ \/ EndWalk
            \/ \E ip \in Branches, taken \in BOOLEAN :
                 FetchBranch(ip, taken) \/ FetchWithoutTarget(ip, taken)
  BY DEF Next

\* However often either stack has overflowed, and whatever walks have been followed in
\* between, the main path and an alternate path never return to different callers.
THEOREM StacksAgree == Spec => []ReturnStacksAgree
<1>1. Init => StacksAligned
  BY ConstantTypes DEF Init, StacksAligned, Aligned, Nth, MainPathRas, EmptyStack
<1>2. TypeOK /\ StacksAligned /\ [Next]_vars => StacksAligned'
  <2> SUFFICES ASSUME TypeOK, StacksAligned, [Next]_vars PROVE StacksAligned'
    OBVIOUS
  <2>1. CASE ras' = ras /\ MainPathRas' = MainPathRas
    BY <2>1 DEF StacksAligned, Aligned
  <2>2. ASSUME NEW ip \in Branches,
               ras' = After(ras, RAS_SIZE, ip, TypeOf[ip]),
               MainPathRas' = After(MainPathRas, ALT_RAS_SIZE, ip, TypeOf[ip])
        PROVE  StacksAligned'
    <3>1. ras \in Stack(RAS_SIZE, Branches) /\ MainPathRas \in Stack(ALT_RAS_SIZE, Branches)
      BY DEF TypeOK, MainPathRas
    <3>2. Aligned(After(ras, RAS_SIZE, ip, TypeOf[ip]), RAS_SIZE,
                  After(MainPathRas, ALT_RAS_SIZE, ip, TypeOf[ip]), ALT_RAS_SIZE)
      BY <3>1, ConstantTypes, AfterAligned DEF StacksAligned
    <3> QED
      BY <2>2, <3>2 DEF StacksAligned
  <2> QED
    BY <2>1, <2>2, NextSplits, WalkKeepsMainPath, ExecutesOne
<1>3. TypeOK /\ StacksAligned => ReturnStacksAgree
  <2> SUFFICES ASSUME TypeOK, StacksAligned PROVE ReturnStacksAgree
    OBVIOUS
  <2>1. ras.index \in Nat /\ MainPathRas.index \in Nat
    BY ConstantTypes DEF TypeOK, Stack, MainPathRas
  <2>2. /\ Nth(ras, RAS_SIZE, 0) = Top(ras)
        /\ Nth(MainPathRas, ALT_RAS_SIZE, 0) = Top(MainPathRas)
    BY <2>1 DEF Nth, Top
  <2>3. 0 \in 0..(RAS_SIZE - 1) /\ 0 < ALT_RAS_SIZE
    BY ConstantTypes
  <2> QED
    BY <2>2, <2>3 DEF StacksAligned, Aligned, ReturnStacksAgree
<1> QED
  BY <1>1, <1>2, <1>3, TypeCorrect, PTL DEF Spec

-----------------------------------------------------------------------------
(* The length of a walk.                                                   *)

PathCounted ==
  /\ Len(path) <= end_counter
  /\ walking => end_counter < H2P_T
  /\ Len(path) <= H2P_T

\* Every instruction adds something to end_counter, so a walk visits at most H2P_T of
\* them, calls and loops included.
THEOREM WalksAreBounded == Spec => [](Len(path) <= H2P_T)
<1>1. Init => PathCounted
  BY TargetPredictionAssumption DEF Init, PathCounted
<1>2. TypeOK /\ PathCounted /\ [Next]_vars => PathCounted'
  <2> SUFFICES ASSUME TypeOK, PathCounted, [Next]_vars PROVE PathCounted'
    OBVIOUS
  <2>1. ASSUME NEW prediction \in BOOLEAN, NEW confidence \in Confidences,
               NEW indirect \in IndirectTargets, WalkStep(prediction, confidence, indirect)
        PROVE  PathCounted'
    <3> DEFINE type == IF Known(m_ip) THEN TypeOf[m_ip] ELSE "none"
               w == Weight(type, confidence)
    <3>1. w \in Nat /\ w >= 1
      BY TargetPredictionAssumption DEF Weight
    <3>2. end_counter' = end_counter + w
      BY <2>1 DEF WalkStep
    <3>3. walking' => end_counter' < H2P_T
      <4> HIDE DEF w
      <4>1. end_counter' \in Nat /\ H2P_T \in Nat
        BY <3>1, <3>2, TargetPredictionAssumption DEF TypeOK
      <4>2. walking' => ~(end_counter' >= H2P_T)
        BY <2>1 DEF WalkStep
      <4> QED
        BY <4>1, <4>2
    <3>4. Len(path') = Len(path) + 1 /\ Len(path) \in Nat
      BY <2>1, AppendProperties, LenProperties DEF WalkStep, TypeOK
    <3>5. Len(path) <= end_counter /\ end_counter < H2P_T /\ end_counter \in Nat
      BY <2>1 DEF WalkStep, PathCounted, TypeOK
    <3> HIDE DEF w
    <3> QED
      BY <3>1, <3>2, <3>3, <3>4, <3>5, TargetPredictionAssumption DEF PathCounted
  <2>2. ASSUME NEW ip \in Branches, NEW taken \in BOOLEAN, NEW prediction \in BOOLEAN,
               BeginWalk(ip, taken, prediction)
        PROVE  PathCounted'
    BY <2>2, TargetPredictionAssumption DEF BeginWalk, PathCounted
  <2>3. CASE EndWalk
    <3>1. path' = <<>> /\ end_counter' = 0
      BY <2>3 DEF EndWalk
    <3> QED
      BY <3>1, TargetPredictionAssumption DEF PathCounted
  <2>4. ASSUME UNCHANGED walkVars PROVE PathCounted'
    BY <2>4 DEF walkVars, PathCounted
  <2> QED
    BY <2>1, <2>2, <2>3, <2>4
       DEF Next, Walk, FetchBranch, FetchWithoutTarget, vars
<1>3. PathCounted => Len(path) <= H2P_T
  BY DEF PathCounted
<1> QED
  BY <1>1, <1>2, <1>3, TypeCorrect, PTL DEF Spec

-----------------------------------------------------------------------------
(* Returns on alternate paths.                                             *)

PathEntry == [ip : Nat, br_type : BranchTypes \cup {"none"}]
CallTypes == {"call", "indirect_call"}

CallsIn(p, i, j) == {k \in i..j : p[k].br_type \in CallTypes}
ReturnsIn(p, i, j) == {k \in i..j : p[k].br_type = "return"}
DepthIn(p, i, j) == Cardinality(CallsIn(p, i, j)) - Cardinality(ReturnsIn(p, i, j))

\* The call at position i of p has not been returned from before position j.
OpenTo(p, i, j) == p[i].br_type \in CallTypes /\ \A k \in i..(j - 1) : DepthIn(p, i, k) > 0

\* What an instruction of the type adds to the depth.
Change(type) == IF type \in CallTypes THEN 1 ELSE IF type = "return" THEN -1 ELSE 0

LEMMA CountsAreFinite ==
  ASSUME NEW p, NEW i \in Nat, NEW j \in Nat
  PROVE  /\ IsFiniteSet(CallsIn(p, i, j)) /\ Cardinality(CallsIn(p, i, j)) \in Nat
         /\ IsFiniteSet(ReturnsIn(p, i, j)) /\ Cardinality(ReturnsIn(p, i, j)) \in Nat
         /\ DepthIn(p, i, j) \in Int
<1>1. IsFiniteSet(i..j)
  BY FS_Interval
<1>2. CallsIn(p, i, j) \in SUBSET (i..j) /\ ReturnsIn(p, i, j) \in SUBSET (i..j)
  BY DEF CallsIn, ReturnsIn
<1>3. /\ IsFiniteSet(CallsIn(p, i, j)) /\ Cardinality(CallsIn(p, i, j)) \in Nat
      /\ IsFiniteSet(ReturnsIn(p, i, j)) /\ Cardinality(ReturnsIn(p, i, j)) \in Nat
  BY <1>1, <1>2, FS_Subset, FS_CardinalityType
<1> QED BY <1>3 DEF DepthIn

\* Depths on a path that grows by one instruction.
LEMMA DepthOfAppend ==
  ASSUME NEW p \in Seq(PathEntry), NEW e \in PathEntry, NEW i \in 1..(Len(p) + 1)
  PROVE  /\ \A k \in i..Len(p) : DepthIn(Append(p, e), i, k) = DepthIn(p, i, k)
         /\ DepthIn(Append(p, e), i, Len(p) + 1) = DepthIn(p, i, Len(p)) + Change(e.br_type)
         /\ i = Len(p) + 1 => DepthIn(p, i, Len(p)) = 0
<1> DEFINE n == Len(p)
           q == Append(p, e)
<1>1. n \in Nat /\ (\A k \in 1..n : q[k] = p[k]) /\ q[n + 1] = e
  BY AppendProperties, LenProperties
<1> HIDE DEF n, q
<1>2. i \in Nat /\ i \in 1..(n + 1) /\ n + 1 \in Nat
  BY <1>1 DEF n
<1>3. ASSUME NEW k \in i..n
      PROVE  DepthIn(q, i, k) = DepthIn(p, i, k)
  <2>1. \A m \in i..k : q[m] = p[m]
    BY <1>1, <1>2
  <2>2. CallsIn(q, i, k) = CallsIn(p, i, k) /\ ReturnsIn(q, i, k) = ReturnsIn(p, i, k)
    BY <2>1 DEF CallsIn, ReturnsIn
  <2> QED BY <2>2 DEF DepthIn
<1>4. DepthIn(q, i, n + 1) = DepthIn(p, i, n) + Change(e.br_type)
  <2>1. /\ i..(n + 1) = (i..n) \cup {n + 1} /\ n + 1 \notin i..n
        /\ \A m \in i..n : q[m] = p[m]
    BY <1>1, <1>2
  <2>2. /\ CallsIn(q, i, n + 1) =
             CallsIn(p, i, n) \cup (IF e.br_type \in CallTypes THEN {n + 1} ELSE {})
        /\ ReturnsIn(q, i, n + 1) =
             ReturnsIn(p, i, n) \cup (IF e.br_type = "return" THEN {n + 1} ELSE {})
        /\ n + 1 \notin CallsIn(p, i, n) /\ n + 1 \notin ReturnsIn(p, i, n)
    BY <1>1, <2>1 DEF CallsIn, ReturnsIn
  <2> DEFINE calls == Cardinality(CallsIn(p, i, n))
             returns == Cardinality(ReturnsIn(p, i, n))
  <2>3. calls \in Nat /\ returns \in Nat
    BY <1>1, <1>2, CountsAreFinite
  <2>4. /\ Cardinality(CallsIn(q, i, n + 1)) =
             IF e.br_type \in CallTypes THEN calls + 1 ELSE calls
        /\ Cardinality(ReturnsIn(q, i, n + 1)) =
             IF e.br_type = "return" THEN returns + 1 ELSE returns
    <3>1. IsFiniteSet(CallsIn(p, i, n)) /\ IsFiniteSet(ReturnsIn(p, i, n))
      BY <1>1, <1>2, CountsAreFinite
    <3>2. /\ Cardinality(CallsIn(p, i, n) \cup {n + 1}) = calls + 1
          /\ Cardinality(ReturnsIn(p, i, n) \cup {n + 1}) = returns + 1
      BY <2>2, <3>1, FS_AddElement
    <3>3. CallsIn(p, i, n) \cup {} = CallsIn(p, i, n) /\ ReturnsIn(p, i, n) \cup {} = ReturnsIn(p, i, n)
      OBVIOUS
    <3> QED BY <2>2, <3>2, <3>3
  <2>5. /\ DepthIn(q, i, n + 1) =
             Cardinality(CallsIn(q, i, n + 1)) - Cardinality(ReturnsIn(q, i, n + 1))
        /\ DepthIn(p, i, n) = calls - returns
    BY DEF DepthIn
  <2> HIDE DEF calls, returns
  <2>6. e.br_type = "return" => e.br_type \notin CallTypes
    BY DEF CallTypes
  <2> QED BY <2>3, <2>4, <2>5, <2>6 DEF Change
<1>5. ASSUME i = n + 1
      PROVE  DepthIn(p, i, n) = 0
  <2>1. CallsIn(p, i, n) = {} /\ ReturnsIn(p, i, n) = {}
    BY <1>1, <1>5 DEF CallsIn, ReturnsIn
  <2> QED BY <2>1, FS_EmptySet DEF DepthIn
<1> QED BY <1>3, <1>4, <1>5 DEF n, q

\* The stack of a walk knows, of each call that is open, the call or nothing, as deep
\* as calls have been made in it since.
CallersKept ==
  \A i \in 1..Len(path) :
    LET depth == DepthIn(path, i, Len(path))
    IN  OpenTo(path, i, Len(path) + 1) /\ depth <= ALT_RAS_SIZE =>
          Nth(h2p_ras, ALT_RAS_SIZE, depth - 1) \in {NoCall, path[i].ip}

\* A walk that has just returned from a call goes on behind it.
GoesBack ==
  walking => \A i \in 1..Len(path) :
    OpenTo(path, i, Len(path)) /\ DepthIn(path, i, Len(path)) = 0 => m_ip = path[i].ip + 1

ReturnsFollow(p) ==
  \A i, j \in 1..Len(p) :
    i < j /\ j < Len(p) /\ OpenTo(p, i, j) /\ DepthIn(p, i, j) = 0 => p[j + 1].ip = p[i].ip + 1

PathInv ==
  /\ CallersKept /\ GoesBack /\ ReturnsFollow(path)
  /\ ~speculate_state => path = <<>>

LEMMA EmptyPath == ASSUME path' = <<>> PROVE PathInv'
<1>1. Len(path') = 0
  BY EmptySeq
<1>2. \A i \in 1..Len(path') : FALSE
  BY <1>1
<1> QED BY <1>2 DEF PathInv, CallersKept, GoesBack, ReturnsFollow

LEMMA WalkKeepsPaths ==
  ASSUME TypeOK, PathInv, NEW prediction \in BOOLEAN, NEW confidence \in Confidences,
         NEW indirect \in IndirectTargets, WalkStep(prediction, confidence, indirect)
  PROVE  PathInv'
<1> DEFINE known == Known(m_ip)
           type == IF known THEN TypeOf[m_ip] ELSE "none"
           taken == known /\ (type = "conditional" => prediction)
           target == IF known THEN Target(m_ip, h2p_ras, indirect) ELSE 0
           e == [ip |-> m_ip, br_type |-> type]
           n == Len(path)
           size == ALT_RAS_SIZE
<1>1. /\ walking /\ speculate_state /\ m_ip \in Nat \ {0}
      /\ path \in Seq(PathEntry) /\ h2p_ras \in Stack(size, Branches)
      /\ size \in Nat \ {0} /\ n \in Nat
  BY ConstantTypes, LenProperties DEF WalkStep, TypeOK, PathEntry
<1>2. known => m_ip \in Branches
  BY <1>1, KnownIsBranch
<1>3. type \in BranchTypes \cup {"none"} /\ (~known => type = "none")
  BY <1>2, ConstantTypes
<1>4. /\ path' = Append(path, e)
      /\ h2p_ras' = IF known THEN After(h2p_ras, size, m_ip, type) ELSE h2p_ras
      /\ m_ip' = IF taken THEN target ELSE m_ip + 1
      /\ walking' => ~(taken /\ target = 0)
      /\ speculate_state' = speculate_state
  BY DEF WalkStep
<1>5. type = "return" => known /\ taken /\ target = ReturnTarget(h2p_ras)
  <2>1. type = "return" => known /\ TypeOf[m_ip] = "return"
    BY <1>3
  <2> QED BY <2>1 DEF Target
<1>6. e \in PathEntry /\ e.br_type = type /\ e.ip = m_ip
  <2> HIDE DEF type
  <2> QED BY <1>1, <1>3 DEF PathEntry
<1> HIDE DEF known, type, taken, target, e
<1>7. /\ Len(path') = n + 1 /\ path'[n + 1] = e
      /\ \A k \in 1..n : path'[k] = path[k]
  BY <1>1, <1>4, <1>6, AppendProperties
<1>8. \A i \in 1..(n + 1) :
        /\ \A k \in i..n : DepthIn(path', i, k) = DepthIn(path, i, k)
        /\ DepthIn(path', i, n + 1) = DepthIn(path, i, n) + Change(type)
        /\ i = n + 1 => DepthIn(path, i, n) = 0
        /\ DepthIn(path, i, n) \in Int
  <2>1. \A i \in 1..(n + 1) : i \in Nat
    BY <1>1
  <2> QED BY <1>1, <1>4, <1>6, <2>1, DepthOfAppend, CountsAreFinite
<1>9. h2p_ras' = IF type \in CallTypes THEN Push(h2p_ras, size, m_ip)
                 ELSE IF type = "return" THEN Pop(h2p_ras, size) ELSE h2p_ras
  BY <1>3, <1>4 DEF After, CallTypes
<1> HIDE DEF n, size
\* A call that is open was open before, or is made now.
<1>10. ASSUME NEW i \in 1..n, NEW j \in 1..(n + 1), OpenTo(path', i, j)
       PROVE  OpenTo(path, i, j)
  <2>1. \A k \in i..(j - 1) : k \in i..n
    BY <1>1, <1>10
  <2>2. i \in 1..(n + 1) /\ path'[i] = path[i]
    BY <1>1, <1>7
  <2> QED BY <1>8, <1>10, <2>1, <2>2 DEF OpenTo
<1>11. ASSUME NEW i \in 1..n, OpenTo(path', i, n + 2)
       PROVE  OpenTo(path, i, n + 1) /\ OpenTo(path', i, n + 1) /\ DepthIn(path', i, n + 1) > 0
  <2>1. (n + 2) - 1 = n + 1 /\ n + 1 \in i..(n + 1) /\ n + 1 \in 1..(n + 1)
        /\ \A k \in i..((n + 1) - 1) : k \in i..(n + 1)
    BY <1>1
  <2>2. OpenTo(path', i, n + 1) /\ DepthIn(path', i, n + 1) > 0
    BY <1>11, <2>1 DEF OpenTo
  <2> QED BY <1>10, <2>1, <2>2
<1>12. ASSUME NEW i \in 1..n, OpenTo(path, i, n + 1)
       PROVE  /\ DepthIn(path, i, n) > 0
              /\ DepthIn(path, i, n) <= size =>
                   Nth(h2p_ras, size, DepthIn(path, i, n) - 1) \in {NoCall, path[i].ip}
  <2>1. n \in i..((n + 1) - 1)
    BY <1>1
  <2> QED BY <1>12, <2>1 DEF OpenTo, PathInv, CallersKept, n, size
<1>13. CallersKept'
  <2>1. ASSUME NEW i \in 1..(n + 1), OpenTo(path', i, n + 2),
               DepthIn(path', i, n + 1) <= size
        PROVE  Nth(h2p_ras', size, DepthIn(path', i, n + 1) - 1) \in {NoCall, path'[i].ip}
    <3>1. CASE i = n + 1
      <4>1. type \in CallTypes /\ path'[i].ip = m_ip
        BY <1>6, <1>7, <2>1, <3>1 DEF OpenTo
      <4>2. DepthIn(path', i, n + 1) - 1 = 0
        BY <1>8, <3>1, <4>1 DEF Change
      <4>3. m_ip \in Branches /\ 0 \in 0..(size - 1)
        BY <1>1, <1>2, <1>3, <4>1 DEF CallTypes
      <4>4. Nth(Push(h2p_ras, size, m_ip), size, 0) = m_ip
        BY <1>1, <4>3, NthOfPush
      <4> QED BY <1>9, <4>1, <4>2, <4>4
    <3>2. CASE i # n + 1
      <4> DEFINE d == DepthIn(path, i, n)
      <4>1. i \in 1..n /\ path'[i] = path[i]
        BY <1>1, <1>7, <3>2
      <4>2. /\ d \in Int /\ d > 0 /\ (d <= size => Nth(h2p_ras, size, d - 1) \in {NoCall, path[i].ip})
            /\ DepthIn(path', i, n + 1) = d + Change(type) /\ d + Change(type) > 0
        BY <1>8, <1>11, <1>12, <2>1, <4>1
      <4> HIDE DEF d
      <4>3. CASE type \in CallTypes
        <5>1. Change(type) = 1 /\ d \in 0..(size - 1) /\ d # 0 /\ (d + 1) - 1 = d /\ d <= size
          BY <1>1, <2>1, <4>2, <4>3 DEF Change
        <5>2. m_ip \in Branches
          BY <1>2, <1>3, <4>3 DEF CallTypes
        <5>3. Nth(Push(h2p_ras, size, m_ip), size, d) = Nth(h2p_ras, size, d - 1)
          BY <1>1, <5>1, <5>2, NthOfPush
        <5> QED BY <1>9, <4>1, <4>2, <4>3, <5>1, <5>3
      <4>4. CASE type = "return"
        <5>1. type \notin CallTypes
          BY <4>4 DEF CallTypes
        <5>2. /\ Change(type) = -1 /\ d - 2 \in 0..(size - 1) /\ (d + (-1)) - 1 = d - 2
              /\ (d - 2) + 1 = d - 1 /\ (d - 2 # size - 1 => d <= size)
          BY <1>1, <2>1, <4>2, <4>4, <5>1 DEF Change
        <5>3. Nth(Pop(h2p_ras, size), size, d - 2) =
                IF d - 2 = size - 1 THEN NoCall ELSE Nth(h2p_ras, size, d - 1)
          BY <1>1, <5>2, NthOfPop
        <5> QED BY <1>9, <4>1, <4>2, <4>4, <5>1, <5>2, <5>3
      <4>5. CASE type \notin CallTypes /\ type # "return"
        <5>1. Change(type) = 0 /\ h2p_ras' = h2p_ras /\ d + 0 = d
          BY <1>9, <4>2, <4>5 DEF Change
        <5> QED BY <2>1, <4>1, <4>2, <5>1
      <4> QED BY <4>3, <4>4, <4>5
    <3> QED BY <3>1, <3>2
  <2>2. (n + 1) + 1 = n + 2
    BY <1>1
  <2> QED BY <1>7, <2>1, <2>2 DEF CallersKept, size
<1>14. GoesBack'
  <2>1. ASSUME walking', NEW i \in 1..(n + 1), OpenTo(path', i, n + 1),
               DepthIn(path', i, n + 1) = 0
        PROVE  m_ip' = path'[i].ip + 1
    <3>1. i # n + 1
      <4>1. CASE i = n + 1
        <5>1. type \in CallTypes
          BY <1>6, <1>7, <2>1, <4>1 DEF OpenTo
        <5> QED BY <1>8, <2>1, <4>1, <5>1 DEF Change
      <4> QED BY <4>1
    <3> DEFINE d == DepthIn(path, i, n)
    <3>2. i \in 1..n /\ path'[i] = path[i] /\ n + 1 \in 1..(n + 1)
      BY <1>1, <1>7, <3>1
    <3>3. /\ d \in Int /\ d > 0 /\ (d <= size => Nth(h2p_ras, size, d - 1) \in {NoCall, path[i].ip})
          /\ d + Change(type) = 0
      BY <1>8, <1>10, <1>12, <2>1, <3>2
    <3> HIDE DEF d
    <3>4. d = 1 /\ type = "return"
      BY <3>3 DEF Change
    <3>5. Nth(h2p_ras, size, 0) = Top(h2p_ras)
      BY <1>1 DEF Nth, Top, Stack
    <3>6. Top(h2p_ras) \in {NoCall, path[i].ip}
      <4>1. 1 <= size /\ 1 - 1 = 0
        BY <1>1
      <4> QED BY <3>3, <3>4, <3>5, <4>1
    <3>7. m_ip' = target /\ target # 0 /\ target = ReturnTarget(h2p_ras)
      BY <1>4, <1>5, <2>1, <3>4
    <3> QED BY <3>2, <3>6, <3>7 DEF ReturnTarget
  <2> QED BY <1>7, <2>1 DEF GoesBack
<1>15. ReturnsFollow(path)'
  <2>1. ASSUME NEW i \in 1..(n + 1), NEW j \in 1..(n + 1), i < j, j < n + 1,
               OpenTo(path', i, j), DepthIn(path', i, j) = 0
        PROVE  path'[j + 1].ip = path'[i].ip + 1
    <3>1. i \in 1..n /\ j \in 1..n /\ j \in i..n /\ path'[i] = path[i]
      BY <1>1, <1>7, <2>1
    <3>2. OpenTo(path, i, j) /\ DepthIn(path, i, j) = 0
      BY <1>8, <1>10, <2>1, <3>1
    <3>3. CASE j = n
      BY <1>1, <1>6, <1>7, <3>1, <3>2, <3>3 DEF PathInv, GoesBack, n
    <3>4. CASE j # n
      <4>1. j < n /\ j + 1 \in 1..n
        BY <1>1, <3>1, <3>4
      <4> QED BY <1>7, <2>1, <3>1, <3>2, <4>1 DEF PathInv, ReturnsFollow, n
    <3> QED BY <3>3, <3>4
  <2> QED BY <1>7, <2>1 DEF ReturnsFollow
<1> QED BY <1>1, <1>4, <1>13, <1>14, <1>15 DEF PathInv

\* However deep an alternate path calls and returns, and whatever it overwrites of its
\* small return stack, a return whose call is on the path goes back behind that call.
THEOREM ReturnsGoBack == Spec => []PathsReturnToCaller
<1>1. Init => PathInv
  <2> SUFFICES ASSUME Init PROVE PathInv
    OBVIOUS
  <2>1. path = <<>> /\ \A i \in 1..Len(path) : FALSE
    BY EmptySeq DEF Init
  <2> QED BY <2>1 DEF PathInv, CallersKept, GoesBack, ReturnsFollow
<1>2. TypeOK /\ PathInv /\ [Next]_vars => PathInv'
  <2> SUFFICES ASSUME TypeOK, PathInv, [Next]_vars PROVE PathInv'
    OBVIOUS
  <2>1. CASE Walk
    BY <2>1, WalkKeepsPaths DEF Walk
  <2>2. CASE EndWalk
    BY <2>2, EmptyPath DEF EndWalk
  <2>3. ASSUME NEW ip \in Branches, NEW taken \in BOOLEAN,
               FetchBranch(ip, taken) \/ FetchWithoutTarget(ip, taken)
        PROVE  PathInv'
    BY <2>3, EmptyPath DEF FetchBranch, FetchWithoutTarget, walkVars, PathInv
  <2>4. ASSUME NEW ip \in Branches, NEW taken \in BOOLEAN, NEW prediction \in BOOLEAN,
               BeginWalk(ip, taken, prediction)
        PROVE  PathInv'
    BY <2>4, EmptyPath DEF BeginWalk
  <2>5. CASE UNCHANGED vars
    BY <2>5 DEF vars, stackVars, walkVars, PathInv, CallersKept, GoesBack, ReturnsFollow
  <2> QED BY <2>1, <2>2, <2>3, <2>4, <2>5 DEF Next
<1>3. TypeOK /\ PathInv => PathsReturnToCaller
  <2> SUFFICES ASSUME TypeOK, PathInv PROVE PathsReturnToCaller
    OBVIOUS
  <2>1. DOMAIN path = 1..Len(path)
    BY LenProperties DEF TypeOK
  <2>2. \A i, j : Depth(i, j) = DepthIn(path, i, j)
    BY DEF Depth, DepthIn, CallsIn, ReturnsIn, CallTypes
  <2> QED BY <2>1, <2>2 DEF PathInv, ReturnsFollow, OpenTo, PathsReturnToCaller, CallTypes
<1> QED BY <1>1, <1>2, <1>3, TypeCorrect, PTL DEF Spec

-----------------------------------------------------------------------------
(* The refinement.                                                         *)

\* The branches in the buffer.
KnownBranches == Range(m_btb) \ {Invalid}

LEMMA RangeMembers ==
  ASSUME NEW f, NEW S, NEW R, DOMAIN f = S,
         \A n \in S : f[n] \in R,
         \A r \in R : \E n \in S : f[n] = r
  PROVE  Range(f) = R
  BY DEF Range

\* Looking a branch up changes the order of the ways, and not what they hold.
LEMMA TouchedRange ==
  ASSUME TypeOK, NEW ip \in Branches
  PROVE  Range(Touched(ip)) = Range(m_btb)
<1>1. CASE ~Known(ip)
  BY <1>1 DEF Touched
<1>2. CASE Known(ip)
  <2>1. PICK p \in 1..WAYS : m_btb[p] = ip /\ Touched(ip) = Moved(p, ip)
    <3>1. \E p \in 1..WAYS : m_btb[p] = ip
      BY <1>2 DEF Known, Range, TypeOK
    <3> QED
      BY <1>2, <3>1 DEF Touched
  <2>2. WAYS \in Nat \ {0} /\ DOMAIN m_btb = 1..WAYS /\ DOMAIN Moved(p, ip) = 1..WAYS
    BY TargetPredictionAssumption DEF TypeOK, Moved
  <2>3. ASSUME NEW n \in 1..WAYS PROVE \E q \in 1..WAYS : Moved(p, ip)[n] = m_btb[q]
    <3>1. CASE n < p
      BY <3>1 DEF Moved
    <3>2. CASE ~(n < p) /\ n < WAYS
      BY <2>2, <3>2 DEF Moved
    <3>3. CASE n = WAYS
      BY <2>1, <2>2, <3>3 DEF Moved
    <3> QED
      BY <2>2, <3>1, <3>2, <3>3
  <2>4. ASSUME NEW q \in 1..WAYS PROVE \E n \in 1..WAYS : Moved(p, ip)[n] = m_btb[q]
    <3>1. CASE q < p
      BY <3>1 DEF Moved
    <3>2. CASE q = p
      BY <2>1, <2>2, <3>2 DEF Moved
    <3>3. CASE q > p
      <4>1. q - 1 \in 1..WAYS /\ ~(q - 1 < p) /\ q - 1 < WAYS /\ (q - 1) + 1 = q
        BY <2>2, <3>3
      <4> QED
        BY <4>1 DEF Moved
    <3> QED
      BY <3>1, <3>2, <3>3
  <2>5. /\ \A n \in 1..WAYS : Moved(p, ip)[n] \in Range(m_btb)
        /\ \A r \in Range(m_btb) : \E n \in 1..WAYS : Moved(p, ip)[n] = r
    <3>1. Range(m_btb) = {m_btb[q] : q \in 1..WAYS}
      BY <2>2 DEF Range
    <3> QED
      BY <2>3, <2>4, <3>1
  <2>6. Range(Moved(p, ip)) = Range(m_btb)
    BY <2>2, <2>5, RangeMembers
  <2> QED
    BY <2>1, <2>6
<1> QED
  BY <1>1, <1>2

\* A branch that replaces another leaves the remaining ones.
LEMMA UpdatedRange ==
  ASSUME TypeOK, NEW ip \in Branches, ~Known(ip)
  PROVE  \E evicted \in KnownBranches \cup {NoCall} :
           Range(Updated(ip, TRUE)) \ {Invalid} = (KnownBranches \ {evicted}) \cup {ip}
<1> DEFINE Rest == {m_btb[n] : n \in 2..WAYS}
<1>1. WAYS \in Nat \ {0} /\ DOMAIN m_btb = 1..WAYS /\ 1 \in 1..WAYS /\ ip # Invalid
  BY TargetPredictionAssumption DEF TypeOK
<1>2. Range(m_btb) = Rest \cup {m_btb[1]}
  <2>1. \A n \in 1..WAYS : n = 1 \/ n \in 2..WAYS
    BY <1>1
  <2>2. 2..WAYS \subseteq 1..WAYS
    BY <1>1
  <2> QED
    BY <1>1, <2>1, <2>2 DEF Range
<1>3. Range(Updated(ip, TRUE)) = Rest \cup {ip}
  <2>1. CASE lru_counter = 0
    <3>1. Updated(ip, TRUE) = [m_btb EXCEPT ![1] = ip]
      BY <2>1 DEF Updated
    <3>2. \A n \in 1..WAYS : n = 1 \/ n \in 2..WAYS
      BY <1>1
    <3>3. 2..WAYS \subseteq 1..WAYS /\ 1 \notin 2..WAYS
      BY <1>1
    <3> DEFINE f == [m_btb EXCEPT ![1] = ip]
    <3>4. DOMAIN f = 1..WAYS /\ f[1] = ip /\ \A n \in 2..WAYS : f[n] = m_btb[n]
      BY <1>1, <3>3
    <3>5. \A n \in 1..WAYS : f[n] \in Rest \cup {ip}
      BY <3>2, <3>4
    <3>6. \A r \in Rest \cup {ip} : \E n \in 1..WAYS : f[n] = r
      BY <1>1, <3>3, <3>4
    <3>7. Range(f) = Rest \cup {ip}
      <4> HIDE DEF f, Rest
      <4>1. DOMAIN f = 1..WAYS
        BY <3>4
      <4> QED
        BY <4>1, <3>5, <3>6, RangeMembers, Zenon
    <3> QED
      BY <3>1, <3>7
  <2>2. CASE lru_counter # 0
    <3>1. Updated(ip, TRUE) = Moved(1, ip)
      BY <2>2 DEF Updated
    <3>2. \A n \in 1..WAYS : Moved(1, ip)[n] = IF n < WAYS THEN m_btb[n + 1] ELSE ip
      BY <1>1 DEF Moved
    <3>3. ASSUME NEW n \in 2..WAYS PROVE \E k \in 1..WAYS : Moved(1, ip)[k] = m_btb[n]
      <4>1. n - 1 \in 1..WAYS /\ n - 1 < WAYS /\ (n - 1) + 1 = n
        BY <1>1
      <4> QED
        BY <3>2, <4>1
    <3>4. ASSUME NEW k \in 1..WAYS PROVE Moved(1, ip)[k] \in Rest \cup {ip}
      <4>1. CASE k < WAYS
        <5>1. k + 1 \in 2..WAYS
          BY <1>1, <4>1
        <5> QED
          BY <3>2, <4>1, <5>1
      <4>2. CASE ~(k < WAYS)
        BY <3>2, <4>2
      <4> QED
        BY <4>1, <4>2
    <3>5. WAYS \in 1..WAYS /\ Moved(1, ip)[WAYS] = ip
      BY <1>1, <3>2
    <3>6. DOMAIN Moved(1, ip) = 1..WAYS
      BY DEF Moved
    <3>7. \A r \in Rest \cup {ip} : \E k \in 1..WAYS : Moved(1, ip)[k] = r
      BY <3>3, <3>5
    <3>8. Range(Moved(1, ip)) = Rest \cup {ip}
      <4> HIDE DEF Rest
      <4> QED
        BY <3>4, <3>6, <3>7, RangeMembers
    <3> QED
      BY <3>1, <3>8
  <2> QED
    BY <2>1, <2>2
<1> HIDE DEF Rest
<1>4. CASE m_btb[1] \in Rest
  <2>1. Range(m_btb) = Rest
    BY <1>2, <1>4
  <2>2. Range(Updated(ip, TRUE)) \ {Invalid} = (KnownBranches \ {NoCall}) \cup {ip}
    BY <1>1, <1>3, <2>1 DEF KnownBranches
  <2> QED BY <2>2
<1>5. CASE m_btb[1] \notin Rest
  <2>1. m_btb[1] \in KnownBranches \cup {NoCall}
    BY <1>2 DEF KnownBranches
  <2>2. Range(Updated(ip, TRUE)) \ {Invalid} = (KnownBranches \ {m_btb[1]}) \cup {ip}
    BY <1>1, <1>2, <1>3, <1>5 DEF KnownBranches
  <2> QED
    BY <2>1, <2>2
<1> QED
  BY <1>4, <1>5

\* Following alternate paths is invisible: every behaviour is one in which they are not
\* followed.
THEOREM ImplementsMain == Spec => ImplementsMainPath
<1>1. Init => MainPathSpec!Init
  <2> SUFFICES ASSUME Init PROVE MainPathSpec!Init
    OBVIOUS
  <2>1. Range(m_btb) \ {Invalid} = {}
    BY DEF Init, Range
  <2>2. MainPathRas = EmptyStack(ALT_RAS_SIZE)
    BY DEF Init, MainPathRas
  <2> QED
    BY <2>1, <2>2 DEF Init, MainPathSpec!Init, EmptyStack, MainPathSpec!EmptyStack,
                      MainPathSpec!NoCall
<1>2. TypeOK /\ [Next]_vars => [MainPathSpec!Next]_(MainPathSpec!vars)
  <2> SUFFICES ASSUME TypeOK, [Next]_vars
               PROVE  MainPathSpec!Next \/ UNCHANGED MainPathSpec!vars
    OBVIOUS
  <2>1. CASE \/ Walk
             \/ \E ip \in Branches, taken \in BOOLEAN, prediction \in BOOLEAN :
                  BeginWalk(ip, taken, prediction)
             \/ UNCHANGED vars
    <3>1. Range(m_btb') = Range(m_btb)
      <4>1. ASSUME NEW ip \in Branches, NEW taken \in BOOLEAN, NEW prediction \in BOOLEAN,
                   BeginWalk(ip, taken, prediction)
            PROVE  Range(m_btb') = Range(m_btb)
        BY <4>1, TouchedRange DEF BeginWalk
      <4>2. CASE Walk
        <5>1. m_btb' = Touched(m_ip) /\ m_ip # Invalid
          BY <4>2 DEF Walk, WalkStep, TypeOK
        <5>2. Known(m_ip) => m_ip \in Branches
          BY <5>1, KnownIsBranch
        <5> QED
          BY <5>1, <5>2, TouchedRange DEF Touched
      <4>3. CASE UNCHANGED vars
        BY <4>3 DEF vars
      <4> QED
        BY <2>1, <4>1, <4>2, <4>3
    <3> QED
      BY <2>1, <3>1, WalkKeepsMainPath DEF MainPathSpec!vars
  <2>2. ASSUME NEW ip \in Branches, NEW taken \in BOOLEAN,
               ras' = After(ras, RAS_SIZE, ip, TypeOf[ip]),
               MainPathRas' = After(MainPathRas, ALT_RAS_SIZE, ip, TypeOf[ip]),
               m_btb' = Updated(ip, taken) \/ (Known(ip) /\ m_btb' = Touched(ip))
        PROVE  MainPathSpec!Next
    <3>1. ip # Invalid /\ (ip \in KnownBranches <=> Known(ip))
      BY ConstantTypes DEF KnownBranches, Known
    <3>2. IF ip \in KnownBranches \/ ~taken
          THEN KnownBranches' = KnownBranches
          ELSE \E evicted \in KnownBranches \cup {NoCall} :
                 KnownBranches' = (KnownBranches \ {evicted}) \cup {ip}
      <4>1. CASE Known(ip) \/ ~taken
        <5>1. Range(m_btb') = Range(m_btb)
          BY <2>2, <4>1, TouchedRange DEF Updated
        <5> QED
          BY <3>1, <4>1, <5>1 DEF KnownBranches
      <4>2. CASE ~Known(ip) /\ taken
        <5>1. m_btb' = Updated(ip, TRUE)
          BY <2>2, <4>2
        <5> QED
          BY <3>1, <4>2, <5>1, UpdatedRange DEF KnownBranches
      <4> QED
        BY <4>1, <4>2
    <3>3. MainPathSpec!Execute(ip, taken)
      BY <2>2, <3>2
         DEF MainPathSpec!Execute, KnownBranches, MainPathSpec!NoCall, MainPathSpec!After, After,
             MainPathSpec!Push, Push, MainPathSpec!Pop, Pop
    <3> QED
      BY <3>3 DEF MainPathSpec!Next
  <2> QED
    BY <2>1, <2>2, NextSplits, ExecutesOne
<1> QED
  BY <1>1, <1>2, TypeCorrect, PTL DEF Spec, ImplementsMainPath, MainPathSpec!Spec
=============================================================================
