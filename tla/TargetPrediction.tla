--------------------------- MODULE TargetPrediction ---------------------------
(***************************************************************************)
(* Where the next instruction is: the branch target buffer and the return  *)
(* stacks (btb/twolevel_btb_1Ke_32Ke_gshare_ittage), and the alternate     *)
(* path O3_CPU::prefetch_alternate_path builds from them when a conditional*)
(* branch is hard to predict.  The walk along that path uses the buffer of *)
(* the main path and a return stack of its own, saved before the walk and  *)
(* restored after it.                                                      *)
(*                                                                         *)
(* One action is a branch fetched on the main path, or one iteration of    *)
(* the walk.  The direction predictors, their confidence and the indirect  *)
(* target predictors are oracles.  One set of the buffer is modelled; the  *)
(* target of a direct branch belongs to the program, so an entry is the    *)
(* address of its branch.  Other instructions change nothing on the main   *)
(* path.  What the walk puts in ips_to_prefetch is consumed in             *)
(* UopPrefetch.                                                            *)
(***************************************************************************)
EXTENDS ReturnStack, Sequences, FiniteSets, Functions

CONSTANTS
  Branches,         \* the addresses of the program's branches
  TypeOf,           \* [Branches -> BranchTypes]
  TargetOf,         \* [Branches -> address], for direct branches
  IndirectTargets,  \* what the indirect predictor can come up with, 0 for nothing
  Confidences,      \* what is_h2p adds for a conditional branch
  RAS_SIZE, ALT_RAS_SIZE,
  WAYS,             \* of the branch target buffer
  H2P_T,            \* the walk ends when its counter reaches this
  MAX_IP_CHECK      \* ... or after as many instructions without a branch

BranchTypes == {"jump", "indirect", "conditional", "call", "indirect_call", "return"}

ASSUME TargetPredictionAssumption ==
  /\ Branches \subseteq Nat \ {0}
  /\ TypeOf \in [Branches -> BranchTypes]
  /\ TargetOf \in [Branches -> Nat \ {0}]
  /\ IndirectTargets \subseteq Nat
  /\ H2P_T \in Nat \ {0}
  /\ Confidences \subseteq Nat \ {0}
  /\ RAS_SIZE \in Nat \ {0}
  /\ ALT_RAS_SIZE \in Nat \ {0}
  /\ WAYS \in Nat \ {0}
  /\ MAX_IP_CHECK \in Nat

VARIABLES
  ras, h2p_ras,     \* the return stacks of the main path and of alternate paths
  save_ras,         \* the copy of h2p_ras that speculative_begin takes
  m_btb,            \* the ways of the buffer, the one to replace next first
  lru_counter,      \* 0 until any set of the buffer is used, then 1
  speculate_state,  \* between speculative_begin and speculative_end?
  walking,          \* in the loop of prefetch_alternate_path?
  fetching,         \* the hard branch that is fetched meanwhile
  m_ip,             \* the next instruction of the walk
  path,             \* the walk so far: what it adds to ips_to_prefetch
  ips_checked,      \* instructions since the last branch
  end_counter

stackVars == <<ras, h2p_ras, save_ras>>
walkVars == <<speculate_state, walking, fetching, m_ip, path, ips_checked, end_counter>>
vars == <<stackVars, m_btb, lru_counter, walkVars>>

Invalid == 0
NoBranch == [ip |-> Invalid, taken |-> FALSE]

Init ==
  /\ ras = EmptyStack(RAS_SIZE)
  /\ h2p_ras = EmptyStack(ALT_RAS_SIZE)
  /\ save_ras = EmptyStack(ALT_RAS_SIZE)
  /\ m_btb = [n \in 1..WAYS |-> Invalid]
  /\ lru_counter \in {0, 1}
  /\ speculate_state = FALSE
  /\ walking = FALSE
  /\ fetching = NoBranch
  /\ m_ip = 0
  /\ path = <<>>
  /\ ips_checked = 0
  /\ end_counter = 0

-----------------------------------------------------------------------------
(* BasicBTB                                                                *)

Known(ip) == ip \in Range(m_btb)

\* The way at position p is refilled with ip and becomes the youngest.
Moved(p, ip) ==
  [n \in 1..WAYS |-> IF n < p THEN m_btb[n] ELSE IF n < WAYS THEN m_btb[n + 1] ELSE ip]

\* find_entry and update_lru, in every prediction
Touched(ip) ==
  IF Known(ip) THEN Moved(CHOOSE p \in 1..WAYS : m_btb[p] = ip, ip) ELSE m_btb

\* update: a branch taken for the first time replaces the oldest entry.  The very
\* first one gets age 0, the age of an empty way, and so is replaced next.
Updated(ip, taken) ==
  IF Known(ip) \/ ~taken THEN m_btb
  ELSE IF lru_counter = 0 THEN [m_btb EXCEPT ![1] = ip]
  ELSE Moved(1, ip)

\* btb_prediction and get_branch_type, for an entry of the buffer; an indirect
\* branch goes where its predictor says.
Target(ip, stack, indirect) ==
  IF TypeOf[ip] = "return" THEN ReturnTarget(stack)
  ELSE IF TypeOf[ip] \in {"indirect", "indirect_call"} THEN indirect
  ELSE TargetOf[ip]

-----------------------------------------------------------------------------
(* initialize_instruction, the part about branches                         *)

\* update_btb outside of a walk, with the lookups that come before it
Train(ip, taken) ==
  /\ ras' = After(ras, RAS_SIZE, ip, TypeOf[ip])
  /\ h2p_ras' = After(h2p_ras, ALT_RAS_SIZE, ip, TypeOf[ip])
  /\ m_btb' = IF Known(ip) THEN Touched(ip) ELSE Updated(ip, taken)
  /\ lru_counter' = IF taken THEN 1 ELSE lru_counter

\* A branch that is not a hard one.
FetchBranch(ip, taken) ==
  /\ ~speculate_state
  /\ taken \/ TypeOf[ip] = "conditional"
  /\ Train(ip, taken)
  /\ UNCHANGED <<save_ras, walkVars>>

\* A hard branch predicted not taken whose target is not in the buffer: the walk
\* ends where it begins, and the path before it stays in ips_to_prefetch.
FetchWithoutTarget(ip, taken) ==
  /\ ~speculate_state
  /\ TypeOf[ip] = "conditional"
  /\ ~Known(ip)
  /\ save_ras' = h2p_ras
  /\ Train(ip, taken)
  /\ UNCHANGED walkVars

\* speculative_begin and the start of prefetch_alternate_path, at the instruction
\* that the prediction says will not come next
BeginWalk(ip, taken, prediction) ==
  /\ ~speculate_state
  /\ TypeOf[ip] = "conditional"
  /\ prediction \/ Known(ip)
  /\ speculate_state' = TRUE
  /\ save_ras' = h2p_ras
  /\ fetching' = [ip |-> ip, taken |-> taken]
  /\ walking' = TRUE
  /\ m_ip' = IF prediction THEN ip + 1 ELSE TargetOf[ip]
  /\ path' = <<>>
  /\ ips_checked' = 0
  /\ end_counter' = 0
  /\ m_btb' = Touched(ip)
  /\ UNCHANGED <<ras, h2p_ras, lru_counter>>

-----------------------------------------------------------------------------
(* prefetch_alternate_path                                                 *)

\* What an instruction adds to end_counter.
Weight(type, confidence) == IF type = "conditional" THEN confidence ELSE 1

\* One iteration: the instruction joins the path, a branch updates the return stack
\* of alternate paths, and the walk goes on at the predicted target or at the next
\* address, unless there is no target or one of the limits is reached.
WalkStep(prediction, confidence, indirect) ==
  LET known  == Known(m_ip)
      type   == IF known THEN TypeOf[m_ip] ELSE "none"
      taken  == known /\ (type = "conditional" => prediction)
      target == IF known THEN Target(m_ip, h2p_ras, indirect) ELSE 0
      lost   == taken /\ target = 0
  IN  /\ walking
      /\ path' = Append(path, [ip |-> m_ip, br_type |-> type])
      /\ m_btb' = Touched(m_ip)
      /\ h2p_ras' = IF known THEN After(h2p_ras, ALT_RAS_SIZE, m_ip, type) ELSE h2p_ras
      /\ ips_checked' = IF known THEN 0 ELSE (ips_checked + 1) % 256
      /\ end_counter' = end_counter + Weight(type, confidence)
      /\ walking' = ~(ips_checked' >= MAX_IP_CHECK \/ lost \/ end_counter' >= H2P_T)
      /\ m_ip' = IF taken THEN target ELSE m_ip + 1
      /\ UNCHANGED <<ras, save_ras, lru_counter, speculate_state, fetching>>

\* Fault: speculative_end leaves the walk's changes in the return stack.
FaultRestored == h2p_ras

Restored == save_ras

\* speculative_end, and update_btb for the branch the walk began at
EndWalk ==
  /\ speculate_state /\ ~walking
  /\ ras' = After(ras, RAS_SIZE, fetching.ip, TypeOf[fetching.ip])
  /\ h2p_ras' = After(Restored, ALT_RAS_SIZE, fetching.ip, TypeOf[fetching.ip])
  /\ m_btb' = Updated(fetching.ip, fetching.taken)
  /\ lru_counter' = IF fetching.taken THEN 1 ELSE lru_counter
  /\ speculate_state' = FALSE
  /\ fetching' = NoBranch
  /\ path' = <<>>
  /\ m_ip' = 0
  /\ ips_checked' = 0
  /\ end_counter' = 0
  /\ UNCHANGED <<save_ras, walking>>

-----------------------------------------------------------------------------
Walk ==
  \E prediction \in BOOLEAN, confidence \in Confidences, indirect \in IndirectTargets :
    WalkStep(prediction, confidence, indirect)

Next ==
  \/ \E ip \in Branches, taken \in BOOLEAN :
       \/ FetchBranch(ip, taken)
       \/ FetchWithoutTarget(ip, taken)
       \/ \E prediction \in BOOLEAN : BeginWalk(ip, taken, prediction)
  \/ Walk
  \/ EndWalk

Spec == Init /\ [][Next]_vars

-----------------------------------------------------------------------------
(* Properties.                                                             *)

TypeOK ==
  /\ ras \in Stack(RAS_SIZE, Branches)
  /\ h2p_ras \in Stack(ALT_RAS_SIZE, Branches)
  /\ save_ras \in Stack(ALT_RAS_SIZE, Branches)
  /\ m_btb \in [1..WAYS -> Branches \cup {Invalid}]
  /\ lru_counter \in {0, 1}
  /\ speculate_state \in BOOLEAN
  /\ walking \in BOOLEAN /\ (walking => speculate_state)
  /\ fetching \in IF speculate_state THEN [ip : Branches, taken : BOOLEAN] ELSE {NoBranch}
  /\ m_ip \in Nat /\ (walking => m_ip # 0)
  /\ path \in Seq([ip : Nat, br_type : BranchTypes \cup {"none"}])
  /\ ips_checked \in 0..255
  /\ end_counter \in Nat

\* The return stack of alternate paths as the main path left it.
MainPathRas == IF speculate_state THEN save_ras ELSE h2p_ras

\* "RAS should be updated all the time" (update_btb): where the two return stacks
\* both have a call on top it is the same one, however often either overflowed, so
\* an alternate path returns to where the main path would or stops.
ReturnStacksAgree ==
  \/ Top(ras) = NoCall
  \/ Top(MainPathRas) = NoCall
  \/ Top(ras) = Top(MainPathRas)

\* The calls made and not returned from between positions i and j of the path.
Depth(i, j) ==
  Cardinality({k \in i..j : path[k].br_type \in {"call", "indirect_call"}})
    - Cardinality({k \in i..j : path[k].br_type = "return"})

\* A return on an alternate path whose call is on it too goes back to the instruction
\* after that call, or ends the path: a stack too small for the path forgets
\* callers, and never mistakes one for another.
PathsReturnToCaller ==
  \A i, j \in DOMAIN path :
    /\ i < j /\ j < Len(path)
    /\ path[i].br_type \in {"call", "indirect_call"}
    /\ Depth(i, j) = 0
    /\ \A k \in i..(j - 1) : Depth(i, k) > 0
    => path[j + 1].ip = path[i].ip + 1

\* Nothing of a walk is left when it ends, but for the age of entries.
MainPathSpec == INSTANCE MainPath WITH h2p_ras <- MainPathRas, known <- Range(m_btb) \ {Invalid}

ImplementsMainPath == MainPathSpec!Spec
=============================================================================
