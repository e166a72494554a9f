----------------------------- MODULE ReturnStack -----------------------------
(***************************************************************************)
(* The return address stacks RAS and H2P_RAS (btb/twolevel_btb_1Ke_32Ke_   *)
(* gshare_ittage/ras.h and h2p_ras.h): circular buffers of the addresses   *)
(* of calls.  A push beyond the size overwrites the oldest call, and a pop *)
(* leaves 0.  An instruction address counts instructions, so a return goes *)
(* to the address after its call; the trackers of call sizes, which learn  *)
(* that distance, are left out.                                            *)
(***************************************************************************)
EXTENDS Integers

NoCall == 0

Stack(size, Calls) ==
  [slots : [0..(size - 1) -> Calls \cup {NoCall}], index : 0..(size - 1)]

EmptyStack(size) == [slots |-> [n \in 0..(size - 1) |-> NoCall], index |-> 0]

Top(stack) == stack.slots[stack.index]

Push(stack, size, ip) ==
  LET top == IF stack.index + 1 = size THEN 0 ELSE stack.index + 1
  IN  [slots |-> [stack.slots EXCEPT ![top] = ip], index |-> top]

\* Fault: the popped call stays in the buffer.
FaultPop(stack, size) ==
  [slots |-> stack.slots, index |-> IF stack.index = 0 THEN size - 1 ELSE stack.index - 1]

Pop(stack, size) ==
  [slots |-> [stack.slots EXCEPT ![stack.index] = NoCall],
   index |-> IF stack.index = 0 THEN size - 1 ELSE stack.index - 1]

\* Where the top of the stack says a return goes; 0 if it does not know.
ReturnTarget(stack) == IF Top(stack) = NoCall THEN 0 ELSE Top(stack) + 1

\* Fault: an indirect call is not pushed.
FaultAfter(stack, size, ip, type) ==
  IF type = "call" THEN Push(stack, size, ip)
  ELSE IF type = "return" THEN Pop(stack, size)
  ELSE stack

\* update
After(stack, size, ip, type) ==
  IF type \in {"call", "indirect_call"} THEN Push(stack, size, ip)
  ELSE IF type = "return" THEN Pop(stack, size)
  ELSE stack
=============================================================================
