----------------------------- MODULE ProgramOrder -----------------------------
(***************************************************************************)
(* What an out-of-order back end promises about memory, with no queues, no *)
(* scheduling and no cache: instructions enter and retire in program       *)
(* order; a load may be performed at any moment in between but reads from  *)
(* the program-order latest store to its address; retired stores reach     *)
(* memory one at a time, in program order.                                 *)
(***************************************************************************)
EXTENDS Integers, Sequences

CONSTANTS Addrs, Instrs

VARIABLES
  prog,       \* the instructions issued so far
  retired,    \* how many of them have retired
  pending,    \* the stores issued and not yet in memory, <<instruction, address>>
  memory,     \* per address, the instruction whose store it holds, 0 if none
  observed    \* the loads performed: <<instruction, address, store it reads from>>

vars == <<prog, retired, pending, memory, observed>>

Init ==
  /\ prog = <<>>
  /\ retired = 0
  /\ pending = <<>>
  /\ memory = [a \in Addrs |-> 0]
  /\ observed = {}

Accesses(ops, a) == \E k \in DOMAIN ops : ops[k] = a

\* In program p, s is the last instruction before i that stores to a, 0 if none.
ReadsFrom(p, i, a, s) ==
  /\ s = 0 \/ (s \in 1..(i - 1) /\ Accesses(p[s].stores, a))
  /\ \A t \in (s + 1)..(i - 1) : ~Accesses(p[t].stores, a)

\* Any loads of instructions that have not retired are performed.
PerformLoads ==
  /\ observed \subseteq observed'
  /\ \A o \in observed' \ observed :
       /\ o[1] \in (retired + 1)..Len(prog')
       /\ Accesses(prog'[o[1]].loads, o[2])
       /\ ReadsFrom(prog', o[1], o[2], o[3])

\* The next instruction enters; its stores queue up behind the earlier ones.
Issue ==
  /\ \E ins \in Instrs :
       /\ prog' = Append(prog, ins)
       /\ pending' = pending \o [k \in DOMAIN ins.stores |->
                                   <<Len(prog) + 1, ins.stores[k]>>]
  /\ PerformLoads
  /\ UNCHANGED <<retired, memory>>

Perform ==
  /\ PerformLoads
  /\ UNCHANGED <<prog, retired, pending, memory>>

\* The oldest instruction leaves, all its loads performed.
RetireNext ==
  /\ retired < Len(prog)
  /\ \A k \in DOMAIN prog[retired + 1].loads : \E s \in 0..retired :
       <<retired + 1, prog[retired + 1].loads[k], s>> \in observed
  /\ retired' = retired + 1
  /\ UNCHANGED <<prog, pending, memory, observed>>

\* The oldest store reaches memory, its instruction retired.
Drain ==
  /\ pending # <<>>
  /\ Head(pending)[1] <= retired
  /\ memory' = [memory EXCEPT ![Head(pending)[2]] = Head(pending)[1]]
  /\ pending' = Tail(pending)
  /\ UNCHANGED <<prog, retired, observed>>

Next == Issue \/ Perform \/ RetireNext \/ Drain

Spec == Init /\ [][Next]_vars
=============================================================================
