------------------------------- MODULE Backend -------------------------------
(***************************************************************************)
(* The out-of-order back end of O3_CPU (src/src/ooo_cpu.cc): reorder       *)
(* buffer, register scheduling, load queue, store queue and the read side  *)
(* of the L1D bus.                                                         *)
(*                                                                         *)
(* O3_CPU::operate runs the handlers one after the other in every cycle    *)
(* and each handler loops over the entries that are ready, up to a width.  *)
(* One action here is one iteration of a handler's loop; latencies         *)
(* (event_cycle) and widths only decide how many iterations one cycle      *)
(* performs, so any interleaving of iterations is allowed.  What survives  *)
(* of event_cycle is the bit "ready": FALSE while it is still the maximal  *)
(* value an LSQ entry is created with.                                     *)
(*                                                                         *)
(* The number of an instruction (instr_id) is its position in the program. *)
(***************************************************************************)
EXTENDS Integers, Sequences, FiniteSets

CONSTANTS
  Regs,           \* architectural registers
  Addrs,          \* word addresses of memory operands
  BlockOf,        \* [Addrs -> block], virtual_address >> LOG2_BLOCK_SIZE
  Instrs,         \* the shapes an instruction of the trace can have
  ROB_SIZE, LQ_SIZE, SQ_SIZE, SCHEDULER_SIZE,
  MaxInstr        \* bound: the length of the trace

Shape == [src : SUBSET Regs, dst : SUBSET Regs, loads : Seq(Addrs), stores : Seq(Addrs)]

ASSUME SizesAssumption ==
  /\ ROB_SIZE \in Nat \ {0}
  /\ LQ_SIZE \in Nat
  /\ SQ_SIZE \in Nat
  /\ SCHEDULER_SIZE \in Nat \ {0}
  /\ MaxInstr \in Nat

\* A trace instruction fits the queues: at most NUM_INSTR_SOURCES loads and
\* NUM_INSTR_DESTINATIONS stores, which the configured queues can hold.
ASSUME ShapeAssumption ==
  /\ Instrs \subseteq Shape
  /\ \A ins \in Instrs : Len(ins.loads) <= LQ_SIZE /\ Len(ins.stores) <= SQ_SIZE

ASSUME BlockAssumption == DOMAIN BlockOf = Addrs

VARIABLES
  prog,           \* the instructions dispatched so far
  rob,            \* ROB: the live instructions, oldest first
  reg_producers,  \* per register, the scheduled instructions that will write it
  LQ,             \* per slot, a load or Empty
  SQ,             \* the stores, oldest first
  l1d_reads,      \* per block, read requests the L1D holds for this core
  processed,      \* L1D_bus.PROCESSED: the blocks of the packets returned
  memory,         \* history: per address, the store whose write the L1D took last
  observed        \* history: <<load, address, the store it reads from>>

vars == <<prog, rob, reg_producers, LQ, SQ, l1d_reads, processed, memory, observed>>

Slots  == 1..LQ_SIZE
Blocks == {BlockOf[a] : a \in Addrs}
Ids    == 1..MaxInstr
NoStore == 0      \* producer_id of a load that waits on no store

LQEntry == [id : Ids, addr : Addrs, ready : BOOLEAN, fetch_issued : BOOLEAN,
            producer_id : Ids \cup {NoStore}]
Empty == [id |-> 0]
SQEntry == [id : Ids, addr : Addrs, ready : BOOLEAN, fetch_issued : BOOLEAN,
            lq_depend_on_me : SUBSET Slots]
ROBEntry == [scheduled : BOOLEAN, executed : {"no", "INFLIGHT", "COMPLETED"},
             completed_mem_ops : Nat, num_reg_dependent : Int,
             registers_instrs_depend_on_me : SUBSET Ids]

ROB == DOMAIN rob
NumMemOps(ins) == Len(ins.loads) + Len(ins.stores)
IsFront(i) == i \in ROB /\ \A j \in ROB : i <= j

-----------------------------------------------------------------------------
Init ==
  /\ prog = <<>>
  /\ rob = [i \in {} |-> 0]
  /\ reg_producers = [r \in Regs |-> {}]
  /\ LQ = [s \in Slots |-> Empty]
  /\ SQ = <<>>
  /\ l1d_reads = [b \in Blocks |-> 0]
  /\ processed = <<>>
  /\ memory = [a \in Addrs |-> NoStore]
  /\ observed = {}

-----------------------------------------------------------------------------
(* Dispatch: promote_to_dispatch_from_decoders and do_memory_scheduling.   *)

\* Fault: a load forwards from the oldest matching store.
FaultForwardsFromOldest(a, j) ==
  LET matches == {k \in DOMAIN SQ : SQ[k].addr = a}
  IN  \/ j = 0 /\ matches = {}
      \/ j \in matches /\ \A k \in matches : j <= k

\* The store queue position j is the one std::max_element finds for a load of
\* address a: the youngest store to that address, 0 when there is none.
ForwardsFrom(a, j) ==
  LET matches == {k \in DOMAIN SQ : SQ[k].addr = a}
  IN  \/ j = 0 /\ matches = {}
      \/ /\ j \in matches
         /\ \A k \in matches : SQ[k].id < SQ[j].id \/ (SQ[k].id = SQ[j].id /\ j <= k)

StoreEntry(i, a) ==
  [id |-> i, addr |-> a, ready |-> FALSE, fetch_issued |-> FALSE, lq_depend_on_me |-> {}]

LoadEntry(i, a, producer) ==
  [id |-> i, addr |-> a, ready |-> FALSE, fetch_issued |-> FALSE, producer_id |-> producer]

FreeSlots == {s \in Slots : LQ[s] = Empty}

\* The new instruction i goes to the back of the ROB.  Load number k finds store
\* from[k]; when that store has finished the load is done at once, otherwise it
\* takes the LQ slot slot[k], and waits on the store if there is one.
Dispatch(ins) ==
  LET i == Len(prog) + 1
      loads == DOMAIN ins.loads
  IN
  /\ i <= MaxInstr
  /\ Cardinality(ROB) < ROB_SIZE
  /\ Len(ins.loads) <= Cardinality(FreeSlots)
  /\ Len(ins.stores) + Len(SQ) <= SQ_SIZE
  /\ \E from \in [loads -> 0..Len(SQ)] :
       /\ \A k \in loads : ForwardsFrom(ins.loads[k], from[k])
       /\ LET done == {k \in loads : from[k] # 0 /\ SQ[from[k]].fetch_issued}
              queued == loads \ done
              Producer(k) == IF from[k] = 0 THEN NoStore ELSE SQ[from[k]].id
          IN
          /\ \E slot \in [queued -> FreeSlots] :
               /\ \A k, l \in queued : slot[k] = slot[l] => k = l
               /\ LQ' = [s \in Slots |->
                           IF \E k \in queued : slot[k] = s
                           THEN LET k == CHOOSE k \in queued : slot[k] = s
                                IN  LoadEntry(i, ins.loads[k], Producer(k))
                           ELSE LQ[s]]
               /\ SQ' = [j \in DOMAIN SQ |->
                           [SQ[j] EXCEPT !.lq_depend_on_me =
                              @ \cup {slot[k] : k \in {l \in queued : from[l] = j}}]]
                        \o [m \in DOMAIN ins.stores |-> StoreEntry(i, ins.stores[m])]
          /\ rob' = [j \in ROB \cup {i} |->
                       IF j = i THEN [scheduled |-> FALSE, executed |-> "no",
                                      completed_mem_ops |-> Cardinality(done),
                                      num_reg_dependent |-> 0,
                                      registers_instrs_depend_on_me |-> {}]
                       ELSE rob[j]]
          /\ observed' = observed \cup
                           {<<i, ins.loads[k], SQ[from[k]].id>> : k \in done}
  /\ prog' = Append(prog, ins)
  /\ UNCHANGED <<reg_producers, l1d_reads, processed, memory>>

-----------------------------------------------------------------------------
(* Register scheduling, execution, completion and retirement.              *)

\* Fault: a source register is bound to its oldest unfinished writer.
FaultFirstProducers(ins) ==
  {p \in UNION {reg_producers[r] : r \in ins.src} :
     \E r \in ins.src : p \in reg_producers[r] /\ \A q \in reg_producers[r] : p <= q}

\* The producers a source register is bound to: reg_producers[r].back().
LastProducers(ins) ==
  {p \in UNION {reg_producers[r] : r \in ins.src} :
     \E r \in ins.src : p \in reg_producers[r] /\ \A q \in reg_producers[r] : q <= p}

\* schedule_instruction walks the ROB from its front and gives up after
\* SCHEDULER_SIZE entries that have not begun to execute.
InSchedulerWindow(i) ==
  Cardinality({j \in ROB : j < i /\ rob[j].executed = "no"}) < SCHEDULER_SIZE

\* do_scheduling
Schedule(i) ==
  /\ i \in ROB
  /\ ~rob[i].scheduled
  /\ \A j \in ROB : j < i => rob[j].scheduled
  /\ InSchedulerWindow(i)
  /\ LET priors == LastProducers(prog[i])
     IN  rob' = [j \in ROB |->
                   IF j = i THEN [rob[i] EXCEPT !.scheduled = TRUE,
                                                !.num_reg_dependent = @ + Cardinality(priors)]
                   ELSE IF j \in priors
                        THEN [rob[j] EXCEPT !.registers_instrs_depend_on_me = @ \cup {i}]
                   ELSE rob[j]]
  /\ reg_producers' = [r \in Regs |-> IF r \in prog[i].dst THEN reg_producers[r] \cup {i}
                                      ELSE reg_producers[r]]
  /\ UNCHANGED <<prog, LQ, SQ, l1d_reads, processed, memory, observed>>

\* execute_instruction, do_execution: the LSQ entries of i become ready.
Execute(i) ==
  /\ i \in ROB
  /\ rob[i].scheduled
  /\ rob[i].executed = "no"
  /\ rob[i].num_reg_dependent = 0
  /\ rob' = [rob EXCEPT ![i].executed = "INFLIGHT"]
  /\ LQ' = [s \in Slots |-> IF LQ[s].id = i THEN [LQ[s] EXCEPT !.ready = TRUE] ELSE LQ[s]]
  /\ SQ' = [j \in DOMAIN SQ |-> IF SQ[j].id = i THEN [SQ[j] EXCEPT !.ready = TRUE] ELSE SQ[j]]
  /\ UNCHANGED <<prog, reg_producers, l1d_reads, processed, memory, observed>>

\* Fault: an instruction completes without waiting for its loads and stores.
FaultMemOpsDone(i) == TRUE

MemOpsDone(i) == rob[i].completed_mem_ops = NumMemOps(prog[i])

\* Fault: a finished instruction stays the producer of its registers.
FaultProducersWithout(i) == reg_producers

ProducersWithout(i) ==
  [r \in Regs |-> IF r \in prog[i].dst THEN reg_producers[r] \ {i} ELSE reg_producers[r]]

\* complete_inflight_instruction, do_complete_execution
CompleteExecution(i) ==
  /\ i \in ROB
  /\ rob[i].executed = "INFLIGHT"
  /\ MemOpsDone(i)
  /\ reg_producers' = ProducersWithout(i)
  /\ rob' = [j \in ROB |->
               IF j = i THEN [rob[i] EXCEPT !.executed = "COMPLETED"]
               ELSE IF j \in rob[i].registers_instrs_depend_on_me
                    THEN [rob[j] EXCEPT !.num_reg_dependent = @ - 1]
               ELSE rob[j]]
  /\ UNCHANGED <<prog, LQ, SQ, l1d_reads, processed, memory, observed>>

\* retire_rob takes completed instructions off the front.
Retire(i) ==
  /\ IsFront(i)
  /\ rob[i].executed = "COMPLETED"
  /\ rob' = [j \in ROB \ {i} |-> rob[j]]
  /\ UNCHANGED <<prog, reg_producers, LQ, SQ, l1d_reads, processed, memory, observed>>

-----------------------------------------------------------------------------
(* operate_lsq and the L1D bus.                                            *)

\* Fault: two loads of one instruction finishing together count once.
FaultLoadsOf(slots, i) == {s \in slots : LQ[s].id = i /\ \A t \in slots : LQ[t].id = i => s <= t}

LoadsOf(slots, i) == {s \in slots : LQ[s].id = i}

\* ROB with one more completed memory operation for every entry of the given LQ
\* slots (LSQ_ENTRY::finish), and one for instruction i if it is not NoStore.
FinishOps(slots, i) ==
  [j \in ROB |->
     [rob[j] EXCEPT !.completed_mem_ops =
        @ + Cardinality(LoadsOf(slots, j)) + (IF i = j THEN 1 ELSE 0)]]

\* The first store that has not finished does so (do_finish_store): its own
\* instruction and every load waiting on it make progress.
FinishStore(j) ==
  /\ j \in DOMAIN SQ
  /\ ~SQ[j].fetch_issued
  /\ \A k \in DOMAIN SQ : k < j => SQ[k].fetch_issued
  /\ SQ[j].ready
  /\ LET released == SQ[j].lq_depend_on_me
     IN  /\ rob' = FinishOps(released, SQ[j].id)
         /\ observed' = observed \cup {<<LQ[s].id, LQ[s].addr, SQ[j].id>> : s \in released}
         /\ LQ' = [s \in Slots |-> IF s \in released THEN Empty ELSE LQ[s]]
  /\ SQ' = [SQ EXCEPT ![j].fetch_issued = TRUE]
  /\ UNCHANGED <<prog, reg_producers, l1d_reads, processed, memory>>

\* Fault: a store does not wait for its instruction to retire.
FaultHasRetired(id) == TRUE

\* Fault: with an empty ROB no store counts as older than its front.
FaultNeedsFront(id) == ROB # {} /\ \A i \in ROB : id < i

\* instr_id < complete_id
HasRetired(id) == \A i \in ROB : id < i

\* The L1D takes the write of the oldest store once its instruction has left the
\* ROB (do_complete_store); a refused write leaves the state as it is.
CompleteStore ==
  /\ SQ # <<>>
  /\ HasRetired(Head(SQ).id)
  /\ Head(SQ).ready
  /\ SQ' = Tail(SQ)
  /\ memory' = [memory EXCEPT ![Head(SQ).addr] = Head(SQ).id]
  /\ UNCHANGED <<prog, rob, reg_producers, LQ, l1d_reads, processed, observed>>

\* The L1D takes the read of a load that waits on no store (execute_load).  It
\* merges the request with one for the same block that it still holds, or not.
ExecuteLoad(s) ==
  /\ LQ[s] # Empty
  /\ LQ[s].producer_id = NoStore
  /\ ~LQ[s].fetch_issued
  /\ LQ[s].ready
  /\ LQ' = [LQ EXCEPT ![s].fetch_issued = TRUE]
  /\ observed' = observed \cup {<<LQ[s].id, LQ[s].addr, memory[LQ[s].addr]>>}
  /\ LET b == BlockOf[LQ[s].addr]
     IN  \/ l1d_reads' = [l1d_reads EXCEPT ![b] = @ + 1]
         \/ l1d_reads[b] > 0 /\ UNCHANGED l1d_reads
  /\ UNCHANGED <<prog, rob, reg_producers, SQ, processed, memory>>

\* CacheBus::return_data, called by the L1D
ReturnData(b) ==
  /\ l1d_reads[b] > 0
  /\ l1d_reads' = [l1d_reads EXCEPT ![b] = @ - 1]
  /\ processed' = Append(processed, b)
  /\ UNCHANGED <<prog, rob, reg_producers, LQ, SQ, memory, observed>>

\* Fault: a packet also finishes loads that were never sent to the L1D.
FaultServedBy(b) == {s \in Slots : LQ[s] # Empty /\ BlockOf[LQ[s].addr] = b}

ServedBy(b) ==
  {s \in Slots : LQ[s] # Empty /\ LQ[s].fetch_issued /\ BlockOf[LQ[s].addr] = b}

\* handle_memory_return: the oldest returned packet finishes every issued load
\* of its block.
HandleMemoryReturn ==
  /\ processed # <<>>
  /\ LET served == ServedBy(Head(processed))
     IN  /\ rob' = FinishOps(served, NoStore)
         /\ LQ' = [s \in Slots |-> IF s \in served THEN Empty ELSE LQ[s]]
  /\ processed' = Tail(processed)
  /\ UNCHANGED <<prog, reg_producers, SQ, l1d_reads, memory, observed>>

-----------------------------------------------------------------------------
Lsq == \/ \E j \in DOMAIN SQ : FinishStore(j)
       \/ CompleteStore
       \/ \E s \in Slots : ExecuteLoad(s)

L1d == \/ \E b \in Blocks : ReturnData(b)
       \/ HandleMemoryReturn

Next ==
  \/ \E ins \in Instrs : Dispatch(ins)
  \/ \E i \in ROB : \/ Schedule(i)
                    \/ Execute(i)
                    \/ CompleteExecution(i)
                    \/ Retire(i)
  \/ Lsq
  \/ L1d

Spec == Init /\ [][Next]_vars

\* Every handler runs in every cycle, so an entry it could serve is served; the
\* L1D answers what it took, and takes requests again once it has room.
FairSpec ==
  /\ Spec
  /\ WF_vars(\E i \in ROB : Schedule(i))
  /\ WF_vars(\E i \in ROB : Execute(i))
  /\ WF_vars(\E i \in ROB : CompleteExecution(i))
  /\ WF_vars(\E i \in ROB : Retire(i))
  /\ WF_vars(\E j \in DOMAIN SQ : FinishStore(j))
  /\ WF_vars(CompleteStore)
  /\ WF_vars(\E s \in Slots : ExecuteLoad(s))
  /\ WF_vars(L1d)

-----------------------------------------------------------------------------
(* Properties.                                                             *)

TypeOK ==
  /\ prog \in Seq(Instrs) /\ Len(prog) <= MaxInstr
  /\ ROB \subseteq 1..Len(prog)
  /\ rob \in [ROB -> ROBEntry]
  /\ reg_producers \in [Regs -> SUBSET Ids]
  /\ LQ \in [Slots -> LQEntry \cup {Empty}]
  /\ SQ \in Seq(SQEntry)
  /\ l1d_reads \in [Blocks -> Nat]
  /\ processed \in Seq(Blocks)
  /\ memory \in [Addrs -> Ids \cup {NoStore}]
  /\ observed \subseteq Ids \X Addrs \X (Ids \cup {NoStore})

Stores(i, a) == \E m \in DOMAIN prog[i].stores : prog[i].stores[m] = a

\* s is the last instruction before i, in program order, that stores to a.
LatestStore(i, a, s) ==
  /\ \/ s = NoStore
     \/ s \in 1..(i - 1) /\ Stores(s, a)
  /\ \A t \in (s + 1)..(i - 1) : ~Stores(t, a)

\* Memory dataflow.  Whatever way a load is served (at dispatch from a finished
\* store, when the store it waits on finishes, or by the L1D), it reads from the
\* program-order latest store to its address: do_memory_scheduling never misses
\* a store still queued, and never sends a load to the L1D ahead of an older store.
LoadsObserveLatestStore ==
  \A o \in observed : LatestStore(o[1], o[2], o[3])

\* Accounting.  The memory operations of a live instruction are each counted
\* once: completed, waiting in the LQ, or an unfinished store.  It is what makes
\* complete_inflight_instruction wait for exactly its own operations and what
\* the asserts of LSQ_ENTRY::finish rely on.
MemOpsConserved ==
  \A i \in ROB :
    NumMemOps(prog[i]) =
      rob[i].completed_mem_ops
      + Cardinality({s \in Slots : LQ[s].id = i})
      + Cardinality({j \in DOMAIN SQ : SQ[j].id = i /\ ~SQ[j].fetch_issued})

\* The asserts of do_finish_store: a slot an unfinished store refers to still
\* holds the load that waits on that store; and a waiting load is referred to.
ForwardLinksExact ==
  /\ \A j \in DOMAIN SQ : ~SQ[j].fetch_issued =>
       \A s \in SQ[j].lq_depend_on_me :
         LQ[s] # Empty /\ LQ[s].producer_id = SQ[j].id /\ LQ[s].addr = SQ[j].addr
  /\ \A s \in Slots : LQ[s] # Empty /\ LQ[s].producer_id # NoStore =>
       \E j \in DOMAIN SQ : ~SQ[j].fetch_issued /\ SQ[j].id = LQ[s].producer_id
                            /\ s \in SQ[j].lq_depend_on_me

\* p is the last instruction before i that writes register r.
LatestWriter(i, r, p) ==
  /\ p \in 1..(i - 1) /\ r \in prog[p].dst
  /\ \A q \in (p + 1)..(i - 1) : r \notin prog[q].dst

\* Register dataflow.  An instruction begins to execute only after the latest
\* earlier writer of each of its source registers has completed, although
\* reg_producers forgets writers as they complete, in any order.
NoExecuteBeforeOperands ==
  \A i \in ROB : rob[i].executed # "no" =>
    \A r \in prog[i].src : \A p \in ROB :
      LatestWriter(i, r, p) => rob[p].executed = "COMPLETED"

\* The references the scheduler keeps are to live instructions that still wait:
\* producers in reg_producers are scheduled and unfinished, dependents are
\* scheduled and unexecuted, and num_reg_dependent counts them (its assert).
SchedulerLinksLive ==
  /\ \A r \in Regs : \A p \in reg_producers[r] :
       p \in ROB /\ rob[p].scheduled /\ rob[p].executed # "COMPLETED"
  /\ \A i \in ROB : rob[i].executed # "COMPLETED" =>
       /\ \A d \in rob[i].registers_instrs_depend_on_me :
            d \in ROB /\ i < d /\ rob[d].executed = "no"
       /\ rob[i].num_reg_dependent =
            Cardinality({p \in ROB : /\ rob[p].executed # "COMPLETED"
                                     /\ i \in rob[p].registers_instrs_depend_on_me})

\* A store reaches the L1D only when it is done with forwarding and its
\* instruction has retired, and stores reach it in program order.
\* do_complete_store checks neither fetch_issued nor the order.
StoresDrainInOrder ==
  [][SQ # <<>> /\ memory' # memory =>
       /\ Head(SQ).fetch_issued
       /\ \A a \in Addrs : memory[a] <= Head(SQ).id]_vars

\* Every dispatched instruction retires, and then its stores leave the queue.
AllDrain == \A i \in Ids : (Len(prog) >= i) ~> (/\ \A j \in ROB : i < j
                                               /\ \A k \in DOMAIN SQ : i < SQ[k].id)

\* The back end implements the abstract machine: what has retired is everything
\* before the front of the ROB, what is pending is the store queue.
InProgramOrder ==
  INSTANCE ProgramOrder WITH
    retired <- Len(prog) - Cardinality(ROB),
    pending <- [j \in DOMAIN SQ |-> <<SQ[j].id, SQ[j].addr>>]

ImplementsProgramOrder == InProgramOrder!Spec
=============================================================================
