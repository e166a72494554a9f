---------------------------- MODULE BackendProofs ----------------------------
(***************************************************************************)
(* Theorems about Backend, for every set of instructions, every size of    *)
(* the queues and any length of the trace: what register scheduling        *)
(* relies on; the accounting of memory operations, the links between       *)
(* stores and the loads that wait for them, the order of stores and what   *)
(* loads read; the program order it implements; its types.                 *)
(***************************************************************************)
EXTENDS Backend, SequenceTheorems, FiniteSetTheorems, TLAPS

LEMMA SeqFacts ==
  ASSUME NEW S, NEW seq \in Seq(S)
  PROVE  /\ Len(seq) \in Nat
         /\ DOMAIN seq = 1..Len(seq)
         /\ \A n \in DOMAIN seq : seq[n] \in S
BY LenProperties, ElementOfSeq

-----------------------------------------------------------------------------
(* Register scheduling.                                                    *)

Unfinished(i) == rob[i].executed # "COMPLETED"

\* What register scheduling relies on of the ROB.
ROBRecord == [scheduled : BOOLEAN, executed : {"no", "INFLIGHT", "COMPLETED"},
              completed_mem_ops : Int, num_reg_dependent : Int,
              registers_instrs_depend_on_me : SUBSET Ids]

Program ==
  /\ prog \in Seq(Instrs) /\ Len(prog) <= MaxInstr
  /\ ROB \subseteq 1..Len(prog)
  /\ rob \in [ROB -> ROBRecord]
  /\ \E f \in 0..Len(prog) : ROB = (f + 1)..Len(prog)

\* Instructions are scheduled in order and executed after that.
ScheduledInOrder ==
  /\ \A i, j \in ROB : j < i /\ rob[i].scheduled => rob[j].scheduled
  /\ \A i \in ROB : rob[i].executed # "no" => rob[i].scheduled

\* reg_producers holds exactly the unfinished writers that have been scheduled.
ProducersExact ==
  /\ reg_producers \in [Regs -> SUBSET Ids]
  /\ \A r \in Regs : \A p :
       p \in reg_producers[r] <=>
         p \in ROB /\ rob[p].scheduled /\ Unfinished(p) /\ r \in prog[p].dst

Holders(i) == {p \in ROB : Unfinished(p) /\ i \in rob[p].registers_instrs_depend_on_me}

\* The instructions that wait for a producer, and how many it is that they wait for.
DependentsWait ==
  \A i \in ROB : Unfinished(i) =>
    \A d \in rob[i].registers_instrs_depend_on_me :
      d \in ROB /\ i < d /\ rob[d].scheduled /\ rob[d].executed = "no"

DependentsCounted ==
  \A i \in ROB : Unfinished(i) => rob[i].num_reg_dependent = Cardinality(Holders(i))

\* A scheduled instruction waits for the latest writers of its sources.
BoundToLatest ==
  \A i \in ROB : rob[i].scheduled =>
    \A r \in prog[i].src : \A p \in ROB :
      LatestWriter(i, r, p) /\ Unfinished(p) => i \in rob[p].registers_instrs_depend_on_me

SchedInv ==
  /\ Program
  /\ ScheduledInOrder
  /\ ProducersExact
  /\ DependentsWait
  /\ DependentsCounted
  /\ BoundToLatest

LEMMA ProgramFacts ==
  ASSUME Program
  PROVE  /\ Len(prog) \in Nat /\ DOMAIN prog = 1..Len(prog)
         /\ \A i \in ROB : i \in Nat /\ i >= 1 /\ i <= Len(prog) /\ i \in Ids
         /\ \A i \in ROB : prog[i] \in Instrs
         /\ IsFiniteSet(ROB)
<1>1. Len(prog) \in Nat /\ DOMAIN prog = 1..Len(prog) /\ \A n \in DOMAIN prog : prog[n] \in Instrs
  BY SeqFacts DEF Program
<1>2. IsFiniteSet(1..Len(prog))
  BY <1>1, FS_Interval
<1>3. IsFiniteSet(ROB)
  BY <1>2, FS_Subset DEF Program
<1>4. MaxInstr \in Nat
  BY SizesAssumption
<1>5. Len(prog) <= MaxInstr
  BY DEF Program
<1>6. ROB \subseteq 1..Len(prog)
  BY DEF Program
<1>7. \A i \in ROB : i \in Nat /\ i >= 1 /\ i <= Len(prog) /\ i \in Ids
  <2> DEFINE L == Len(prog)
  <2>1. ROB \subseteq 1..L /\ L \in Nat /\ L <= MaxInstr
    BY <1>1, <1>5, <1>6
  <2> HIDE DEF L
  <2>2. \A i \in ROB : i \in Nat /\ i >= 1 /\ i <= L /\ i \in Ids
    BY <2>1, <1>4 DEF Ids
  <2> QED BY <2>2 DEF L
<1> QED BY <1>1, <1>3, <1>6, <1>7

LEMMA HoldersFinite ==
  ASSUME Program, NEW i
  PROVE  IsFiniteSet(Holders(i)) /\ Cardinality(Holders(i)) \in Nat
<1>1. Holders(i) \in SUBSET ROB
  BY DEF Holders
<1> QED BY <1>1, ProgramFacts, FS_Subset, FS_CardinalityType

\* Retired, started or unscheduled instructions are held by nobody.
LEMMA HeldWait ==
  ASSUME SchedInv, NEW i, Holders(i) # {}
  PROVE  i \in ROB /\ rob[i].scheduled /\ rob[i].executed = "no"
BY DEF SchedInv, DependentsWait, Holders

\* Steps that only count memory operations.
LEMMA CountingKeepsSchedule ==
  ASSUME SchedInv, UNCHANGED <<prog, reg_producers>>, NEW count \in [ROB -> Int],
         rob' = [j \in ROB |-> [rob[j] EXCEPT !.completed_mem_ops = count[j]]]
  PROVE  SchedInv'
<1>1. /\ ROB' = ROB
      /\ \A j \in ROB : rob'[j] = [rob[j] EXCEPT !.completed_mem_ops = count[j]]
  BY DEF ROB
<1>2. \A j \in ROB : rob[j] \in ROBRecord
  BY DEF SchedInv, Program
<1>3. \A j \in ROB :
        /\ rob'[j].scheduled = rob[j].scheduled
        /\ rob'[j].executed = rob[j].executed
        /\ rob'[j].num_reg_dependent = rob[j].num_reg_dependent
        /\ rob'[j].registers_instrs_depend_on_me = rob[j].registers_instrs_depend_on_me
        /\ rob'[j] \in ROBRecord
  BY <1>1, <1>2 DEF ROBRecord
<1>4. \A j \in ROB : Unfinished(j)' <=> Unfinished(j)
  BY <1>1, <1>3 DEF Unfinished
<1>5. \A i : Holders(i)' = Holders(i)
  BY <1>1, <1>3, <1>4 DEF Holders
<1>6. \A i, r, p : LatestWriter(i, r, p)' <=> LatestWriter(i, r, p)
  BY DEF LatestWriter
<1>7. Program'
  BY <1>1, <1>3 DEF SchedInv, Program
<1>8. ScheduledInOrder'
  <2>1. ScheduledInOrder
    BY DEF SchedInv
  <2>2. \A i, j \in ROB' : j < i /\ rob'[i].scheduled => rob'[j].scheduled
    BY <1>1, <1>3, <2>1 DEF ScheduledInOrder
  <2>3. \A i \in ROB' : rob'[i].executed # "no" => rob'[i].scheduled
    BY <1>1, <1>3, <2>1 DEF ScheduledInOrder
  <2> QED BY <2>2, <2>3 DEF ScheduledInOrder
<1>9. ProducersExact'
  BY <1>1, <1>3, <1>4 DEF SchedInv, ProducersExact
<1>10. DependentsWait'
  BY <1>1, <1>3, <1>4 DEF SchedInv, DependentsWait
<1>11. DependentsCounted'
  BY <1>1, <1>3, <1>4, <1>5 DEF SchedInv, DependentsCounted
<1>12. BoundToLatest'
  BY <1>1, <1>3, <1>4, <1>6 DEF SchedInv, BoundToLatest
<1> QED BY <1>7, <1>8, <1>9, <1>10, <1>11, <1>12 DEF SchedInv

\* What stands before the end of the program does not depend on what is appended.
LEMMA DispatchProgram ==
  ASSUME Program, NEW ins \in Instrs, prog' = Append(prog, ins)
  PROVE  /\ prog' \in Seq(Instrs)
         /\ Len(prog') = Len(prog) + 1
         /\ \A k \in 1..Len(prog) : prog'[k] = prog[k]
         /\ prog'[Len(prog) + 1] = ins
         /\ \A i \in 1..Len(prog) : \A r, p : LatestWriter(i, r, p)' <=> LatestWriter(i, r, p)
         /\ \A i \in 1..Len(prog) : \A a : Stores(i, a)' <=> Stores(i, a)
<1>1. prog \in Seq(Instrs) /\ Len(prog) \in Nat
  BY ProgramFacts DEF Program
<1>2. /\ prog' \in Seq(Instrs)
      /\ Len(prog') = Len(prog) + 1
      /\ \A k \in 1..Len(prog) : prog'[k] = prog[k]
      /\ prog'[Len(prog) + 1] = ins
  BY <1>1, AppendProperties
<1>3. ASSUME NEW i \in 1..Len(prog), NEW r, NEW p
      PROVE  LatestWriter(i, r, p)' <=> LatestWriter(i, r, p)
  <2>1. p \in 1..(i - 1) => prog'[p] = prog[p]
    BY <1>1, <1>2
  <2>2. p \in 1..(i - 1) => \A q \in (p + 1)..(i - 1) : prog'[q] = prog[q]
    BY <1>1, <1>2
  <2> QED BY <2>1, <2>2 DEF LatestWriter
<1>4. \A i \in 1..Len(prog) : \A a : Stores(i, a)' <=> Stores(i, a)
  BY <1>2 DEF Stores
<1> QED BY <1>2, <1>3, <1>4

\* Some loads of the new instruction are done at once, and no others.
LEMMA DispatchKeepsSchedule ==
  ASSUME SchedInv, NEW ins \in Instrs, NEW done \in Int,
         Len(prog) + 1 <= MaxInstr,
         prog' = Append(prog, ins),
         rob' = [j \in ROB \cup {Len(prog) + 1} |->
                   IF j = Len(prog) + 1
                   THEN [scheduled |-> FALSE, executed |-> "no", completed_mem_ops |-> done,
                         num_reg_dependent |-> 0, registers_instrs_depend_on_me |-> {}]
                   ELSE rob[j]],
         UNCHANGED reg_producers
  PROVE  SchedInv'
<1> DEFINE new == Len(prog) + 1
<1>1. /\ Len(prog) \in Nat /\ DOMAIN prog = 1..Len(prog)
      /\ \A j \in ROB : j \in Nat /\ j >= 1 /\ j <= Len(prog)
      /\ Program
  BY ProgramFacts DEF SchedInv
<1>2. new \notin ROB /\ \A j \in ROB : j < new /\ j \in 1..Len(prog)
  <2> DEFINE L == Len(prog)
  <2>1. L \in Nat /\ \A j \in ROB : j \in Nat /\ j >= 1 /\ j <= L
    BY <1>1
  <2> HIDE DEF L
  <2>2. L + 1 \notin ROB /\ \A j \in ROB : j < L + 1 /\ j \in 1..L
    BY <2>1
  <2> QED BY <2>2 DEF L
<1>3. /\ ROB' = ROB \cup {new}
      /\ \A j \in ROB : rob'[j] = rob[j]
      /\ ~rob'[new].scheduled /\ rob'[new].executed = "no"
      /\ rob'[new].num_reg_dependent = 0 /\ rob'[new].registers_instrs_depend_on_me = {}
      /\ rob'[new] \in ROBRecord
  <2>1. \A j \in ROB \cup {new} : rob'[j] = IF j = new
                   THEN [scheduled |-> FALSE, executed |-> "no", completed_mem_ops |-> done,
                         num_reg_dependent |-> 0, registers_instrs_depend_on_me |-> {}]
                   ELSE rob[j]
    OBVIOUS
  <2>2. ROB' = ROB \cup {new}
    BY DEF ROB
  <2>3. rob'[new] = [scheduled |-> FALSE, executed |-> "no", completed_mem_ops |-> done,
                     num_reg_dependent |-> 0, registers_instrs_depend_on_me |-> {}]
    BY <2>1
  <2> QED BY <1>2, <2>1, <2>2, <2>3 DEF ROBRecord
<1>4. /\ prog' \in Seq(Instrs) /\ Len(prog') = new
      /\ \A k \in 1..Len(prog) : prog'[k] = prog[k]
      /\ prog'[new] = ins
      /\ \A i \in 1..Len(prog) : \A r, p : LatestWriter(i, r, p)' <=> LatestWriter(i, r, p)
  BY <1>1, DispatchProgram
<1> HIDE DEF new
<1>5. /\ \A j \in ROB : Unfinished(j)' <=> Unfinished(j)
      /\ \A j \in ROB : prog'[j] = prog[j]
  BY <1>2, <1>3, <1>4 DEF Unfinished
<1>6. Program'
  <2>1. ROB' \subseteq 1..Len(prog')
    BY <1>1, <1>2, <1>3, <1>4 DEF new
  <2>2. rob' \in [ROB' -> ROBRecord]
    <3>1. \A j \in ROB' : rob'[j] \in ROBRecord
      BY <1>3 DEF SchedInv, Program
    <3>2. rob' = [j \in ROB' |-> rob'[j]]
      BY DEF ROB
    <3> QED BY <3>1, <3>2
  <2>3. \E f \in 0..Len(prog') : ROB' = (f + 1)..Len(prog')
    <3>1. PICK f \in 0..Len(prog) : ROB = (f + 1)..Len(prog)
      BY DEF SchedInv, Program
    <3> DEFINE L == Len(prog)
    <3>2. L \in Nat /\ f \in 0..L /\ new = L + 1 /\ ROB' = ((f + 1)..L) \cup {new}
      BY <1>1, <1>3, <3>1 DEF new
    <3> HIDE DEF L
    <3>3. f \in 0..new /\ ROB' = (f + 1)..new
      BY <3>2
    <3> QED BY <1>4, <3>3
  <2>4. Len(prog') <= MaxInstr
    BY <1>4 DEF new
  <2> QED BY <2>1, <2>2, <2>3, <2>4, <1>4 DEF Program
<1>7. ScheduledInOrder'
  <2>1. ScheduledInOrder
    BY DEF SchedInv
  <2>2. ASSUME NEW i \in ROB', NEW j \in ROB', j < i, rob'[i].scheduled
        PROVE  rob'[j].scheduled
    <3>1. i \in ROB
      BY <1>3, <2>2
    <3>2. j \in ROB
      <4>1. i < new /\ new \in Nat /\ i \in Nat
        BY <1>1, <1>2, <3>1 DEF new
      <4>2. j # new
        BY <2>2, <4>1
      <4> QED BY <1>3, <4>2
    <3> QED BY <1>3, <2>1, <2>2, <3>1, <3>2 DEF ScheduledInOrder
  <2>3. ASSUME NEW i \in ROB', rob'[i].executed # "no"
        PROVE  rob'[i].scheduled
    BY <1>3, <2>1, <2>3 DEF ScheduledInOrder
  <2> QED BY <2>2, <2>3 DEF ScheduledInOrder
<1>8. ProducersExact'
  <2>1. ProducersExact
    BY DEF SchedInv
  <2>2. reg_producers' \in [Regs -> SUBSET Ids]
    BY <2>1 DEF ProducersExact
  <2>3. ASSUME NEW r \in Regs, NEW p
        PROVE  p \in reg_producers'[r] <=>
                 p \in ROB' /\ rob'[p].scheduled /\ Unfinished(p)' /\ r \in prog'[p].dst
    BY <1>3, <1>5, <2>1 DEF ProducersExact
  <2> QED BY <2>2, <2>3 DEF ProducersExact
<1>9. DependentsWait'
  <2>1. DependentsWait
    BY DEF SchedInv
  <2>2. ASSUME NEW i \in ROB', Unfinished(i)', NEW d \in rob'[i].registers_instrs_depend_on_me
        PROVE  d \in ROB' /\ i < d /\ rob'[d].scheduled /\ rob'[d].executed = "no"
    BY <1>3, <1>5, <2>1, <2>2 DEF DependentsWait
  <2> QED BY <2>2 DEF DependentsWait
<1>10. \A i : Holders(i)' = Holders(i)
  BY <1>3, <1>5 DEF Holders
<1>11. DependentsCounted'
  <2>1. DependentsCounted
    BY DEF SchedInv
  <2>2. Holders(new) = {}
    BY <1>2, HeldWait
  <2>3. Cardinality(Holders(new)) = 0
    BY <2>2, FS_EmptySet
  <2>4. ASSUME NEW i \in ROB', Unfinished(i)'
        PROVE  rob'[i].num_reg_dependent = Cardinality(Holders(i))'
    <3>1. rob'[i].num_reg_dependent = Cardinality(Holders(i))
      <4>1. CASE i = new
        BY <1>3, <2>3, <4>1
      <4>2. CASE i \in ROB
        BY <1>3, <1>5, <2>1, <2>4, <4>2 DEF DependentsCounted
      <4> QED BY <1>3, <4>1, <4>2
    <3>2. Holders(i)' = Holders(i)
      BY <1>10
    <3> QED BY <3>1, <3>2
  <2> QED BY <2>4 DEF DependentsCounted
<1>12. BoundToLatest'
  <2>1. BoundToLatest
    BY DEF SchedInv
  <2>2. ASSUME NEW i \in ROB', rob'[i].scheduled, NEW r \in prog'[i].src, NEW p \in ROB',
               LatestWriter(i, r, p)', Unfinished(p)'
        PROVE  i \in rob'[p].registers_instrs_depend_on_me
    <3>1. i \in ROB /\ i \in 1..Len(prog)
      BY <1>2, <1>3, <2>2
    <3>2. LatestWriter(i, r, p)
      BY <1>4, <2>2, <3>1
    <3>3. p \in ROB
      BY <1>1, <1>2, <1>3, <3>1, <3>2 DEF LatestWriter
    <3> QED BY <1>3, <1>5, <2>1, <2>2, <3>1, <3>2, <3>3 DEF BoundToLatest
  <2> QED BY <2>2 DEF BoundToLatest
<1> QED BY <1>6, <1>7, <1>8, <1>9, <1>11, <1>12 DEF SchedInv

\* The producers an instruction gets bound to are unfinished and before it.
LEMMA PriorsAreEarlier ==
  ASSUME SchedInv, NEW i \in ROB, ~rob[i].scheduled
  PROVE  \A p \in LastProducers(prog[i]) :
           p \in ROB /\ rob[p].scheduled /\ Unfinished(p) /\ p < i
<1>1. prog[i].src \subseteq Regs
  BY ProgramFacts, ShapeAssumption DEF SchedInv, Shape
<1>2. SUFFICES ASSUME NEW r \in prog[i].src, NEW p \in reg_producers[r]
               PROVE  p \in ROB /\ rob[p].scheduled /\ Unfinished(p) /\ p < i
  BY DEF LastProducers
<1>3. p \in ROB /\ rob[p].scheduled /\ Unfinished(p)
  BY <1>1, <1>2 DEF SchedInv, ProducersExact
<1>4. ~(i < p) /\ p # i
  BY <1>3 DEF SchedInv, ScheduledInOrder
<1>5. i \in Nat /\ p \in Nat
  BY <1>3, ProgramFacts DEF SchedInv
<1> QED BY <1>3, <1>4, <1>5

\* The latest writer of a source is among them, unless it has finished.
LEMMA LatestWriterIsPrior ==
  ASSUME SchedInv, NEW i \in ROB, ~rob[i].scheduled, \A j \in ROB : j < i => rob[j].scheduled,
         NEW r \in prog[i].src, NEW p \in ROB, LatestWriter(i, r, p), Unfinished(p)
  PROVE  p \in LastProducers(prog[i])
<1>1. prog[i].src \subseteq Regs
  BY ProgramFacts, ShapeAssumption DEF SchedInv, Shape
<1>2. p < i /\ i \in Nat /\ p \in Nat
  BY ProgramFacts DEF SchedInv, LatestWriter
<1>3. p \in reg_producers[r]
  BY <1>1, <1>2 DEF SchedInv, ProducersExact, LatestWriter
<1>4. ASSUME NEW q \in reg_producers[r]
      PROVE  q <= p
  <2>1. q \in ROB /\ rob[q].scheduled /\ r \in prog[q].dst
    BY <1>1 DEF SchedInv, ProducersExact
  <2>2. q \in Nat /\ ~(i < q) /\ q # i
    BY <2>1, ProgramFacts DEF SchedInv, ScheduledInOrder
  <2>3. q \notin (p + 1)..(i - 1)
    BY <2>1 DEF LatestWriter
  <2> QED BY <1>2, <2>2, <2>3
<1> QED BY <1>3, <1>4 DEF LastProducers

LEMMA ScheduleKeepsSchedule ==
  ASSUME SchedInv, NEW i \in ROB, Schedule(i)
  PROVE  SchedInv'
<1> DEFINE priors == LastProducers(prog[i])
<1>1. /\ ~rob[i].scheduled
      /\ \A j \in ROB : j < i => rob[j].scheduled
      /\ rob[i].executed = "no"
  BY DEF Schedule, SchedInv, ScheduledInOrder
<1>2. \A p \in priors : p \in ROB /\ rob[p].scheduled /\ Unfinished(p) /\ p < i
  BY <1>1, PriorsAreEarlier
<1>3. \A j \in ROB : j \in Nat /\ j \in Ids
  BY ProgramFacts DEF SchedInv
<1>4. i \notin priors
  BY <1>1, <1>2
<1>5. Holders(i) = {}
  BY <1>1, HeldWait
<1>6. rob[i].num_reg_dependent = 0
  <2>1. Unfinished(i)
    BY <1>1 DEF Unfinished
  <2>2. rob[i].num_reg_dependent = Cardinality(Holders(i))
    BY <2>1 DEF SchedInv, DependentsCounted
  <2> QED BY <1>5, <2>2, FS_EmptySet
<1>7. IsFiniteSet(priors) /\ Cardinality(priors) \in Nat
  <2>1. priors \in SUBSET ROB
    BY <1>2
  <2> QED BY <2>1, ProgramFacts, FS_Subset, FS_CardinalityType DEF SchedInv
<1>8. rob' = [j \in ROB |->
                   IF j = i THEN [rob[i] EXCEPT !.scheduled = TRUE,
                                                !.num_reg_dependent = @ + Cardinality(priors)]
                   ELSE IF j \in priors
                        THEN [rob[j] EXCEPT !.registers_instrs_depend_on_me = @ \cup {i}]
                   ELSE rob[j]]
  BY DEF Schedule
<1> HIDE DEF priors
<1>9. \A j \in ROB : rob[j] \in ROBRecord
  BY DEF SchedInv, Program
<1>10. ROB' = ROB
  BY <1>8 DEF ROB
<1>11. /\ rob'[i] \in ROBRecord
       /\ rob'[i].scheduled
       /\ rob'[i].executed = rob[i].executed
       /\ rob'[i].num_reg_dependent = Cardinality(priors)
       /\ rob'[i].registers_instrs_depend_on_me = rob[i].registers_instrs_depend_on_me
  <2>1. rob'[i] = [rob[i] EXCEPT !.scheduled = TRUE,
                                 !.num_reg_dependent = @ + Cardinality(priors)]
    BY <1>8
  <2>2. rob[i] \in ROBRecord /\ rob[i].num_reg_dependent + Cardinality(priors) = Cardinality(priors)
    BY <1>6, <1>7, <1>9
  <2>3. rob'[i] = [rob[i] EXCEPT !.scheduled = TRUE, !.num_reg_dependent = Cardinality(priors)]
    BY <2>1, <2>2
  <2>4. Cardinality(priors) \in Int
    BY <1>7
  <2> QED BY <2>2, <2>3, <2>4 DEF ROBRecord
<1>12. \A j \in ROB \ {i} :
         /\ rob'[j] \in ROBRecord
         /\ rob'[j].scheduled = rob[j].scheduled
         /\ rob'[j].executed = rob[j].executed
         /\ rob'[j].num_reg_dependent = rob[j].num_reg_dependent
         /\ rob'[j].registers_instrs_depend_on_me =
              IF j \in priors THEN rob[j].registers_instrs_depend_on_me \cup {i}
              ELSE rob[j].registers_instrs_depend_on_me
  <2>1. SUFFICES ASSUME NEW j \in ROB \ {i}
                 PROVE  /\ rob'[j] \in ROBRecord
                        /\ rob'[j].scheduled = rob[j].scheduled
                        /\ rob'[j].executed = rob[j].executed
                        /\ rob'[j].num_reg_dependent = rob[j].num_reg_dependent
                        /\ rob'[j].registers_instrs_depend_on_me =
                             IF j \in priors THEN rob[j].registers_instrs_depend_on_me \cup {i}
                             ELSE rob[j].registers_instrs_depend_on_me
    OBVIOUS
  <2>2. rob'[j] = IF j \in priors
                  THEN [rob[j] EXCEPT !.registers_instrs_depend_on_me = @ \cup {i}] ELSE rob[j]
    BY <1>8
  <2>3. rob[j] \in ROBRecord
    BY <1>9
  <2> QED BY <1>3, <2>2, <2>3 DEF ROBRecord
<1>13. \A j \in ROB : Unfinished(j)' <=> Unfinished(j)
  BY <1>11, <1>12 DEF Unfinished
<1>14. Program'
  <2>1. rob' \in [ROB -> ROBRecord]
    BY <1>8, <1>11, <1>12
  <2> QED BY <1>10, <2>1 DEF SchedInv, Program, Schedule
<1>15. ScheduledInOrder'
  <2>1. ScheduledInOrder
    BY DEF SchedInv
  <2>2. \A k, j \in ROB : j < k /\ rob'[k].scheduled => rob'[j].scheduled
    BY <1>1, <1>11, <1>12, <2>1 DEF ScheduledInOrder
  <2>3. \A j \in ROB : rob'[j].executed # "no" => rob'[j].scheduled
    BY <1>11, <1>12, <2>1 DEF ScheduledInOrder
  <2> QED BY <1>10, <2>2, <2>3 DEF ScheduledInOrder
<1>16. ProducersExact'
  <2>1. ProducersExact
    BY DEF SchedInv
  <2>2. reg_producers' = [r \in Regs |-> IF r \in prog[i].dst THEN reg_producers[r] \cup {i}
                                         ELSE reg_producers[r]]
    BY DEF Schedule
  <2>3. reg_producers' \in [Regs -> SUBSET Ids]
    BY <1>3, <2>1, <2>2 DEF ProducersExact
  <2>4. ASSUME NEW r \in Regs, NEW p
        PROVE  p \in reg_producers'[r] <=>
                 p \in ROB /\ rob'[p].scheduled /\ Unfinished(p)' /\ r \in prog'[p].dst
    <3>1. prog' = prog
      BY DEF Schedule
    <3>2. p \in reg_producers[r] <=>
             p \in ROB /\ rob[p].scheduled /\ Unfinished(p) /\ r \in prog[p].dst
      BY <2>1 DEF ProducersExact
    <3>3. CASE p = i
      <4>1. Unfinished(i)
        BY <1>1 DEF Unfinished
      <4> QED BY <1>1, <1>11, <1>13, <2>2, <3>1, <3>2, <3>3, <4>1
    <3>4. CASE p # i
      BY <1>12, <1>13, <2>2, <3>1, <3>2, <3>4
    <3> QED BY <3>3, <3>4
  <2> QED BY <1>10, <2>3, <2>4 DEF ProducersExact
<1>17. DependentsWait'
  <2>1. DependentsWait
    BY DEF SchedInv
  <2>2. ASSUME NEW j \in ROB, Unfinished(j), NEW d \in rob'[j].registers_instrs_depend_on_me
        PROVE  d \in ROB /\ j < d /\ rob'[d].scheduled /\ rob'[d].executed = "no"
    <3>1. CASE d \in rob[j].registers_instrs_depend_on_me
      <4>1. d \in ROB /\ j < d /\ rob[d].scheduled /\ rob[d].executed = "no"
        BY <2>1, <2>2, <3>1 DEF DependentsWait
      <4> QED BY <1>11, <1>12, <4>1
    <3>2. CASE d \notin rob[j].registers_instrs_depend_on_me
      <4>1. d = i /\ j \in priors
        BY <1>11, <1>12, <2>2, <3>2
      <4> QED BY <1>1, <1>2, <1>11, <4>1
    <3> QED BY <3>1, <3>2
  <2> QED BY <1>10, <1>13, <2>2 DEF DependentsWait
<1>18. Holders(i)' = priors
  <2>1. \A p \in ROB : Unfinished(p) => i \notin rob[p].registers_instrs_depend_on_me
    BY <1>5 DEF Holders
  <2>2. \A p \in ROB : Unfinished(p) => (i \in rob'[p].registers_instrs_depend_on_me <=> p \in priors)
    BY <1>4, <1>11, <1>12, <2>1
  <2> QED BY <1>2, <1>10, <1>13, <2>2 DEF Holders
<1>19. \A j : j # i => Holders(j)' = Holders(j)
  <2>1. \A j : j # i => \A p \in ROB : j \in rob'[p].registers_instrs_depend_on_me
                                       <=> j \in rob[p].registers_instrs_depend_on_me
    BY <1>11, <1>12
  <2> QED BY <1>10, <1>13, <2>1 DEF Holders
<1>20. DependentsCounted'
  <2>1. DependentsCounted
    BY DEF SchedInv
  <2>2. ASSUME NEW j \in ROB, Unfinished(j)
        PROVE  rob'[j].num_reg_dependent = Cardinality(Holders(j))'
    <3>1. CASE j = i
      BY <1>11, <1>18, <3>1
    <3>2. CASE j # i
      <4>1. rob'[j].num_reg_dependent = Cardinality(Holders(j))
        BY <1>12, <2>1, <2>2, <3>2 DEF DependentsCounted
      <4>2. Holders(j)' = Holders(j)
        BY <1>19, <3>2
      <4> QED BY <4>1, <4>2
    <3> QED BY <3>1, <3>2
  <2> QED BY <1>10, <1>13, <2>2 DEF DependentsCounted
<1>21. BoundToLatest'
  <2>1. BoundToLatest
    BY DEF SchedInv
  <2>2. prog' = prog
    BY DEF Schedule
  <2>3. ASSUME NEW k \in ROB, rob'[k].scheduled, NEW r \in prog[k].src, NEW p \in ROB,
               LatestWriter(k, r, p), Unfinished(p)
        PROVE  k \in rob'[p].registers_instrs_depend_on_me
    <3>1. CASE k = i
      <4>1. p \in priors
        BY <1>1, <2>3, <3>1, LatestWriterIsPrior DEF priors
      <4> QED BY <1>4, <1>12, <3>1, <4>1
    <3>2. CASE k # i
      <4>1. k \in rob[p].registers_instrs_depend_on_me
        BY <1>12, <2>1, <2>3, <3>2 DEF BoundToLatest
      <4> QED BY <1>11, <1>12, <4>1
    <3> QED BY <3>1, <3>2
  <2>4. \A k, r, p : LatestWriter(k, r, p)' <=> LatestWriter(k, r, p)
    BY <2>2 DEF LatestWriter
  <2> QED BY <1>10, <1>13, <2>2, <2>3, <2>4 DEF BoundToLatest
<1> QED BY <1>14, <1>15, <1>16, <1>17, <1>20, <1>21 DEF SchedInv

\* An instruction on which none of its producers is outstanding is held by nobody.
LEMMA ExecuteKeepsSchedule ==
  ASSUME SchedInv, NEW i \in ROB, Execute(i)
  PROVE  SchedInv'
<1>1. /\ rob[i].scheduled /\ rob[i].executed = "no" /\ rob[i].num_reg_dependent = 0
      /\ rob' = [rob EXCEPT ![i].executed = "INFLIGHT"]
      /\ prog' = prog /\ reg_producers' = reg_producers
  BY DEF Execute
<1>2. Holders(i) = {}
  <2>1. Unfinished(i)
    BY <1>1 DEF Unfinished
  <2>2. Cardinality(Holders(i)) = 0
    BY <1>1, <2>1 DEF SchedInv, DependentsCounted
  <2> QED BY <2>2, HoldersFinite, FS_EmptySet DEF SchedInv
<1>3. \A j \in ROB : rob[j] \in ROBRecord
  BY DEF SchedInv, Program
<1>4. /\ ROB' = ROB
      /\ \A j \in ROB \ {i} : rob'[j] = rob[j]
      /\ rob'[i] = [rob[i] EXCEPT !.executed = "INFLIGHT"]
  BY <1>1 DEF ROB
<1>5. /\ rob'[i].executed = "INFLIGHT"
      /\ \A j \in ROB :
        /\ rob'[j] \in ROBRecord
        /\ rob'[j].scheduled = rob[j].scheduled
        /\ j # i => rob'[j].executed = rob[j].executed
        /\ rob'[j].num_reg_dependent = rob[j].num_reg_dependent
        /\ rob'[j].registers_instrs_depend_on_me = rob[j].registers_instrs_depend_on_me
  BY <1>3, <1>4 DEF ROBRecord
<1>6. \A j \in ROB : Unfinished(j)' <=> Unfinished(j)
  BY <1>1, <1>5 DEF Unfinished
<1>7. \A j : Holders(j)' = Holders(j)
  BY <1>4, <1>5, <1>6 DEF Holders
<1>8. \A j, r, p : LatestWriter(j, r, p)' <=> LatestWriter(j, r, p)
  BY <1>1 DEF LatestWriter
<1>9. Program'
  <2>1. rob' = [j \in ROB |-> rob'[j]]
    BY <1>1 DEF ROB, SchedInv, Program
  <2>2. rob' \in [ROB -> ROBRecord]
    BY <1>5, <2>1
  <2> QED BY <1>1, <1>4, <2>2 DEF SchedInv, Program
<1>10. ScheduledInOrder'
  <2>1. ScheduledInOrder
    BY DEF SchedInv
  <2>2. \A k, j \in ROB : j < k /\ rob'[k].scheduled => rob'[j].scheduled
    BY <1>5, <2>1 DEF ScheduledInOrder
  <2>3. \A j \in ROB : rob'[j].executed # "no" => rob'[j].scheduled
    BY <1>1, <1>5, <2>1 DEF ScheduledInOrder
  <2> QED BY <1>4, <2>2, <2>3 DEF ScheduledInOrder
<1>11. ProducersExact'
  BY <1>1, <1>4, <1>5, <1>6 DEF SchedInv, ProducersExact
<1>12. DependentsWait'
  <2>1. DependentsWait
    BY DEF SchedInv
  <2>2. ASSUME NEW j \in ROB, Unfinished(j), NEW d \in rob[j].registers_instrs_depend_on_me
        PROVE  d \in ROB /\ j < d /\ rob'[d].scheduled /\ rob'[d].executed = "no"
    <3>1. d \in ROB /\ j < d /\ rob[d].scheduled /\ rob[d].executed = "no"
      BY <2>1, <2>2 DEF DependentsWait
    <3>2. d # i
      BY <1>2, <2>2 DEF Holders
    <3> QED BY <1>5, <3>1, <3>2
  <2> QED BY <1>4, <1>5, <1>6, <2>2 DEF DependentsWait
<1>13. DependentsCounted'
  BY <1>4, <1>5, <1>6, <1>7 DEF SchedInv, DependentsCounted
<1>14. BoundToLatest'
  BY <1>1, <1>4, <1>5, <1>6, <1>8 DEF SchedInv, BoundToLatest
<1> QED BY <1>9, <1>10, <1>11, <1>12, <1>13, <1>14 DEF SchedInv

LEMMA CompleteExecutionKeepsSchedule ==
  ASSUME SchedInv, NEW i \in ROB, CompleteExecution(i)
  PROVE  SchedInv'
<1> DEFINE freed == rob[i].registers_instrs_depend_on_me
<1>1. /\ rob[i].executed = "INFLIGHT"
      /\ reg_producers' = ProducersWithout(i)
      /\ rob' = [j \in ROB |->
               IF j = i THEN [rob[i] EXCEPT !.executed = "COMPLETED"]
               ELSE IF j \in freed
                    THEN [rob[j] EXCEPT !.num_reg_dependent = @ - 1]
               ELSE rob[j]]
      /\ prog' = prog
  BY DEF CompleteExecution
<1>2. Unfinished(i) /\ rob[i].scheduled
  BY <1>1 DEF Unfinished, SchedInv, ScheduledInOrder
<1>3. \A d \in freed : d \in ROB /\ i < d /\ rob[d].scheduled /\ rob[d].executed = "no"
  BY <1>2 DEF SchedInv, DependentsWait
<1> HIDE DEF freed
<1>4. \A j \in ROB : rob[j] \in ROBRecord /\ j \in Nat
  BY ProgramFacts DEF SchedInv, Program
<1>5. ROB' = ROB
  BY <1>1 DEF ROB
<1>6. /\ rob'[i] \in ROBRecord
      /\ rob'[i].scheduled = rob[i].scheduled
      /\ rob'[i].executed = "COMPLETED"
      /\ rob'[i].registers_instrs_depend_on_me = rob[i].registers_instrs_depend_on_me
  <2>1. rob'[i] = [rob[i] EXCEPT !.executed = "COMPLETED"]
    BY <1>1
  <2> QED BY <1>4, <2>1 DEF ROBRecord
<1>7. \A j \in ROB \ {i} :
        /\ rob'[j] \in ROBRecord
        /\ rob'[j].scheduled = rob[j].scheduled
        /\ rob'[j].executed = rob[j].executed
        /\ rob'[j].num_reg_dependent = IF j \in freed THEN rob[j].num_reg_dependent - 1
                                       ELSE rob[j].num_reg_dependent
        /\ rob'[j].registers_instrs_depend_on_me = rob[j].registers_instrs_depend_on_me
  <2>1. SUFFICES ASSUME NEW j \in ROB \ {i}
                 PROVE  /\ rob'[j] \in ROBRecord
                        /\ rob'[j].scheduled = rob[j].scheduled
                        /\ rob'[j].executed = rob[j].executed
                        /\ rob'[j].num_reg_dependent = IF j \in freed THEN rob[j].num_reg_dependent - 1
                                                       ELSE rob[j].num_reg_dependent
                        /\ rob'[j].registers_instrs_depend_on_me = rob[j].registers_instrs_depend_on_me
    OBVIOUS
  <2>2. rob'[j] = IF j \in freed THEN [rob[j] EXCEPT !.num_reg_dependent = @ - 1] ELSE rob[j]
    BY <1>1
  <2> QED BY <1>4, <2>2 DEF ROBRecord
<1>8. /\ ~Unfinished(i)'
      /\ \A j \in ROB \ {i} : Unfinished(j)' <=> Unfinished(j)
  BY <1>6, <1>7 DEF Unfinished
<1>9. Program'
  <2>1. rob' \in [ROB -> ROBRecord]
    BY <1>1, <1>6, <1>7
  <2> QED BY <1>1, <1>5, <2>1 DEF SchedInv, Program
<1>10. ScheduledInOrder'
  <2>1. ScheduledInOrder
    BY DEF SchedInv
  <2>2. \A k, j \in ROB : j < k /\ rob'[k].scheduled => rob'[j].scheduled
    BY <1>6, <1>7, <2>1 DEF ScheduledInOrder
  <2>3. \A j \in ROB : rob'[j].executed # "no" => rob'[j].scheduled
    BY <1>2, <1>6, <1>7, <2>1 DEF ScheduledInOrder
  <2> QED BY <1>5, <2>2, <2>3 DEF ScheduledInOrder
<1>11. ProducersExact'
  <2>1. ProducersExact
    BY DEF SchedInv
  <2>2. reg_producers' \in [Regs -> SUBSET Ids]
    BY <1>1, <2>1 DEF ProducersExact, ProducersWithout
  <2>3. ASSUME NEW r \in Regs, NEW p
        PROVE  p \in reg_producers'[r] <=>
                 p \in ROB /\ rob'[p].scheduled /\ Unfinished(p)' /\ r \in prog[p].dst
    <3>1. p \in reg_producers[r] <=>
             p \in ROB /\ rob[p].scheduled /\ Unfinished(p) /\ r \in prog[p].dst
      BY <2>1 DEF ProducersExact
    <3>2. CASE p = i
      BY <1>1, <1>8, <3>1, <3>2 DEF ProducersWithout
    <3>3. CASE p # i
      <4>1. p \in reg_producers'[r] <=> p \in reg_producers[r]
        BY <1>1, <3>3 DEF ProducersWithout
      <4> QED BY <1>7, <1>8, <3>1, <3>3, <4>1
    <3> QED BY <3>2, <3>3
  <2> QED BY <1>1, <1>5, <2>2, <2>3 DEF ProducersExact
<1>12. DependentsWait'
  <2>1. DependentsWait
    BY DEF SchedInv
  <2>2. ASSUME NEW j \in ROB, Unfinished(j)', NEW d \in rob'[j].registers_instrs_depend_on_me
        PROVE  d \in ROB /\ j < d /\ rob'[d].scheduled /\ rob'[d].executed = "no"
    <3>1. j # i /\ Unfinished(j) /\ d \in rob[j].registers_instrs_depend_on_me
      BY <1>7, <1>8, <2>2
    <3>2. d \in ROB /\ j < d /\ rob[d].scheduled /\ rob[d].executed = "no"
      BY <2>1, <3>1 DEF DependentsWait
    <3>3. d # i
      BY <1>1, <3>2
    <3> QED BY <1>7, <3>2, <3>3
  <2> QED BY <1>5, <2>2 DEF DependentsWait
<1>13. \A j : Holders(j)' = Holders(j) \ {i}
  BY <1>5, <1>7, <1>8 DEF Holders
<1>14. \A j : i \in Holders(j) <=> j \in freed
  BY <1>2 DEF Holders, freed
<1>15. DependentsCounted'
  <2>1. DependentsCounted
    BY DEF SchedInv
  <2>2. ASSUME NEW j \in ROB, Unfinished(j)'
        PROVE  rob'[j].num_reg_dependent = Cardinality(Holders(j))'
    <3>1. j # i /\ Unfinished(j)
      BY <1>8, <2>2
    <3>2. rob[j].num_reg_dependent = Cardinality(Holders(j)) /\ IsFiniteSet(Holders(j))
      BY <2>1, <3>1, HoldersFinite DEF DependentsCounted, SchedInv
    <3>3. Cardinality(Holders(j) \ {i}) = IF i \in Holders(j) THEN Cardinality(Holders(j)) - 1
                                          ELSE Cardinality(Holders(j))
      BY <3>2, FS_RemoveElement
    <3>4. rob'[j].num_reg_dependent = Cardinality(Holders(j) \ {i})
      BY <1>7, <1>14, <3>1, <3>2, <3>3
    <3>5. Holders(j)' = Holders(j) \ {i}
      BY <1>13
    <3> QED BY <3>4, <3>5
  <2> QED BY <1>5, <2>2 DEF DependentsCounted
<1>16. BoundToLatest'
  <2>1. BoundToLatest
    BY DEF SchedInv
  <2>2. \A k, r, p : LatestWriter(k, r, p)' <=> LatestWriter(k, r, p)
    BY <1>1 DEF LatestWriter
  <2>3. ASSUME NEW k \in ROB, rob'[k].scheduled, NEW r \in prog[k].src, NEW p \in ROB,
               LatestWriter(k, r, p), Unfinished(p)'
        PROVE  k \in rob'[p].registers_instrs_depend_on_me
    <3>1. p # i /\ Unfinished(p) /\ rob[k].scheduled
      BY <1>6, <1>7, <1>8, <2>3
    <3> QED BY <1>7, <2>1, <2>3, <3>1 DEF BoundToLatest
  <2> QED BY <1>1, <1>5, <2>2, <2>3 DEF BoundToLatest
<1> QED BY <1>9, <1>10, <1>11, <1>12, <1>15, <1>16 DEF SchedInv

LEMMA RetireKeepsSchedule ==
  ASSUME SchedInv, NEW i \in ROB, Retire(i)
  PROVE  SchedInv'
<1>1. /\ IsFront(i) /\ rob[i].executed = "COMPLETED"
      /\ rob' = [j \in ROB \ {i} |-> rob[j]]
      /\ prog' = prog /\ reg_producers' = reg_producers
  BY DEF Retire
<1>2. /\ ROB' = ROB \ {i}
      /\ \A j \in ROB \ {i} : rob'[j] = rob[j]
  BY <1>1 DEF ROB
<1>3. /\ ~Unfinished(i)
      /\ \A j \in ROB \ {i} : Unfinished(j)' <=> Unfinished(j)
  BY <1>1, <1>2 DEF Unfinished
<1>4. \A j : Holders(j)' = Holders(j)
  BY <1>2, <1>3 DEF Holders
<1>5. Program'
  <2>1. rob' \in [ROB' -> ROBRecord]
    BY <1>1, <1>2 DEF SchedInv, Program
  <2>2. \E f \in 0..Len(prog) : ROB' = (f + 1)..Len(prog)
    <3>1. PICK f \in 0..Len(prog) : ROB = (f + 1)..Len(prog)
      BY DEF SchedInv, Program
    <3> DEFINE L == Len(prog)
    <3>2. /\ L \in Nat /\ f \in 0..L /\ i \in (f + 1)..L /\ ROB' = ((f + 1)..L) \ {i}
          /\ \A j \in (f + 1)..L : i <= j
      BY <1>1, <1>2, <3>1, ProgramFacts DEF IsFront, SchedInv
    <3> HIDE DEF L
    <3>3. i = f + 1
      BY <3>2
    <3>4. i \in 0..L /\ ROB' = (i + 1)..L
      BY <3>2, <3>3
    <3> QED BY <3>4 DEF L
  <2>3. ROB' \subseteq 1..Len(prog) /\ prog \in Seq(Instrs) /\ Len(prog) <= MaxInstr
    BY <1>2 DEF SchedInv, Program
  <2> QED BY <1>1, <2>1, <2>2, <2>3 DEF Program
<1>6. ScheduledInOrder'
  <2>1. ScheduledInOrder
    BY DEF SchedInv
  <2>2. \A k, j \in ROB' : j < k /\ rob'[k].scheduled => rob'[j].scheduled
    BY <1>2, <2>1 DEF ScheduledInOrder
  <2>3. \A j \in ROB' : rob'[j].executed # "no" => rob'[j].scheduled
    BY <1>2, <2>1 DEF ScheduledInOrder
  <2> QED BY <2>2, <2>3 DEF ScheduledInOrder
<1>7. ProducersExact'
  <2>1. ProducersExact
    BY DEF SchedInv
  <2>2. ASSUME NEW r \in Regs, NEW p
        PROVE  p \in reg_producers[r] <=>
                 p \in ROB' /\ rob'[p].scheduled /\ Unfinished(p)' /\ r \in prog[p].dst
    BY <1>2, <1>3, <2>1 DEF ProducersExact
  <2> QED BY <1>1, <2>1, <2>2 DEF ProducersExact
<1>8. DependentsWait'
  <2>1. DependentsWait
    BY DEF SchedInv
  <2>2. ASSUME NEW j \in ROB', Unfinished(j)', NEW d \in rob'[j].registers_instrs_depend_on_me
        PROVE  d \in ROB' /\ j < d /\ rob'[d].scheduled /\ rob'[d].executed = "no"
    <3>1. d \in ROB /\ j < d /\ rob[d].scheduled /\ rob[d].executed = "no"
      BY <1>2, <1>3, <2>1, <2>2 DEF DependentsWait
    <3> QED BY <1>1, <1>2, <3>1
  <2> QED BY <2>2 DEF DependentsWait
<1>9. DependentsCounted'
  <2>1. DependentsCounted
    BY DEF SchedInv
  <2>2. ASSUME NEW j \in ROB', Unfinished(j)'
        PROVE  rob'[j].num_reg_dependent = Cardinality(Holders(j))'
    <3>1. rob'[j].num_reg_dependent = Cardinality(Holders(j))
      BY <1>2, <1>3, <2>1, <2>2 DEF DependentsCounted
    <3>2. Holders(j)' = Holders(j)
      BY <1>4
    <3> QED BY <3>1, <3>2
  <2> QED BY <2>2 DEF DependentsCounted
<1>10. BoundToLatest'
  <2>1. BoundToLatest
    BY DEF SchedInv
  <2>2. \A k, r, p : LatestWriter(k, r, p)' <=> LatestWriter(k, r, p)
    BY <1>1 DEF LatestWriter
  <2>3. \A k \in ROB' : rob'[k].scheduled =>
           \A r \in prog[k].src : \A p \in ROB' :
             LatestWriter(k, r, p) /\ Unfinished(p)' => k \in rob'[p].registers_instrs_depend_on_me
    BY <1>2, <1>3, <2>1 DEF BoundToLatest
  <2> QED BY <1>1, <2>2, <2>3 DEF BoundToLatest
<1> QED BY <1>5, <1>6, <1>7, <1>8, <1>9, <1>10 DEF SchedInv

-----------------------------------------------------------------------------
(* The queues: what they hold, and what a dispatch puts there.             *)

QueuesTyped ==
  /\ LQ \in [Slots -> LQEntry \cup {Empty}]
  /\ SQ \in Seq(SQEntry)
  /\ l1d_reads \in [Blocks -> Nat]
  /\ processed \in Seq(Blocks)
  /\ memory \in [Addrs -> Ids \cup {NoStore}]

LEMMA QueueFacts ==
  ASSUME QueuesTyped
  PROVE  /\ Len(SQ) \in Nat /\ DOMAIN SQ = 1..Len(SQ)
         /\ \A j \in DOMAIN SQ : SQ[j] \in SQEntry /\ SQ[j].id \in Nat /\ SQ[j].id # 0
         /\ \A s \in Slots : \/ LQ[s] = Empty /\ LQ[s].id = 0
                             \/ LQ[s] # Empty /\ LQ[s] \in LQEntry /\ LQ[s].id \in Nat /\ LQ[s].id # 0
         /\ IsFiniteSet(Slots)
         /\ \A S \in SUBSET Slots : \A i : IsFiniteSet(LoadsOf(S, i)) /\ Cardinality(LoadsOf(S, i)) \in Nat
<1>1. Len(SQ) \in Nat /\ DOMAIN SQ = 1..Len(SQ) /\ \A j \in DOMAIN SQ : SQ[j] \in SQEntry
  BY SeqFacts DEF QueuesTyped
<1>2. \A i \in Ids : i \in Nat /\ i # 0
  BY SizesAssumption DEF Ids
<1>3. \A s \in Slots : \/ LQ[s] = Empty /\ LQ[s].id = 0
                       \/ LQ[s] # Empty /\ LQ[s] \in LQEntry /\ LQ[s].id \in Nat /\ LQ[s].id # 0
  <2>1. Empty.id = 0
    BY DEF Empty
  <2>2. \A e \in LQEntry : e.id \in Ids
    BY DEF LQEntry
  <2>3. \A s \in Slots : LQ[s] \in LQEntry \/ LQ[s] = Empty
    BY DEF QueuesTyped
  <2> QED BY <1>2, <2>1, <2>2, <2>3
<1>4. IsFiniteSet(Slots)
  BY SizesAssumption, FS_Interval DEF Slots
<1>5. ASSUME NEW S \in SUBSET Slots, NEW i
      PROVE  IsFiniteSet(LoadsOf(S, i)) /\ Cardinality(LoadsOf(S, i)) \in Nat
  <2>1. LoadsOf(S, i) \in SUBSET Slots
    BY DEF LoadsOf
  <2> QED BY <1>4, <2>1, FS_Subset, FS_CardinalityType
<1>6. \A e \in SQEntry : e.id \in Ids
  BY DEF SQEntry
<1> QED BY <1>1, <1>2, <1>3, <1>4, <1>5, <1>6

\* The loads of a new instruction that a finished store serves, and the others.
ServedAtOnce(ins, from) == {k \in DOMAIN ins.loads : from[k] # 0 /\ SQ[from[k]].fetch_issued}
Queued(ins, from) == DOMAIN ins.loads \ ServedAtOnce(ins, from)
Producer(from, k) == IF from[k] = 0 THEN NoStore ELSE SQ[from[k]].id

\* The instruction ins has been dispatched: load k found store from[k], and if it was
\* queued took the slot slot[k].
Dispatched(ins, from, slot) ==
  LET i == Len(prog) + 1
      queued == Queued(ins, from)
      done == ServedAtOnce(ins, from)
      taken == {slot[k] : k \in queued}
  IN
  /\ from \in [DOMAIN ins.loads -> 0..Len(SQ)]
  /\ \A k \in DOMAIN ins.loads : ForwardsFrom(ins.loads[k], from[k])
  /\ slot \in [queued -> FreeSlots]
  /\ \A k, l \in queued : slot[k] = slot[l] => k = l
  /\ LQ' = [s \in Slots |-> LQ'[s]]
  /\ \A k \in queued : LQ'[slot[k]] = LoadEntry(i, ins.loads[k], Producer(from, k))
  /\ \A s \in Slots \ taken : LQ'[s] = LQ[s]
  /\ SQ' = [j \in DOMAIN SQ |-> [SQ[j] EXCEPT !.lq_depend_on_me =
                                   @ \cup {slot[k] : k \in {l \in queued : from[l] = j}}]]
           \o [m \in DOMAIN ins.stores |-> StoreEntry(i, ins.stores[m])]
  /\ rob' = [j \in ROB \cup {i} |->
               IF j = i THEN [scheduled |-> FALSE, executed |-> "no",
                              completed_mem_ops |-> Cardinality(done),
                              num_reg_dependent |-> 0,
                              registers_instrs_depend_on_me |-> {}]
               ELSE rob[j]]
  /\ observed' = observed \cup {<<i, ins.loads[k], SQ[from[k]].id>> : k \in done}
  /\ prog' = Append(prog, ins)
  /\ i <= MaxInstr

LEMMA DispatchEffect ==
  ASSUME NEW ins \in Instrs, Dispatch(ins)
  PROVE  \E from, slot : Dispatched(ins, from, slot)
<1> DEFINE i == Len(prog) + 1
<1>1. PICK from \in [DOMAIN ins.loads -> 0..Len(SQ)] :
        /\ \A k \in DOMAIN ins.loads : ForwardsFrom(ins.loads[k], from[k])
        /\ \E slot \in [Queued(ins, from) -> FreeSlots] :
             /\ \A k, l \in Queued(ins, from) : slot[k] = slot[l] => k = l
             /\ LQ' = [s \in Slots |->
                         IF \E k \in Queued(ins, from) : slot[k] = s
                         THEN LET k == CHOOSE k \in Queued(ins, from) : slot[k] = s
                              IN  LoadEntry(i, ins.loads[k], Producer(from, k))
                         ELSE LQ[s]]
             /\ SQ' = [j \in DOMAIN SQ |-> [SQ[j] EXCEPT !.lq_depend_on_me =
                            @ \cup {slot[k] : k \in {l \in Queued(ins, from) : from[l] = j}}]]
                      \o [m \in DOMAIN ins.stores |-> StoreEntry(i, ins.stores[m])]
        /\ rob' = [j \in ROB \cup {i} |->
                     IF j = i THEN [scheduled |-> FALSE, executed |-> "no",
                                    completed_mem_ops |-> Cardinality(ServedAtOnce(ins, from)),
                                    num_reg_dependent |-> 0,
                                    registers_instrs_depend_on_me |-> {}]
                     ELSE rob[j]]
        /\ observed' = observed \cup
               {<<i, ins.loads[k], SQ[from[k]].id>> : k \in ServedAtOnce(ins, from)}
  BY Zenon DEF Dispatch, Queued, ServedAtOnce, Producer
<1>2. PICK slot \in [Queued(ins, from) -> FreeSlots] :
        /\ \A k, l \in Queued(ins, from) : slot[k] = slot[l] => k = l
        /\ LQ' = [s \in Slots |->
                    IF \E k \in Queued(ins, from) : slot[k] = s
                    THEN LET k == CHOOSE k \in Queued(ins, from) : slot[k] = s
                         IN  LoadEntry(i, ins.loads[k], Producer(from, k))
                    ELSE LQ[s]]
        /\ SQ' = [j \in DOMAIN SQ |-> [SQ[j] EXCEPT !.lq_depend_on_me =
                       @ \cup {slot[k] : k \in {l \in Queued(ins, from) : from[l] = j}}]]
                 \o [m \in DOMAIN ins.stores |-> StoreEntry(i, ins.stores[m])]
  BY <1>1
<1>3. prog' = Append(prog, ins) /\ i <= MaxInstr
  BY DEF Dispatch
<1>4. LQ' = [s \in Slots |-> LQ'[s]]
  BY <1>2
<1>5. ASSUME NEW k \in Queued(ins, from)
      PROVE  LQ'[slot[k]] = LoadEntry(i, ins.loads[k], Producer(from, k))
  <2>1. slot[k] \in Slots
    BY <1>2 DEF FreeSlots
  <2>2. (CHOOSE l \in Queued(ins, from) : slot[l] = slot[k]) = k
    BY <1>2
  <2> QED BY <1>2, <2>1, <2>2
<1>6. ASSUME NEW s \in Slots \ {slot[k] : k \in Queued(ins, from)}
      PROVE  LQ'[s] = LQ[s]
  BY <1>2
<1>7. Dispatched(ins, from, slot)
  BY <1>1, <1>2, <1>3, <1>4, <1>5, <1>6, Zenon DEF Dispatched
<1> QED BY <1>7

LEMMA InstrFacts ==
  ASSUME NEW ins \in Instrs
  PROVE  /\ ins.src \subseteq Regs /\ ins.dst \subseteq Regs
         /\ Len(ins.loads) \in Nat /\ DOMAIN ins.loads = 1..Len(ins.loads)
         /\ Len(ins.stores) \in Nat /\ DOMAIN ins.stores = 1..Len(ins.stores)
         /\ \A k \in DOMAIN ins.loads : ins.loads[k] \in Addrs
         /\ \A m \in DOMAIN ins.stores : ins.stores[m] \in Addrs
<1>1. /\ ins.src \subseteq Regs /\ ins.dst \subseteq Regs
      /\ ins.loads \in Seq(Addrs) /\ ins.stores \in Seq(Addrs)
  BY ShapeAssumption DEF Shape
<1> QED BY <1>1, SeqFacts

\* What the store queue holds after a dispatch.
LEMMA DispatchedStores ==
  ASSUME QueuesTyped, Program, NEW ins \in Instrs, NEW from, NEW slot,
         Dispatched(ins, from, slot)
  PROVE  /\ SQ' \in Seq(SQEntry)
         /\ Len(SQ') = Len(SQ) + Len(ins.stores)
         /\ \A j \in DOMAIN SQ :
              /\ j \in DOMAIN SQ'
              /\ SQ'[j].id = SQ[j].id /\ SQ'[j].addr = SQ[j].addr
              /\ SQ'[j].ready = SQ[j].ready /\ SQ'[j].fetch_issued = SQ[j].fetch_issued
              /\ SQ'[j].lq_depend_on_me = SQ[j].lq_depend_on_me
                   \cup {slot[k] : k \in {l \in Queued(ins, from) : from[l] = j}}
         /\ \A m \in DOMAIN ins.stores :
              /\ Len(SQ) + m \in DOMAIN SQ'
              /\ SQ'[Len(SQ) + m] = StoreEntry(Len(prog) + 1, ins.stores[m])
<1> DEFINE i == Len(prog) + 1
           L == Len(SQ)
           N == Len(ins.stores)
           taken(j) == {slot[k] : k \in {l \in Queued(ins, from) : from[l] = j}}
           old == [j \in DOMAIN SQ |-> [SQ[j] EXCEPT !.lq_depend_on_me = @ \cup taken(j)]]
           new == [m \in DOMAIN ins.stores |-> StoreEntry(i, ins.stores[m])]
<1>1. L \in Nat /\ DOMAIN SQ = 1..L /\ \A j \in DOMAIN SQ : SQ[j] \in SQEntry
  BY QueueFacts
<1>2. N \in Nat /\ DOMAIN ins.stores = 1..N /\ \A m \in DOMAIN ins.stores : ins.stores[m] \in Addrs
  BY InstrFacts
<1>3. i \in Ids
  <2>1. i <= MaxInstr /\ Len(prog) \in Nat /\ MaxInstr \in Nat
    BY ProgramFacts, SizesAssumption DEF Dispatched
  <2> QED BY <2>1 DEF Ids
<1>4. \A j : taken(j) \subseteq Slots
  BY DEF Dispatched, FreeSlots
<1>5. SQ' = old \o new
  BY DEF Dispatched
<1> HIDE DEF taken, i
<1>6. \A j \in DOMAIN SQ :
        /\ old[j] \in SQEntry
        /\ old[j].id = SQ[j].id /\ old[j].addr = SQ[j].addr
        /\ old[j].ready = SQ[j].ready /\ old[j].fetch_issued = SQ[j].fetch_issued
        /\ old[j].lq_depend_on_me = SQ[j].lq_depend_on_me \cup taken(j)
  <2>1. SUFFICES ASSUME NEW j \in DOMAIN SQ
                 PROVE  /\ old[j] \in SQEntry
                        /\ old[j].id = SQ[j].id /\ old[j].addr = SQ[j].addr
                        /\ old[j].ready = SQ[j].ready /\ old[j].fetch_issued = SQ[j].fetch_issued
                        /\ old[j].lq_depend_on_me = SQ[j].lq_depend_on_me \cup taken(j)
    OBVIOUS
  <2>2. old[j] = [SQ[j] EXCEPT !.lq_depend_on_me = @ \cup taken(j)]
    OBVIOUS
  <2>3. SQ[j] \in SQEntry /\ taken(j) \subseteq Slots
    BY <1>1, <1>4
  <2> HIDE DEF old
  <2> QED BY <2>2, <2>3 DEF SQEntry
<1>7. \A m \in DOMAIN ins.stores : new[m] \in SQEntry /\ new[m] = StoreEntry(i, ins.stores[m])
  BY <1>2, <1>3 DEF StoreEntry, SQEntry
<1>8. old \in Seq(SQEntry) /\ Len(old) = L
  <2>1. old \in [1..L -> SQEntry]
    BY <1>1, <1>6
  <2> HIDE DEF old
  <2>2. old \in Seq(SQEntry)
    BY <1>1, <2>1, SeqDef
  <2>3. 1..Len(old) = 1..L /\ Len(old) \in Nat
    BY <2>1, <2>2, LenProperties
  <2> QED BY <1>1, <2>2, <2>3
<1>9. new \in Seq(SQEntry) /\ Len(new) = N
  <2>1. new \in [1..N -> SQEntry]
    BY <1>2, <1>7
  <2> HIDE DEF new
  <2>2. new \in Seq(SQEntry)
    BY <1>2, <2>1, SeqDef
  <2>3. 1..Len(new) = 1..N /\ Len(new) \in Nat
    BY <2>1, <2>2, LenProperties
  <2> QED BY <1>2, <2>2, <2>3
<1> HIDE DEF old, new, L, N
<1>10. /\ SQ' \in Seq(SQEntry) /\ Len(SQ') = L + N
       /\ \A k \in 1..(L + N) : SQ'[k] = IF k <= L THEN old[k] ELSE new[k - L]
  BY <1>5, <1>8, <1>9, ConcatProperties
<1>11. DOMAIN SQ' = 1..(L + N)
  BY <1>10, LenProperties
<1>12. \A j \in DOMAIN SQ : j \in DOMAIN SQ' /\ SQ'[j] = old[j]
  BY <1>1, <1>2, <1>10, <1>11
<1>13. \A m \in DOMAIN ins.stores : L + m \in DOMAIN SQ' /\ SQ'[L + m] = new[m]
  <2>1. SUFFICES ASSUME NEW m \in DOMAIN ins.stores
                 PROVE  L + m \in DOMAIN SQ' /\ SQ'[L + m] = new[m]
    OBVIOUS
  <2>2. m \in 1..N /\ L + m \in 1..(L + N) /\ ~(L + m <= L) /\ (L + m) - L = m
    BY <1>1, <1>2
  <2> QED BY <1>10, <1>11, <2>2
<1> QED BY <1>6, <1>7, <1>10, <1>12, <1>13 DEF taken, i, L, N

LEMMA DispatchTypes ==
  ASSUME QueuesTyped, Program, NEW ins \in Instrs, NEW from, NEW slot,
         Dispatched(ins, from, slot), UNCHANGED <<l1d_reads, processed, memory>>
  PROVE  QueuesTyped'
<1>1. Len(prog) + 1 \in Ids
  <2>1. Len(prog) + 1 <= MaxInstr /\ Len(prog) \in Nat /\ MaxInstr \in Nat
    BY ProgramFacts, SizesAssumption DEF Dispatched
  <2> QED BY <2>1 DEF Ids
<1>2. ASSUME NEW k \in Queued(ins, from)
      PROVE  LQ'[slot[k]] \in LQEntry
  <2>1. ins.loads[k] \in Addrs /\ from[k] \in 0..Len(SQ)
    BY InstrFacts DEF Dispatched, Queued
  <2>2. Producer(from, k) \in Ids \cup {NoStore}
    <3>1. CASE from[k] = 0
      BY <3>1 DEF Producer
    <3>2. CASE from[k] # 0
      <4>1. from[k] \in DOMAIN SQ
        BY <2>1, <3>2, QueueFacts
      <4>2. SQ[from[k]].id \in Ids
        BY <4>1, QueueFacts DEF SQEntry
      <4> QED BY <3>2, <4>2 DEF Producer
    <3> QED BY <3>1, <3>2
  <2>3. LQ'[slot[k]] = LoadEntry(Len(prog) + 1, ins.loads[k], Producer(from, k))
    BY DEF Dispatched
  <2> QED BY <1>1, <2>1, <2>2, <2>3 DEF LoadEntry, LQEntry
<1>3. ASSUME NEW s \in Slots
      PROVE  LQ'[s] \in LQEntry \cup {Empty}
  <2>1. CASE s \in {slot[k] : k \in Queued(ins, from)}
    BY <1>2, <2>1
  <2>2. CASE s \notin {slot[k] : k \in Queued(ins, from)}
    <3>1. LQ'[s] = LQ[s]
      BY <2>2 DEF Dispatched
    <3> QED BY <3>1 DEF QueuesTyped
  <2> QED BY <2>1, <2>2
<1>4. LQ' \in [Slots -> LQEntry \cup {Empty}]
  <2>1. LQ' = [s \in Slots |-> LQ'[s]]
    BY DEF Dispatched
  <2> QED BY <1>3, <2>1
<1>5. SQ' \in Seq(SQEntry)
  BY DispatchedStores
<1> QED BY <1>4, <1>5 DEF QueuesTyped

\* Steps that change entries where they are.
LEMMA InPlaceTypes ==
  ASSUME QueuesTyped, SQ' = [j \in DOMAIN SQ |-> SQ'[j]], \A j \in DOMAIN SQ : SQ'[j] \in SQEntry
  PROVE  SQ' \in Seq(SQEntry) /\ Len(SQ') = Len(SQ) /\ DOMAIN SQ' = DOMAIN SQ
<1>1. DOMAIN SQ = 1..Len(SQ) /\ Len(SQ) \in Nat
  BY QueueFacts
<1>2. SQ' \in [1..Len(SQ) -> SQEntry]
  BY <1>1
<1>3. SQ' \in Seq(SQEntry)
  BY <1>1, <1>2, SeqDef
<1>4. Len(SQ') = Len(SQ)
  BY <1>1, <1>2, <1>3, LenProperties
<1> QED BY <1>3, <1>4

LEMMA ExecuteQueues ==
  ASSUME QueuesTyped, NEW i \in ROB, Execute(i)
  PROVE  /\ QueuesTyped'
         /\ Len(SQ') = Len(SQ) /\ DOMAIN SQ' = DOMAIN SQ
         /\ \A j \in DOMAIN SQ :
              /\ SQ'[j].id = SQ[j].id /\ SQ'[j].addr = SQ[j].addr
              /\ SQ'[j].fetch_issued = SQ[j].fetch_issued
              /\ SQ'[j].lq_depend_on_me = SQ[j].lq_depend_on_me
         /\ \A s \in Slots :
              /\ LQ'[s].id = LQ[s].id /\ (LQ'[s] = Empty <=> LQ[s] = Empty)
              /\ LQ[s] # Empty => /\ LQ'[s].addr = LQ[s].addr
                                  /\ LQ'[s].fetch_issued = LQ[s].fetch_issued
                                  /\ LQ'[s].producer_id = LQ[s].producer_id
<1>1. \A s \in Slots : LQ'[s] = IF LQ[s].id = i THEN [LQ[s] EXCEPT !.ready = TRUE] ELSE LQ[s]
  BY DEF Execute
<1>2. ASSUME NEW s \in Slots
      PROVE  /\ LQ'[s] \in LQEntry \cup {Empty}
             /\ LQ'[s].id = LQ[s].id /\ (LQ'[s] = Empty <=> LQ[s] = Empty)
             /\ LQ[s] # Empty => /\ LQ'[s].addr = LQ[s].addr
                                 /\ LQ'[s].fetch_issued = LQ[s].fetch_issued
                                 /\ LQ'[s].producer_id = LQ[s].producer_id
  <2>1. CASE LQ[s] = Empty
    BY <1>1, <2>1 DEF Empty
  <2>2. CASE LQ[s] # Empty
    <3>1. LQ[s] \in LQEntry /\ LQ[s].id # 0
      BY <2>2, QueueFacts
    <3>2. /\ LQ'[s] \in LQEntry /\ LQ'[s].id = LQ[s].id
          /\ LQ'[s].addr = LQ[s].addr
          /\ LQ'[s].fetch_issued = LQ[s].fetch_issued
          /\ LQ'[s].producer_id = LQ[s].producer_id
      BY <1>1, <3>1 DEF LQEntry
    <3>3. LQ'[s] # Empty
      BY <3>1, <3>2 DEF Empty
    <3> QED BY <2>2, <3>2, <3>3
  <2> QED BY <2>1, <2>2
<1>3. LQ' \in [Slots -> LQEntry \cup {Empty}]
  BY <1>2 DEF Execute
<1>4. \A j \in DOMAIN SQ : SQ'[j] = IF SQ[j].id = i THEN [SQ[j] EXCEPT !.ready = TRUE] ELSE SQ[j]
  BY DEF Execute
<1>5. \A j \in DOMAIN SQ : /\ SQ'[j] \in SQEntry
              /\ SQ'[j].id = SQ[j].id /\ SQ'[j].addr = SQ[j].addr
              /\ SQ'[j].fetch_issued = SQ[j].fetch_issued
              /\ SQ'[j].lq_depend_on_me = SQ[j].lq_depend_on_me
  BY <1>4, QueueFacts DEF SQEntry
<1>6. SQ' = [j \in DOMAIN SQ |-> SQ'[j]]
  BY DEF Execute
<1>7. SQ' \in Seq(SQEntry) /\ Len(SQ') = Len(SQ) /\ DOMAIN SQ' = DOMAIN SQ
  BY <1>5, <1>6, InPlaceTypes
<1>8. UNCHANGED <<l1d_reads, processed, memory>>
  BY DEF Execute
<1>9. QueuesTyped'
  BY <1>3, <1>7, <1>8 DEF QueuesTyped
<1> QED BY <1>2, <1>5, <1>7, <1>9

LEMMA FinishStoreQueues ==
  ASSUME QueuesTyped, NEW j \in DOMAIN SQ, FinishStore(j)
  PROVE  /\ QueuesTyped'
         /\ Len(SQ') = Len(SQ) /\ DOMAIN SQ' = DOMAIN SQ
         /\ SQ'[j].fetch_issued
         /\ \A k \in DOMAIN SQ :
              /\ SQ'[k].id = SQ[k].id /\ SQ'[k].addr = SQ[k].addr
              /\ k # j => SQ'[k].fetch_issued = SQ[k].fetch_issued
              /\ SQ'[k].lq_depend_on_me = SQ[k].lq_depend_on_me
         /\ \A s \in Slots : LQ'[s] = IF s \in SQ[j].lq_depend_on_me THEN Empty ELSE LQ[s]
         /\ SQ[j].lq_depend_on_me \subseteq Slots
<1>1. /\ LQ' = [s \in Slots |-> IF s \in SQ[j].lq_depend_on_me THEN Empty ELSE LQ[s]]
      /\ SQ' = [SQ EXCEPT ![j].fetch_issued = TRUE]
      /\ UNCHANGED <<l1d_reads, processed, memory>>
  BY DEF FinishStore
<1>2. LQ' \in [Slots -> LQEntry \cup {Empty}]
  BY <1>1 DEF QueuesTyped
<1>3. /\ \A k \in DOMAIN SQ : SQ[k] \in SQEntry
      /\ \A k \in DOMAIN SQ : k # j => SQ'[k] = SQ[k]
      /\ SQ'[j] = [SQ[j] EXCEPT !.fetch_issued = TRUE]
  BY <1>1, QueueFacts
<1>4. /\ SQ'[j].fetch_issued
      /\ \A k \in DOMAIN SQ :
           /\ SQ'[k] \in SQEntry
           /\ SQ'[k].id = SQ[k].id /\ SQ'[k].addr = SQ[k].addr
           /\ SQ'[k].lq_depend_on_me = SQ[k].lq_depend_on_me
  <2>1. SQ[j] \in SQEntry
    BY <1>3
  <2>2. /\ SQ'[j] \in SQEntry /\ SQ'[j].fetch_issued
        /\ SQ'[j].id = SQ[j].id /\ SQ'[j].addr = SQ[j].addr
        /\ SQ'[j].lq_depend_on_me = SQ[j].lq_depend_on_me
    BY <1>3, <2>1 DEF SQEntry
  <2> QED BY <1>3, <2>2
<1>5. SQ' = [k \in DOMAIN SQ |-> SQ'[k]]
  BY <1>1
<1>6. SQ' \in Seq(SQEntry) /\ Len(SQ') = Len(SQ) /\ DOMAIN SQ' = DOMAIN SQ
  BY <1>4, <1>5, InPlaceTypes
<1>7. SQ[j].lq_depend_on_me \subseteq Slots
  BY <1>3 DEF SQEntry
<1>8. QueuesTyped'
  BY <1>1, <1>2, <1>6 DEF QueuesTyped
<1> QED BY <1>1, <1>3, <1>4, <1>6, <1>7, <1>8

LEMMA CompleteStoreQueues ==
  ASSUME QueuesTyped, CompleteStore
  PROVE  /\ QueuesTyped'
         /\ Len(SQ) \in Nat \ {0} /\ Len(SQ') = Len(SQ) - 1
         /\ Head(SQ) = SQ[1] /\ 1 \in DOMAIN SQ /\ SQ[1].addr \in Addrs
         /\ DOMAIN SQ' = 1..(Len(SQ) - 1)
         /\ \A j \in DOMAIN SQ' : j + 1 \in DOMAIN SQ /\ SQ'[j] = SQ[j + 1]
         /\ \A k \in DOMAIN SQ : k # 1 => k - 1 \in DOMAIN SQ' /\ SQ'[k - 1] = SQ[k]
         /\ \A a \in Addrs : memory'[a] = IF a = SQ[1].addr THEN SQ[1].id ELSE memory[a]
<1>1. /\ SQ # <<>> /\ SQ' = Tail(SQ)
      /\ memory' = [memory EXCEPT ![Head(SQ).addr] = Head(SQ).id]
      /\ UNCHANGED <<LQ, l1d_reads, processed>>
  BY DEF CompleteStore
<1> DEFINE L == Len(SQ)
<1>2. SQ \in Seq(SQEntry) /\ L \in Nat /\ L # 0 /\ DOMAIN SQ = 1..L
  BY <1>1, QueueFacts, EmptySeq DEF QueuesTyped
<1>3. SQ' \in Seq(SQEntry) /\ Len(SQ') = L - 1 /\ \A j \in 1..Len(SQ') : SQ'[j] = SQ[j + 1]
  BY <1>1, <1>2, HeadTailProperties
<1>4. DOMAIN SQ' = 1..(L - 1)
  BY <1>3, LenProperties
<1>5. Head(SQ) = SQ[1]
  OBVIOUS
<1> HIDE DEF L
<1>6. 1 \in DOMAIN SQ /\ \A j \in DOMAIN SQ' : j + 1 \in DOMAIN SQ /\ SQ'[j] = SQ[j + 1]
  BY <1>2, <1>3, <1>4
<1>7. ASSUME NEW k \in DOMAIN SQ, k # 1
      PROVE  k - 1 \in DOMAIN SQ' /\ SQ'[k - 1] = SQ[k]
  <2>1. k - 1 \in 1..(L - 1) /\ (k - 1) + 1 = k
    BY <1>2, <1>7
  <2> QED BY <1>4, <1>6, <2>1
<1>8. SQ[1].addr \in Addrs /\ SQ[1].id \in Ids
  BY <1>6, QueueFacts DEF SQEntry
<1>9. memory' \in [Addrs -> Ids \cup {NoStore}]
      /\ \A a \in Addrs : memory'[a] = IF a = SQ[1].addr THEN SQ[1].id ELSE memory[a]
  BY <1>1, <1>5, <1>8 DEF QueuesTyped
<1>10. QueuesTyped'
  BY <1>1, <1>3, <1>9 DEF QueuesTyped
<1> QED BY <1>2, <1>3, <1>4, <1>5, <1>6, <1>7, <1>8, <1>9, <1>10 DEF L

LEMMA ExecuteLoadQueues ==
  ASSUME QueuesTyped, NEW s \in Slots, ExecuteLoad(s)
  PROVE  /\ QueuesTyped'
         /\ \A t \in Slots : t # s => LQ'[t] = LQ[t]
         /\ LQ[s] # Empty /\ LQ'[s] # Empty
         /\ LQ'[s].id = LQ[s].id /\ LQ'[s].addr = LQ[s].addr
         /\ LQ'[s].fetch_issued /\ ~LQ[s].fetch_issued
         /\ LQ'[s].producer_id = NoStore /\ LQ[s].producer_id = NoStore
<1>1. /\ LQ[s] # Empty /\ LQ[s].producer_id = NoStore /\ ~LQ[s].fetch_issued
      /\ LQ' = [LQ EXCEPT ![s].fetch_issued = TRUE]
      /\ \/ l1d_reads' = [l1d_reads EXCEPT ![BlockOf[LQ[s].addr]] = @ + 1]
         \/ UNCHANGED l1d_reads
      /\ UNCHANGED <<SQ, processed, memory>>
  BY DEF ExecuteLoad
<1>2. LQ[s] \in LQEntry /\ LQ[s].id # 0
  BY <1>1, QueueFacts
<1>3. (\A t \in Slots : t # s => LQ'[t] = LQ[t]) /\ LQ'[s] = [LQ[s] EXCEPT !.fetch_issued = TRUE]
  BY <1>1 DEF QueuesTyped
<1>4. /\ LQ'[s] \in LQEntry
      /\ LQ'[s].id = LQ[s].id /\ LQ'[s].addr = LQ[s].addr
      /\ LQ'[s].fetch_issued /\ LQ'[s].producer_id = LQ[s].producer_id
  BY <1>2, <1>3 DEF LQEntry
<1>5. LQ'[s] # Empty
  BY <1>2, <1>4 DEF Empty
<1>6. LQ' \in [Slots -> LQEntry \cup {Empty}]
  BY <1>1, <1>3, <1>4 DEF QueuesTyped
<1>7. l1d_reads' \in [Blocks -> Nat]
  <2>1. l1d_reads \in [Blocks -> Nat]
    BY DEF QueuesTyped
  <2> QED BY <1>1, <2>1
<1>8. QueuesTyped'
  BY <1>1, <1>6, <1>7 DEF QueuesTyped
<1> QED BY <1>1, <1>3, <1>4, <1>5, <1>8

LEMMA ReturnDataQueues ==
  ASSUME QueuesTyped, NEW b \in Blocks, ReturnData(b)
  PROVE  QueuesTyped'
<1>1. /\ l1d_reads[b] > 0 /\ l1d_reads' = [l1d_reads EXCEPT ![b] = @ - 1]
      /\ processed' = Append(processed, b) /\ UNCHANGED <<LQ, SQ, memory>>
  BY DEF ReturnData
<1>2. l1d_reads \in [Blocks -> Nat] /\ processed \in Seq(Blocks)
  BY DEF QueuesTyped
<1>3. l1d_reads' \in [Blocks -> Nat]
  <2>1. l1d_reads[b] - 1 \in Nat
    BY <1>1, <1>2
  <2> QED BY <1>1, <1>2, <2>1
<1>4. processed' \in Seq(Blocks)
  BY <1>1, <1>2, AppendProperties
<1> QED BY <1>1, <1>3, <1>4 DEF QueuesTyped

LEMMA HandleMemoryReturnQueues ==
  ASSUME QueuesTyped, HandleMemoryReturn
  PROVE  /\ QueuesTyped'
         /\ \A s \in Slots : LQ'[s] = IF s \in ServedBy(Head(processed)) THEN Empty ELSE LQ[s]
         /\ ServedBy(Head(processed)) \subseteq Slots
<1>1. /\ processed # <<>> /\ processed' = Tail(processed)
      /\ LQ' = [s \in Slots |-> IF s \in ServedBy(Head(processed)) THEN Empty ELSE LQ[s]]
      /\ UNCHANGED <<SQ, l1d_reads, memory>>
  BY DEF HandleMemoryReturn
<1>2. processed' \in Seq(Blocks)
  BY <1>1, HeadTailProperties DEF QueuesTyped
<1>3. LQ' \in [Slots -> LQEntry \cup {Empty}]
  BY <1>1 DEF QueuesTyped
<1>4. QueuesTyped'
  BY <1>1, <1>2, <1>3 DEF QueuesTyped
<1> QED BY <1>1, <1>4 DEF ServedBy

-----------------------------------------------------------------------------
(* The inductive invariant of register scheduling.                         *)

RegisterInv == SchedInv /\ QueuesTyped

LEMMA FinishOpsKeepsSchedule ==
  ASSUME SchedInv, QueuesTyped, NEW slots \in SUBSET Slots, NEW i,
         rob' = FinishOps(slots, i), UNCHANGED <<prog, reg_producers>>
  PROVE  SchedInv'
<1> DEFINE count == [j \in ROB |-> rob[j].completed_mem_ops
                                     + Cardinality(LoadsOf(slots, j)) + (IF i = j THEN 1 ELSE 0)]
<1>1. \A j \in ROB : rob[j].completed_mem_ops \in Int
  BY DEF SchedInv, Program, ROBRecord
<1>2. \A j \in ROB : Cardinality(LoadsOf(slots, j)) \in Int
  BY QueueFacts
<1>3. count \in [ROB -> Int]
  <2>1. \A j \in ROB : (IF i = j THEN 1 ELSE 0) \in Int
    OBVIOUS
  <2>2. \A j \in ROB : count[j] \in Int
    BY <1>1, <1>2, <2>1
  <2> QED BY <2>2
<1>4. rob' = [j \in ROB |-> [rob[j] EXCEPT !.completed_mem_ops = count[j]]]
  BY DEF FinishOps
<1> HIDE DEF count
<1> QED BY <1>3, <1>4, CountingKeepsSchedule

LEMMA RegisterInit == Init => RegisterInv
<1> SUFFICES ASSUME Init PROVE RegisterInv
  OBVIOUS
<1>1. ROB = {} /\ prog = <<>> /\ Len(prog) = 0
  BY DEF Init, ROB
<1>2. Program
  <2>1. prog \in Seq(Instrs)
    BY <1>1, EmptySeq
  <2>2. rob \in [ROB -> ROBRecord]
    BY <1>1 DEF Init
  <2>3. 0 \in 0..0 /\ {} = (0 + 1)..0
    OBVIOUS
  <2>4. \E f \in 0..Len(prog) : ROB = (f + 1)..Len(prog)
    BY <1>1, <2>3
  <2>5. MaxInstr \in Nat
    BY SizesAssumption
  <2> QED BY <1>1, <2>1, <2>2, <2>4, <2>5 DEF Program
<1>3. ProducersExact
  BY <1>1 DEF ProducersExact, Init
<1>4. SchedInv
  BY <1>1, <1>2, <1>3 DEF SchedInv, ScheduledInOrder, DependentsWait, DependentsCounted, BoundToLatest
<1>5. QueuesTyped
  <2>1. SQ \in Seq(SQEntry) /\ processed \in Seq(Blocks)
    BY EmptySeq DEF Init
  <2> QED BY <2>1 DEF Init, QueuesTyped
<1> QED BY <1>4, <1>5 DEF RegisterInv

LEMMA RegisterNext == RegisterInv /\ [Next]_vars => RegisterInv'
<1> SUFFICES ASSUME RegisterInv, [Next]_vars PROVE RegisterInv'
  OBVIOUS
<1> USE DEF RegisterInv
<1>0. SchedInv /\ Program /\ QueuesTyped
  BY DEF SchedInv
<1>1. ASSUME NEW ins \in Instrs, Dispatch(ins)
      PROVE  RegisterInv'
  <2>1. PICK from, slot : Dispatched(ins, from, slot)
    BY <1>1, DispatchEffect
  <2>2. UNCHANGED <<reg_producers, l1d_reads, processed, memory>>
    BY <1>1 DEF Dispatch
  <2>3. Cardinality(ServedAtOnce(ins, from)) \in Int
    <3>1. IsFiniteSet(DOMAIN ins.loads)
      BY InstrFacts, FS_Interval
    <3>2. ServedAtOnce(ins, from) \in SUBSET DOMAIN ins.loads
      BY DEF ServedAtOnce
    <3> QED BY <3>1, <3>2, FS_Subset, FS_CardinalityType
  <2>4. SchedInv'
    BY <1>0, <2>1, <2>2, <2>3, DispatchKeepsSchedule DEF Dispatched
  <2>5. QueuesTyped'
    BY <1>0, <2>1, <2>2, DispatchTypes
  <2> QED BY <2>4, <2>5
<1>2. ASSUME NEW i \in ROB, Schedule(i)
      PROVE  RegisterInv'
  <2>1. SchedInv'
    BY <1>0, <1>2, ScheduleKeepsSchedule
  <2>2. QueuesTyped'
    BY <1>0, <1>2 DEF Schedule, QueuesTyped
  <2> QED BY <2>1, <2>2
<1>3. ASSUME NEW i \in ROB, Execute(i)
      PROVE  RegisterInv'
  BY <1>0, <1>3, ExecuteKeepsSchedule, ExecuteQueues
<1>4. ASSUME NEW i \in ROB, CompleteExecution(i)
      PROVE  RegisterInv'
  <2>1. SchedInv'
    BY <1>0, <1>4, CompleteExecutionKeepsSchedule
  <2>2. QueuesTyped'
    BY <1>0, <1>4 DEF CompleteExecution, QueuesTyped
  <2> QED BY <2>1, <2>2
<1>5. ASSUME NEW i \in ROB, Retire(i)
      PROVE  RegisterInv'
  <2>1. SchedInv'
    BY <1>0, <1>5, RetireKeepsSchedule
  <2>2. QueuesTyped'
    BY <1>0, <1>5 DEF Retire, QueuesTyped
  <2> QED BY <2>1, <2>2
<1>6. ASSUME NEW j \in DOMAIN SQ, FinishStore(j)
      PROVE  RegisterInv'
  <2>1. SQ[j].lq_depend_on_me \in SUBSET Slots /\ QueuesTyped'
    BY <1>0, <1>6, FinishStoreQueues
  <2>2. rob' = FinishOps(SQ[j].lq_depend_on_me, SQ[j].id) /\ UNCHANGED <<prog, reg_producers>>
    BY <1>6 DEF FinishStore
  <2>3. SchedInv'
    BY <1>0, <2>1, <2>2, FinishOpsKeepsSchedule
  <2> QED BY <2>1, <2>3
<1>7. ASSUME UNCHANGED <<prog, rob, reg_producers>>
      PROVE  SchedInv'
  <2>1. ROB' = ROB
    BY <1>7 DEF ROB
  <2>2. \A i : Unfinished(i)' <=> Unfinished(i)
    BY <1>7 DEF Unfinished
  <2>3. \A i : Holders(i)' = Holders(i)
    BY <1>7, <2>1, <2>2 DEF Holders
  <2>4. \A i, r, p : LatestWriter(i, r, p)' <=> LatestWriter(i, r, p)
    BY <1>7 DEF LatestWriter
  <2>5. Program' /\ ScheduledInOrder'
    BY <1>0, <1>7, <2>1 DEF SchedInv, Program, ScheduledInOrder
  <2>6. ProducersExact' /\ DependentsWait'
    BY <1>0, <1>7, <2>1, <2>2 DEF SchedInv, ProducersExact, DependentsWait
  <2>7. DependentsCounted'
    BY <1>0, <1>7, <2>1, <2>2, <2>3 DEF SchedInv, DependentsCounted
  <2>8. BoundToLatest'
    BY <1>0, <1>7, <2>1, <2>2, <2>4 DEF SchedInv, BoundToLatest
  <2> QED BY <2>5, <2>6, <2>7, <2>8 DEF SchedInv
<1>8. ASSUME CompleteStore
      PROVE  RegisterInv'
  <2>1. SchedInv'
    BY <1>7, <1>8 DEF CompleteStore
  <2>2. QueuesTyped'
    BY <1>0, <1>8, CompleteStoreQueues
  <2> QED BY <2>1, <2>2
<1>9. ASSUME NEW s \in Slots, ExecuteLoad(s)
      PROVE  RegisterInv'
  <2>1. SchedInv'
    BY <1>7, <1>9 DEF ExecuteLoad
  <2>2. QueuesTyped'
    BY <1>0, <1>9, ExecuteLoadQueues
  <2> QED BY <2>1, <2>2
<1>10. ASSUME NEW b \in Blocks, ReturnData(b)
      PROVE  RegisterInv'
  <2>1. SchedInv'
    BY <1>7, <1>10 DEF ReturnData
  <2>2. QueuesTyped'
    BY <1>0, <1>10, ReturnDataQueues
  <2> QED BY <2>1, <2>2
<1>11. ASSUME HandleMemoryReturn
      PROVE  RegisterInv'
  <2>1. ServedBy(Head(processed)) \in SUBSET Slots /\ QueuesTyped'
    BY <1>0, <1>11, HandleMemoryReturnQueues
  <2>2. rob' = FinishOps(ServedBy(Head(processed)), NoStore) /\ UNCHANGED <<prog, reg_producers>>
    BY <1>11 DEF HandleMemoryReturn
  <2>3. SchedInv'
    BY <1>0, <2>1, <2>2, FinishOpsKeepsSchedule
  <2> QED BY <2>1, <2>3
<1>12. ASSUME UNCHANGED vars
      PROVE  RegisterInv'
  <2>1. SchedInv'
    BY <1>7, <1>12 DEF vars
  <2>2. QueuesTyped'
    BY <1>0, <1>12 DEF vars, QueuesTyped
  <2> QED BY <2>1, <2>2
<1> QED BY <1>1, <1>2, <1>3, <1>4, <1>5, <1>6, <1>8, <1>9, <1>10, <1>11, <1>12 DEF Next, Lsq, L1d

LEMMA RegisterInductive == Spec => []RegisterInv
<1>1. Init => RegisterInv
  BY RegisterInit
<1>2. RegisterInv /\ [Next]_vars => RegisterInv'
  BY RegisterNext
<1> QED BY <1>1, <1>2, PTL DEF Spec

\* An instruction begins to execute only after the latest earlier writer of each of
\* its sources has completed: do_scheduling binds every source to that writer, and
\* num_reg_dependent, at zero when execution begins, counts those not yet complete.
THEOREM OperandsReady == Spec => []NoExecuteBeforeOperands
<1>1. RegisterInv => NoExecuteBeforeOperands
  <2> SUFFICES ASSUME RegisterInv, NEW i \in ROB, rob[i].executed # "no",
                      NEW r \in prog[i].src, NEW p \in ROB, LatestWriter(i, r, p), Unfinished(p)
               PROVE  FALSE
    BY DEF NoExecuteBeforeOperands, Unfinished
  <2>1. rob[i].scheduled
    BY DEF RegisterInv, SchedInv, ScheduledInOrder
  <2>2. i \in rob[p].registers_instrs_depend_on_me
    BY <2>1 DEF RegisterInv, SchedInv, BoundToLatest
  <2> QED BY <2>2 DEF RegisterInv, SchedInv, DependentsWait
<1> QED BY <1>1, RegisterInductive, PTL

\* The scheduler refers only to live instructions that still wait, and counts them
\* right, in whatever order writers complete and retire.
THEOREM LinksLive == Spec => []SchedulerLinksLive
<1>1. RegisterInv => SchedulerLinksLive
  <2> SUFFICES ASSUME RegisterInv
               PROVE  SchedulerLinksLive
    OBVIOUS
  <2>1. \A r \in Regs : \A p \in reg_producers[r] :
          p \in ROB /\ rob[p].scheduled /\ rob[p].executed # "COMPLETED"
    BY DEF RegisterInv, SchedInv, ProducersExact, Unfinished
  <2>2. ASSUME NEW i \in ROB, rob[i].executed # "COMPLETED"
        PROVE  /\ \A d \in rob[i].registers_instrs_depend_on_me :
                    d \in ROB /\ i < d /\ rob[d].executed = "no"
               /\ rob[i].num_reg_dependent =
                    Cardinality({p \in ROB : /\ rob[p].executed # "COMPLETED"
                                             /\ i \in rob[p].registers_instrs_depend_on_me})
    BY <2>2 DEF RegisterInv, SchedInv, DependentsWait, DependentsCounted, Holders, Unfinished
  <2> QED BY <2>1, <2>2 DEF SchedulerLinksLive
<1> QED BY <1>1, RegisterInductive, PTL

-----------------------------------------------------------------------------
(* Accounting.                                                             *)

WaitingLoads(i) == {s \in Slots : LQ[s].id = i}
UnfinishedStores(i) == {j \in DOMAIN SQ : SQ[j].id = i /\ ~SQ[j].fetch_issued}

\* What waits belongs to live instructions that have not completed.
WaitersLive ==
  /\ \A i : i # 0 /\ WaitingLoads(i) # {} => i \in ROB
  /\ \A i : UnfinishedStores(i) # {} => i \in ROB

CompletedHasNone ==
  \A i \in ROB : rob[i].executed = "COMPLETED" =>
    WaitingLoads(i) = {} /\ UnfinishedStores(i) = {}

Accounting == WaitersLive /\ CompletedHasNone /\ MemOpsConserved

LEMMA WaitersFinite ==
  ASSUME QueuesTyped, NEW i
  PROVE  /\ IsFiniteSet(WaitingLoads(i)) /\ Cardinality(WaitingLoads(i)) \in Nat
         /\ IsFiniteSet(UnfinishedStores(i)) /\ Cardinality(UnfinishedStores(i)) \in Nat
<1>1. IsFiniteSet(Slots) /\ IsFiniteSet(DOMAIN SQ)
  BY QueueFacts, FS_Interval
<1>2. WaitingLoads(i) \in SUBSET Slots /\ UnfinishedStores(i) \in SUBSET DOMAIN SQ
  BY DEF WaitingLoads, UnfinishedStores
<1> QED BY <1>1, <1>2, FS_Subset, FS_CardinalityType

LEMMA Conserved ==
  ASSUME MemOpsConserved, NEW i \in ROB
  PROVE  NumMemOps(prog[i]) = rob[i].completed_mem_ops + Cardinality(WaitingLoads(i))
                                + Cardinality(UnfinishedStores(i))
BY DEF MemOpsConserved, WaitingLoads, UnfinishedStores

LEMMA ConservedNext ==
  ASSUME \A i \in ROB' :
           NumMemOps(prog'[i]) = rob'[i].completed_mem_ops + Cardinality(WaitingLoads(i))'
                                   + Cardinality(UnfinishedStores(i))'
  PROVE  MemOpsConserved'
BY DEF MemOpsConserved, WaitingLoads, UnfinishedStores

\* An instruction all of whose operations are counted has nothing waiting.
LEMMA AllCounted ==
  ASSUME RegisterInv, MemOpsConserved, NEW i \in ROB, MemOpsDone(i)
  PROVE  WaitingLoads(i) = {} /\ UnfinishedStores(i) = {}
<1>1. /\ Cardinality(WaitingLoads(i)) \in Nat /\ IsFiniteSet(WaitingLoads(i))
      /\ Cardinality(UnfinishedStores(i)) \in Nat /\ IsFiniteSet(UnfinishedStores(i))
  BY WaitersFinite DEF RegisterInv
<1>2. rob[i].completed_mem_ops \in Int
  BY DEF RegisterInv, SchedInv, Program, ROBRecord
<1>3. rob[i].completed_mem_ops = rob[i].completed_mem_ops + Cardinality(WaitingLoads(i))
                                   + Cardinality(UnfinishedStores(i))
  BY Conserved DEF MemOpsDone
<1>4. Cardinality(WaitingLoads(i)) = 0 /\ Cardinality(UnfinishedStores(i)) = 0
  <2> DEFINE c == rob[i].completed_mem_ops
             l == Cardinality(WaitingLoads(i))
             s == Cardinality(UnfinishedStores(i))
  <2>1. l \in Nat /\ s \in Nat /\ c \in Int /\ c = c + l + s
    BY <1>1, <1>2, <1>3
  <2> HIDE DEF c, l, s
  <2>2. l = 0 /\ s = 0
    BY <2>1
  <2> QED BY <2>2 DEF l, s
<1> QED BY <1>1, <1>4, FS_EmptySet

\* Steps that neither add, serve nor finish an operation.
LEMMA AccountingSame ==
  ASSUME RegisterInv, Accounting, prog' = prog, ROB' = ROB,
         \A i : WaitingLoads(i)' = WaitingLoads(i),
         \A i : UnfinishedStores(i)' = UnfinishedStores(i),
         \A i \in ROB : rob'[i].completed_mem_ops = rob[i].completed_mem_ops,
         \A i \in ROB : rob'[i].executed = "COMPLETED" =>
                          rob[i].executed = "COMPLETED" \/ MemOpsDone(i)
  PROVE  Accounting'
<1>1. WaitersLive'
  BY DEF Accounting, WaitersLive
<1>2. ASSUME NEW i \in ROB, rob'[i].executed = "COMPLETED"
      PROVE  WaitingLoads(i) = {} /\ UnfinishedStores(i) = {}
  BY <1>2, AllCounted DEF Accounting, CompletedHasNone
<1>3. CompletedHasNone'
  BY <1>2 DEF CompletedHasNone
<1>4. ASSUME NEW i \in ROB'
      PROVE  NumMemOps(prog'[i]) = rob'[i].completed_mem_ops + Cardinality(WaitingLoads(i))'
                                     + Cardinality(UnfinishedStores(i))'
  <2>1. NumMemOps(prog[i]) = rob[i].completed_mem_ops + Cardinality(WaitingLoads(i))
                               + Cardinality(UnfinishedStores(i))
    BY Conserved DEF Accounting
  <2>2. WaitingLoads(i)' = WaitingLoads(i) /\ UnfinishedStores(i)' = UnfinishedStores(i)
    OBVIOUS
  <2>3. NumMemOps(prog'[i]) = NumMemOps(prog[i])
    OBVIOUS
  <2> QED BY <2>1, <2>2, <2>3
<1>5. MemOpsConserved'
  BY <1>4, ConservedNext
<1> QED BY <1>1, <1>3, <1>5 DEF Accounting

\* Steps that finish the loads in some slots, and a store of instruction i or none.
LEMMA AccountingFinish ==
  ASSUME RegisterInv, Accounting, prog' = prog,
         NEW slots \in SUBSET Slots, NEW i, rob' = FinishOps(slots, i),
         \A k : k # 0 => WaitingLoads(k)' = WaitingLoads(k) \ slots,
         \A k : UnfinishedStores(k)' \subseteq UnfinishedStores(k),
         \A k \in ROB : Cardinality(UnfinishedStores(k))' =
                          Cardinality(UnfinishedStores(k)) - (IF i = k THEN 1 ELSE 0)
  PROVE  Accounting'
<1>1. ROB' = ROB
  BY DEF FinishOps, ROB
<1>2. \A k \in ROB : rob[k] \in ROBRecord /\ k # 0
  BY ProgramFacts DEF RegisterInv, SchedInv, Program
<1>3. \A k \in ROB :
        /\ rob'[k].executed = rob[k].executed
        /\ rob'[k].completed_mem_ops = rob[k].completed_mem_ops
             + Cardinality(LoadsOf(slots, k)) + (IF i = k THEN 1 ELSE 0)
  <2>1. SUFFICES ASSUME NEW k \in ROB
                 PROVE  /\ rob'[k].executed = rob[k].executed
                        /\ rob'[k].completed_mem_ops = rob[k].completed_mem_ops
                             + Cardinality(LoadsOf(slots, k)) + (IF i = k THEN 1 ELSE 0)
    OBVIOUS
  <2> DEFINE more == rob[k].completed_mem_ops
                       + Cardinality(LoadsOf(slots, k)) + (IF i = k THEN 1 ELSE 0)
  <2>2. rob'[k] = [rob[k] EXCEPT !.completed_mem_ops = more]
    BY DEF FinishOps
  <2> HIDE DEF more
  <2>3. rob'[k].executed = rob[k].executed /\ rob'[k].completed_mem_ops = more
    BY <1>2, <2>2 DEF ROBRecord
  <2> QED BY <2>3 DEF more
<1>4. WaitersLive'
  <2>1. WaitersLive
    BY DEF Accounting
  <2>2. ASSUME NEW k, k # 0, WaitingLoads(k)' # {}
        PROVE  k \in ROB'
    BY <1>1, <2>1, <2>2 DEF WaitersLive
  <2>3. ASSUME NEW k, UnfinishedStores(k)' # {}
        PROVE  k \in ROB'
    BY <1>1, <2>1, <2>3 DEF WaitersLive
  <2> QED BY <2>2, <2>3 DEF WaitersLive
<1>5. CompletedHasNone'
  <2>1. ASSUME NEW k \in ROB', rob'[k].executed = "COMPLETED"
        PROVE  WaitingLoads(k)' = {} /\ UnfinishedStores(k)' = {}
    <3>1. WaitingLoads(k) = {} /\ UnfinishedStores(k) = {}
      BY <1>1, <1>3, <2>1 DEF Accounting, CompletedHasNone
    <3>2. WaitingLoads(k)' = WaitingLoads(k) \ slots /\ UnfinishedStores(k)' \subseteq UnfinishedStores(k)
      BY <1>1, <1>2
    <3> QED BY <3>1, <3>2
  <2> QED BY <2>1 DEF CompletedHasNone
<1>6. ASSUME NEW k \in ROB'
      PROVE  NumMemOps(prog'[k]) = rob'[k].completed_mem_ops + Cardinality(WaitingLoads(k))'
                                     + Cardinality(UnfinishedStores(k))'
  <2> DEFINE more == IF i = k THEN 1 ELSE 0
  <2>1. NumMemOps(prog[k]) = rob[k].completed_mem_ops + Cardinality(WaitingLoads(k))
                               + Cardinality(UnfinishedStores(k))
    BY <1>1, Conserved DEF Accounting
  <2>2. /\ IsFiniteSet(WaitingLoads(k)) /\ Cardinality(WaitingLoads(k)) \in Nat
        /\ Cardinality(UnfinishedStores(k)) \in Nat
    BY WaitersFinite DEF RegisterInv
  <2>3. WaitingLoads(k) \cap slots = LoadsOf(slots, k)
    BY DEF WaitingLoads, LoadsOf
  <2>4. Cardinality(WaitingLoads(k) \ slots) = Cardinality(WaitingLoads(k)) - Cardinality(LoadsOf(slots, k))
    <3>1. Cardinality(WaitingLoads(k) \ slots) =
            Cardinality(WaitingLoads(k)) - Cardinality(WaitingLoads(k) \cap slots)
      BY <2>2, FS_Difference, Zenon
    <3> QED BY <2>3, <3>1
  <2>5. WaitingLoads(k)' = WaitingLoads(k) \ slots
    BY <1>1, <1>2
  <2>6. Cardinality(WaitingLoads(k))' = Cardinality(WaitingLoads(k)) - Cardinality(LoadsOf(slots, k))
    BY <2>4, <2>5
  <2>7. Cardinality(UnfinishedStores(k))' = Cardinality(UnfinishedStores(k)) - more
    BY <1>1
  <2>8. rob'[k].completed_mem_ops = rob[k].completed_mem_ops + Cardinality(LoadsOf(slots, k)) + more
    BY <1>1, <1>3
  <2>9. Cardinality(LoadsOf(slots, k)) \in Nat /\ rob[k].completed_mem_ops \in Int
    BY <1>1, <1>2, QueueFacts DEF RegisterInv, ROBRecord
  <2>10. more \in Int /\ NumMemOps(prog'[k]) = NumMemOps(prog[k])
    OBVIOUS
  <2> HIDE DEF more
  <2> QED BY <2>1, <2>2, <2>6, <2>7, <2>8, <2>9, <2>10
<1>7. MemOpsConserved'
  BY <1>6, ConservedNext
<1> QED BY <1>4, <1>5, <1>7 DEF Accounting

\* The loads and stores a new instruction leaves waiting are those not served at once.
LEMMA DispatchWaiters ==
  ASSUME RegisterInv, WaitersLive, NEW ins \in Instrs, NEW from, NEW slot,
         Dispatched(ins, from, slot), NEW new, new = Len(prog) + 1
  PROVE  /\ new \notin ROB
         /\ \A i : i # 0 /\ i # new => WaitingLoads(i)' = WaitingLoads(i)
         /\ \A i : i # new => UnfinishedStores(i)' = UnfinishedStores(i)
         /\ WaitingLoads(new)' = {slot[k] : k \in Queued(ins, from)}
         /\ UnfinishedStores(new)' = {Len(SQ) + m : m \in DOMAIN ins.stores}
<1> DEFINE taken == {slot[k] : k \in Queued(ins, from)}
           L == Len(SQ)
           N == Len(ins.stores)
<1>1. new \in Nat /\ new # 0 /\ new \notin ROB
  <2> DEFINE M == Len(prog)
  <2>1. M \in Nat /\ \A j \in ROB : j \in Nat /\ j <= M
    BY ProgramFacts DEF RegisterInv, SchedInv
  <2>2. new = M + 1
    OBVIOUS
  <2> HIDE DEF M
  <2> QED BY <2>1, <2>2
<1>2. WaitingLoads(new) = {} /\ UnfinishedStores(new) = {}
  BY <1>1 DEF WaitersLive
<1>3. taken \subseteq Slots /\ \A s \in taken : LQ[s].id = 0
  BY DEF Dispatched, FreeSlots, Empty
<1>4. \A s \in taken : LQ'[s].id = new
  <2>1. SUFFICES ASSUME NEW k \in Queued(ins, from)
                 PROVE  LQ'[slot[k]].id = new
    OBVIOUS
  <2>2. LQ'[slot[k]] = LoadEntry(new, ins.loads[k], Producer(from, k))
    BY DEF Dispatched
  <2> QED BY <2>2 DEF LoadEntry
<1>5. \A s \in Slots \ taken : LQ'[s] = LQ[s]
  BY DEF Dispatched
<1> HIDE DEF taken
<1>6. \A i : i # 0 /\ i # new => WaitingLoads(i)' = WaitingLoads(i)
  BY <1>3, <1>4, <1>5 DEF WaitingLoads
<1>7. WaitingLoads(new)' = taken
  <2>1. \A s \in Slots \ taken : LQ'[s].id # new
    BY <1>2, <1>5 DEF WaitingLoads
  <2> QED BY <1>3, <1>4, <2>1 DEF WaitingLoads
<1>8. /\ L \in Nat /\ DOMAIN SQ = 1..L
      /\ N \in Nat /\ DOMAIN ins.stores = 1..N
  BY QueueFacts, InstrFacts DEF RegisterInv
<1>9. /\ SQ' \in Seq(SQEntry) /\ Len(SQ') = L + N
      /\ \A j \in DOMAIN SQ : /\ j \in DOMAIN SQ' /\ SQ'[j].id = SQ[j].id
                              /\ SQ'[j].fetch_issued = SQ[j].fetch_issued
      /\ \A m \in DOMAIN ins.stores : /\ L + m \in DOMAIN SQ'
                                      /\ SQ'[L + m].id = new /\ ~SQ'[L + m].fetch_issued
  <2>1. /\ SQ' \in Seq(SQEntry) /\ Len(SQ') = Len(SQ) + Len(ins.stores)
        /\ \A j \in DOMAIN SQ : /\ j \in DOMAIN SQ' /\ SQ'[j].id = SQ[j].id
                                /\ SQ'[j].fetch_issued = SQ[j].fetch_issued
        /\ \A m \in DOMAIN ins.stores : /\ Len(SQ) + m \in DOMAIN SQ'
                                        /\ SQ'[Len(SQ) + m] = StoreEntry(new, ins.stores[m])
    BY DispatchedStores DEF RegisterInv, SchedInv
  <2>2. \A a : StoreEntry(new, a).id = new /\ ~StoreEntry(new, a).fetch_issued
    BY DEF StoreEntry
  <2> QED BY <2>1, <2>2
<1>10. DOMAIN SQ' = 1..(L + N)
  BY <1>9, LenProperties
<1> HIDE DEF L, N
<1>11. \A j \in DOMAIN SQ' : j \in DOMAIN SQ \/ \E m \in DOMAIN ins.stores : j = L + m
  <2>1. SUFFICES ASSUME NEW j \in DOMAIN SQ', j \notin DOMAIN SQ
                 PROVE  \E m \in DOMAIN ins.stores : j = L + m
    OBVIOUS
  <2>2. j - L \in DOMAIN ins.stores /\ j = L + (j - L)
    BY <1>8, <1>10, <2>1
  <2> QED BY <2>2
<1>12. \A j \in DOMAIN SQ : ~SQ[j].fetch_issued => SQ[j].id # new
  BY <1>2 DEF UnfinishedStores
<1>13. \A i : i # new => UnfinishedStores(i)' = UnfinishedStores(i)
  BY <1>9, <1>11 DEF UnfinishedStores
<1>14. UnfinishedStores(new)' = {L + m : m \in DOMAIN ins.stores}
  BY <1>9, <1>11, <1>12 DEF UnfinishedStores
<1> QED BY <1>1, <1>6, <1>7, <1>13, <1>14 DEF taken, L

LEMMA DispatchAccounting ==
  ASSUME RegisterInv, Accounting, NEW ins \in Instrs, NEW from, NEW slot,
         Dispatched(ins, from, slot)
  PROVE  Accounting'
<1>0. PICK new : new = Len(prog) + 1
  OBVIOUS
<1> DEFINE done == ServedAtOnce(ins, from)
           queued == Queued(ins, from)
           L == Len(SQ)
<1>1. /\ new \notin ROB
      /\ \A i : i # 0 /\ i # new => WaitingLoads(i)' = WaitingLoads(i)
      /\ \A i : i # new => UnfinishedStores(i)' = UnfinishedStores(i)
      /\ WaitingLoads(new)' = {slot[k] : k \in queued}
      /\ UnfinishedStores(new)' = {L + m : m \in DOMAIN ins.stores}
  BY <1>0, DispatchWaiters DEF Accounting
<1>2. /\ ROB' = ROB \cup {new}
      /\ rob'[new].executed = "no" /\ rob'[new].completed_mem_ops = Cardinality(done)
      /\ \A i \in ROB : rob'[i] = rob[i]
  BY <1>0, <1>1, Zenon DEF Dispatched, ROB
<1>3. prog'[new] = ins /\ \A i \in ROB : prog'[i] = prog[i]
  <2>1. \A i \in ROB : i \in 1..Len(prog)
    BY DEF RegisterInv, SchedInv, Program
  <2> QED BY <1>0, <2>1, DispatchProgram DEF Dispatched, RegisterInv, SchedInv
<1>4. \A i \in ROB : i # 0 /\ i # new
  BY <1>1, ProgramFacts DEF RegisterInv, SchedInv
<1>5. WaitersLive'
  <2>1. WaitersLive
    BY DEF Accounting
  <2>2. ASSUME NEW i, i # 0, WaitingLoads(i)' # {}
        PROVE  i \in ROB'
    BY <1>1, <1>2, <2>1, <2>2 DEF WaitersLive
  <2>3. ASSUME NEW i, UnfinishedStores(i)' # {}
        PROVE  i \in ROB'
    BY <1>1, <1>2, <2>1, <2>3 DEF WaitersLive
  <2> QED BY <2>2, <2>3 DEF WaitersLive
<1>6. CompletedHasNone'
  <2>1. ASSUME NEW i \in ROB', rob'[i].executed = "COMPLETED"
        PROVE  WaitingLoads(i)' = {} /\ UnfinishedStores(i)' = {}
    <3>1. i \in ROB /\ rob[i].executed = "COMPLETED"
      BY <1>2, <2>1
    <3>2. WaitingLoads(i) = {} /\ UnfinishedStores(i) = {}
      BY <3>1 DEF Accounting, CompletedHasNone
    <3>3. WaitingLoads(i)' = WaitingLoads(i) /\ UnfinishedStores(i)' = UnfinishedStores(i)
      BY <1>1, <1>4, <3>1
    <3> QED BY <3>2, <3>3
  <2> QED BY <2>1 DEF CompletedHasNone
<1>7. NumMemOps(ins) = Cardinality(done) + Cardinality(WaitingLoads(new))' + Cardinality(UnfinishedStores(new))'
  <2> DEFINE D == DOMAIN ins.loads
             S == DOMAIN ins.stores
             nl == Len(ins.loads)
             ns == Len(ins.stores)
  <2>0. nl \in Nat /\ ns \in Nat /\ D = 1..nl /\ S = 1..ns /\ L \in Nat
    BY InstrFacts, QueueFacts DEF RegisterInv
  <2>1. /\ IsFiniteSet(D) /\ Cardinality(D) = nl
        /\ IsFiniteSet(S) /\ Cardinality(S) = ns
        /\ \A m \in S : m \in Nat
    <3>1. \A n \in Nat : IsFiniteSet(1..n) /\ Cardinality(1..n) = n
      <4>1. SUFFICES ASSUME NEW n \in Nat PROVE IsFiniteSet(1..n) /\ Cardinality(1..n) = n
        OBVIOUS
      <4>2. IsFiniteSet(1..n) /\ Cardinality(1..n) = IF 1 > n THEN 0 ELSE n - 1 + 1
        BY FS_Interval
      <4> QED BY <4>2
    <3> HIDE DEF D, S, nl, ns
    <3> QED BY <2>0, <3>1
  <2>2. IsFiniteSet(queued) /\ Cardinality(queued) \in Nat
    <3>1. queued \in SUBSET D
      BY DEF Queued
    <3> QED BY <2>1, <3>1, FS_Subset, FS_CardinalityType
  <2>3. Cardinality(queued) = Cardinality(D) - Cardinality(done)
    <3>1. queued = D \ done /\ D \cap done = done
      BY DEF Queued, ServedAtOnce
    <3>2. Cardinality(D \ done) = Cardinality(D) - Cardinality(D \cap done)
      BY <2>1, FS_Difference, Zenon
    <3> QED BY <3>1, <3>2
  <2>4. Cardinality(done) \in Nat
    <3>1. done \in SUBSET D
      BY DEF ServedAtOnce
    <3> QED BY <2>1, <3>1, FS_Subset, FS_CardinalityType
  <2>5. Cardinality({slot[k] : k \in queued}) = Cardinality(queued)
    <3> DEFINE T == {slot[k] : k \in queued}
               f == [k \in queued |-> slot[k]]
    <3>1. f \in Bijection(queued, T)
      BY DEF Dispatched, Bijection, Injection, Surjection, IsInjective
    <3>2. ExistsBijection(queued, T)
      BY <3>1 DEF ExistsBijection
    <3> QED BY <2>2, <3>2, FS_Bijection
  <2>6. Cardinality({L + m : m \in S}) = Cardinality(S)
    <3> DEFINE T == {L + m : m \in S}
               f == [m \in S |-> L + m]
    <3>1. \A m, n \in S : L + m = L + n => m = n
      BY <2>0, <2>1
    <3>2. f \in Bijection(S, T)
      BY <3>1 DEF Bijection, Injection, Surjection, IsInjective
    <3>3. ExistsBijection(S, T)
      BY <3>2 DEF ExistsBijection
    <3> QED BY <2>1, <3>3, FS_Bijection
  <2>7. /\ Cardinality(WaitingLoads(new))' = Cardinality(queued)
        /\ Cardinality(UnfinishedStores(new))' = Cardinality(S)
    BY <1>1, <2>5, <2>6
  <2> HIDE DEF D, S, queued, done
  <2>8. Cardinality(done) + Cardinality(queued) + Cardinality(S) = Len(ins.loads) + Len(ins.stores)
    <3> DEFINE d == Cardinality(done)
               q == Cardinality(queued)
    <3>1. /\ Cardinality(S) = ns /\ d \in Nat /\ q \in Nat /\ q = nl - d
          /\ nl \in Nat /\ ns \in Nat
      BY <2>0, <2>1, <2>2, <2>3, <2>4
    <3> HIDE DEF d, q, nl, ns
    <3>2. d + q + ns = nl + ns
      BY <3>1
    <3> QED BY <3>1, <3>2 DEF d, q, nl, ns
  <2> QED BY <2>7, <2>8 DEF NumMemOps
<1>8. ASSUME NEW i \in ROB'
      PROVE  NumMemOps(prog'[i]) = rob'[i].completed_mem_ops + Cardinality(WaitingLoads(i))'
                                     + Cardinality(UnfinishedStores(i))'
  <2>1. CASE i = new
    BY <1>2, <1>3, <1>7, <2>1
  <2>2. CASE i # new
    <3>1. i \in ROB
      BY <1>2, <2>2
    <3>2. NumMemOps(prog[i]) = rob[i].completed_mem_ops + Cardinality(WaitingLoads(i))
                                 + Cardinality(UnfinishedStores(i))
      BY <3>1, Conserved DEF Accounting
    <3>3. WaitingLoads(i)' = WaitingLoads(i) /\ UnfinishedStores(i)' = UnfinishedStores(i)
      BY <1>1, <1>4, <3>1
    <3>4. prog'[i] = prog[i] /\ rob'[i] = rob[i]
      BY <1>2, <1>3, <3>1
    <3> QED BY <3>2, <3>3, <3>4
  <2> QED BY <2>1, <2>2
<1>9. MemOpsConserved'
  BY <1>8, ConservedNext
<1> QED BY <1>5, <1>6, <1>9 DEF Accounting

LEMMA RetireAccounting ==
  ASSUME RegisterInv, Accounting, NEW i \in ROB, Retire(i)
  PROVE  Accounting'
<1>1. /\ rob[i].executed = "COMPLETED"
      /\ rob' = [j \in ROB \ {i} |-> rob[j]]
      /\ UNCHANGED <<prog, LQ, SQ>>
  BY DEF Retire
<1>2. ROB' = ROB \ {i} /\ \A j \in ROB \ {i} : rob'[j] = rob[j]
  BY <1>1 DEF ROB
<1>3. \A j : WaitingLoads(j)' = WaitingLoads(j) /\ UnfinishedStores(j)' = UnfinishedStores(j)
  BY <1>1 DEF WaitingLoads, UnfinishedStores
<1>4. WaitingLoads(i) = {} /\ UnfinishedStores(i) = {}
  BY <1>1 DEF Accounting, CompletedHasNone
<1>5. WaitersLive'
  <2>1. WaitersLive
    BY DEF Accounting
  <2>2. \A j : j # 0 /\ WaitingLoads(j)' # {} => j \in ROB'
    BY <1>2, <1>3, <1>4, <2>1 DEF WaitersLive
  <2>3. \A j : UnfinishedStores(j)' # {} => j \in ROB'
    BY <1>2, <1>3, <1>4, <2>1 DEF WaitersLive
  <2> QED BY <2>2, <2>3 DEF WaitersLive
<1>6. CompletedHasNone'
  <2>1. \A j \in ROB' : rob'[j].executed = "COMPLETED" =>
          WaitingLoads(j)' = {} /\ UnfinishedStores(j)' = {}
    BY <1>2, <1>3 DEF Accounting, CompletedHasNone
  <2> QED BY <2>1 DEF CompletedHasNone
<1>7. ASSUME NEW j \in ROB'
      PROVE  NumMemOps(prog'[j]) = rob'[j].completed_mem_ops + Cardinality(WaitingLoads(j))'
                                     + Cardinality(UnfinishedStores(j))'
  <2>1. NumMemOps(prog[j]) = rob[j].completed_mem_ops + Cardinality(WaitingLoads(j))
                               + Cardinality(UnfinishedStores(j))
    BY <1>2, Conserved DEF Accounting
  <2>2. WaitingLoads(j)' = WaitingLoads(j) /\ UnfinishedStores(j)' = UnfinishedStores(j)
    BY <1>3
  <2>3. prog'[j] = prog[j] /\ rob'[j] = rob[j]
    BY <1>1, <1>2
  <2> QED BY <2>1, <2>2, <2>3
<1>8. MemOpsConserved'
  BY <1>7, ConservedNext
<1> QED BY <1>5, <1>6, <1>8 DEF Accounting

LEMMA FinishStoreAccounting ==
  ASSUME RegisterInv, Accounting, NEW j \in DOMAIN SQ, FinishStore(j)
  PROVE  Accounting'
<1> DEFINE released == SQ[j].lq_depend_on_me
<1>1. /\ ~SQ[j].fetch_issued /\ prog' = prog
      /\ rob' = FinishOps(released, SQ[j].id)
  BY DEF FinishStore
<1>2. /\ DOMAIN SQ' = DOMAIN SQ /\ SQ'[j].fetch_issued
      /\ \A k \in DOMAIN SQ : SQ'[k].id = SQ[k].id
      /\ \A k \in DOMAIN SQ : k # j => SQ'[k].fetch_issued = SQ[k].fetch_issued
      /\ \A s \in Slots : LQ'[s] = IF s \in released THEN Empty ELSE LQ[s]
      /\ released \subseteq Slots
  BY FinishStoreQueues DEF RegisterInv
<1> HIDE DEF released
<1>3. \A k : k # 0 => WaitingLoads(k)' = WaitingLoads(k) \ released
  <2>1. Empty.id = 0
    BY DEF Empty
  <2> QED BY <1>2, <2>1 DEF WaitingLoads
<1>4. \A k : UnfinishedStores(k)' = UnfinishedStores(k) \ {j}
  BY <1>2 DEF UnfinishedStores
<1>5. \A k : j \in UnfinishedStores(k) <=> SQ[j].id = k
  BY <1>1 DEF UnfinishedStores
<1>6. ASSUME NEW k \in ROB
      PROVE  Cardinality(UnfinishedStores(k))' =
               Cardinality(UnfinishedStores(k)) - (IF SQ[j].id = k THEN 1 ELSE 0)
  <2>1. IsFiniteSet(UnfinishedStores(k)) /\ Cardinality(UnfinishedStores(k)) \in Nat
    BY WaitersFinite DEF RegisterInv
  <2>2. Cardinality(UnfinishedStores(k) \ {j}) = IF j \in UnfinishedStores(k)
                                                 THEN Cardinality(UnfinishedStores(k)) - 1
                                                 ELSE Cardinality(UnfinishedStores(k))
    BY <2>1, FS_RemoveElement
  <2>3. Cardinality(UnfinishedStores(k) \ {j}) =
               Cardinality(UnfinishedStores(k)) - (IF SQ[j].id = k THEN 1 ELSE 0)
    BY <1>5, <2>1, <2>2
  <2>4. UnfinishedStores(k)' = UnfinishedStores(k) \ {j}
    BY <1>4
  <2> QED BY <2>3, <2>4
<1>7. \A k : UnfinishedStores(k)' \subseteq UnfinishedStores(k)
  BY <1>4
<1>8. PICK i : i = SQ[j].id
  OBVIOUS
<1>9. PICK slots \in SUBSET Slots : slots = released
  BY <1>2
<1> QED BY <1>1, <1>3, <1>6, <1>7, <1>8, <1>9, AccountingFinish

LEMMA HandleMemoryReturnAccounting ==
  ASSUME RegisterInv, Accounting, HandleMemoryReturn
  PROVE  Accounting'
<1>1. PICK slots \in SUBSET Slots : slots = ServedBy(Head(processed))
  BY HandleMemoryReturnQueues DEF RegisterInv
<1>2. /\ UNCHANGED <<prog, SQ>> /\ rob' = FinishOps(slots, NoStore)
      /\ \A s \in Slots : LQ'[s] = IF s \in slots THEN Empty ELSE LQ[s]
  BY <1>1, HandleMemoryReturnQueues DEF HandleMemoryReturn, RegisterInv
<1>3. \A k : k # 0 => WaitingLoads(k)' = WaitingLoads(k) \ slots
  <2>1. Empty.id = 0
    BY DEF Empty
  <2> QED BY <1>2, <2>1 DEF WaitingLoads
<1>4. \A k : UnfinishedStores(k)' = UnfinishedStores(k)
  BY <1>2 DEF UnfinishedStores
<1>5. ASSUME NEW k \in ROB
      PROVE  Cardinality(UnfinishedStores(k))' =
               Cardinality(UnfinishedStores(k)) - (IF NoStore = k THEN 1 ELSE 0)
  <2>1. NoStore # k
    BY ProgramFacts DEF RegisterInv, SchedInv, NoStore
  <2>2. Cardinality(UnfinishedStores(k)) \in Nat
    BY WaitersFinite DEF RegisterInv
  <2>3. UnfinishedStores(k)' = UnfinishedStores(k)
    BY <1>4
  <2> QED BY <2>1, <2>2, <2>3
<1> QED BY <1>2, <1>3, <1>4, <1>5, AccountingFinish

\* Only stores that are finished leave the queue.
LEMMA DrainedIsFinished ==
  ASSUME RegisterInv, WaitersLive, CompleteStore
  PROVE  SQ[1].fetch_issued
<1>1. Head(SQ) = SQ[1] /\ 1 \in DOMAIN SQ /\ \A i \in ROB : SQ[1].id < i
  BY CompleteStoreQueues DEF CompleteStore, HasRetired, RegisterInv
<1>2. SUFFICES ASSUME ~SQ[1].fetch_issued PROVE FALSE
  OBVIOUS
<1>3. SQ[1].id \in ROB
  BY <1>1, <1>2 DEF WaitersLive, UnfinishedStores
<1>4. SQ[1].id \in Nat
  BY <1>1, QueueFacts DEF RegisterInv
<1> QED BY <1>1, <1>3, <1>4

LEMMA CompleteStoreAccounting ==
  ASSUME RegisterInv, Accounting, CompleteStore
  PROVE  Accounting'
<1>1. /\ UNCHANGED <<prog, rob, LQ>>
      /\ DOMAIN SQ \subseteq Nat
      /\ \A j \in DOMAIN SQ' : j \in Nat /\ j + 1 \in DOMAIN SQ /\ SQ'[j] = SQ[j + 1]
      /\ \A k \in DOMAIN SQ : k # 1 => k - 1 \in DOMAIN SQ' /\ SQ'[k - 1] = SQ[k]
  BY CompleteStoreQueues, QueueFacts DEF CompleteStore, RegisterInv
<1>2. SQ[1].fetch_issued
  BY DrainedIsFinished DEF Accounting
<1>3. ROB' = ROB
  BY <1>1 DEF ROB
<1>4. \A i : WaitingLoads(i)' = WaitingLoads(i)
  BY <1>1 DEF WaitingLoads
<1>5. ASSUME NEW i
      PROVE  /\ UnfinishedStores(i)' # {} => UnfinishedStores(i) # {}
             /\ Cardinality(UnfinishedStores(i))' = Cardinality(UnfinishedStores(i))
  <2>1. \A j \in UnfinishedStores(i)' : j \in Nat /\ j + 1 \in UnfinishedStores(i)
    BY <1>1 DEF UnfinishedStores
  <2>2. \A k \in UnfinishedStores(i) : k \in Nat /\ k # 1 /\ k - 1 \in UnfinishedStores(i)'
    BY <1>1, <1>2 DEF UnfinishedStores
  <2> DEFINE S == UnfinishedStores(i)
             f == [k \in S |-> k - 1]
  <2>3. PICK T : T = UnfinishedStores(i)'
    OBVIOUS
  <2>4. /\ \A j \in T : j \in Nat /\ j + 1 \in S
        /\ \A k \in S : k \in Nat /\ k - 1 \in T
    BY <2>1, <2>2, <2>3
  <2> HIDE DEF S
  <2>5. \A j \in T : f[j + 1] = j
    BY <2>4
  <2>6. f \in [S -> T] /\ \A k, l \in S : f[k] = f[l] => k = l
    BY <2>4
  <2>7. f \in Bijection(S, T)
    <3>1. \A j \in T : \E k \in S : f[k] = j
      BY <2>4, <2>5
    <3> HIDE DEF f
    <3> QED BY <2>6, <3>1 DEF Bijection, Injection, Surjection, IsInjective
  <2>8. ExistsBijection(S, T)
    BY <2>7 DEF ExistsBijection
  <2>9. IsFiniteSet(S)
    BY WaitersFinite DEF RegisterInv, S
  <2>10. Cardinality(T) = Cardinality(S)
    BY <2>8, <2>9, FS_Bijection
  <2> QED BY <2>1, <2>3, <2>10 DEF S
<1>6. WaitersLive'
  <2>1. WaitersLive
    BY DEF Accounting
  <2>2. \A i : i # 0 /\ WaitingLoads(i)' # {} => i \in ROB'
    BY <1>3, <1>4, <2>1 DEF WaitersLive
  <2>3. \A i : UnfinishedStores(i)' # {} => i \in ROB'
    BY <1>3, <1>5, <2>1 DEF WaitersLive
  <2> QED BY <2>2, <2>3 DEF WaitersLive
<1>7. CompletedHasNone'
  <2>1. \A i \in ROB' : rob'[i].executed = "COMPLETED" =>
          WaitingLoads(i)' = {} /\ UnfinishedStores(i)' = {}
    BY <1>1, <1>3, <1>4, <1>5 DEF Accounting, CompletedHasNone
  <2> QED BY <2>1 DEF CompletedHasNone
<1>8. ASSUME NEW i \in ROB'
      PROVE  NumMemOps(prog'[i]) = rob'[i].completed_mem_ops + Cardinality(WaitingLoads(i))'
                                     + Cardinality(UnfinishedStores(i))'
  <2>1. NumMemOps(prog[i]) = rob[i].completed_mem_ops + Cardinality(WaitingLoads(i))
                               + Cardinality(UnfinishedStores(i))
    BY <1>3, Conserved DEF Accounting
  <2>2. /\ WaitingLoads(i)' = WaitingLoads(i)
        /\ Cardinality(UnfinishedStores(i))' = Cardinality(UnfinishedStores(i))
    BY <1>4, <1>5
  <2> QED BY <1>1, <2>1, <2>2
<1>9. MemOpsConserved'
  BY <1>8, ConservedNext
<1> QED BY <1>6, <1>7, <1>9 DEF Accounting

LEMMA ExecuteAccounting ==
  ASSUME RegisterInv, Accounting, NEW i \in ROB, Execute(i)
  PROVE  Accounting'
<1>1. /\ prog' = prog /\ rob' = [rob EXCEPT ![i].executed = "INFLIGHT"]
      /\ rob \in [ROB -> ROBRecord]
  BY DEF Execute, RegisterInv, SchedInv, Program
<1>2. ROB' = ROB
  BY <1>1 DEF ROB
<1>3. /\ \A j \in ROB \ {i} : rob'[j] = rob[j]
      /\ rob'[i] = [rob[i] EXCEPT !.executed = "INFLIGHT"]
  BY <1>1
<1>4. /\ rob'[i].executed = "INFLIGHT"
      /\ \A j \in ROB : rob'[j].completed_mem_ops = rob[j].completed_mem_ops
  BY <1>1, <1>3 DEF ROBRecord
<1>5. \A j \in ROB : rob'[j].executed = "COMPLETED" => rob[j].executed = "COMPLETED"
  BY <1>3, <1>4
<1>6. \A j : WaitingLoads(j)' = WaitingLoads(j) /\ UnfinishedStores(j)' = UnfinishedStores(j)
  BY ExecuteQueues DEF RegisterInv, WaitingLoads, UnfinishedStores
<1> QED BY <1>1, <1>2, <1>4, <1>5, <1>6, AccountingSame

LEMMA SchedulerAccounting ==
  ASSUME RegisterInv, Accounting, NEW i \in ROB, Schedule(i) \/ CompleteExecution(i)
  PROVE  Accounting'
<1>1. UNCHANGED <<prog, LQ, SQ>> /\ rob \in [ROB -> ROBRecord]
  BY DEF Schedule, CompleteExecution, RegisterInv, SchedInv, Program
<1>2. ROB' = ROB
  BY DEF Schedule, CompleteExecution, ROB
<1>3. ASSUME NEW j \in ROB
      PROVE  /\ rob'[j].completed_mem_ops = rob[j].completed_mem_ops
             /\ rob'[j].executed = "COMPLETED" => rob[j].executed = "COMPLETED" \/ MemOpsDone(j)
  <2>1. rob[j] \in ROBRecord
    BY <1>1
  <2>2. CASE Schedule(i)
    <3>1. \E n, d : rob'[j] = [rob[j] EXCEPT !.scheduled = TRUE, !.num_reg_dependent = n]
                    \/ rob'[j] = [rob[j] EXCEPT !.registers_instrs_depend_on_me = d]
                    \/ rob'[j] = rob[j]
      BY <2>2 DEF Schedule
    <3> QED BY <2>1, <3>1 DEF ROBRecord
  <2>3. CASE CompleteExecution(i)
    <3>1. \E n : \/ j = i /\ rob'[j] = [rob[j] EXCEPT !.executed = "COMPLETED"]
                 \/ rob'[j] = [rob[j] EXCEPT !.num_reg_dependent = n]
                 \/ rob'[j] = rob[j]
      BY <2>3 DEF CompleteExecution
    <3>2. MemOpsDone(i)
      BY <2>3 DEF CompleteExecution
    <3> QED BY <2>1, <3>1, <3>2 DEF ROBRecord
  <2> QED BY <2>2, <2>3
<1>4. \A j : WaitingLoads(j)' = WaitingLoads(j) /\ UnfinishedStores(j)' = UnfinishedStores(j)
  BY <1>1 DEF WaitingLoads, UnfinishedStores
<1> QED BY <1>1, <1>2, <1>3, <1>4, AccountingSame

LEMMA AccountingNext ==
  ASSUME RegisterInv, Accounting, [Next]_vars
  PROVE  Accounting'
<1>1. ASSUME NEW ins \in Instrs, Dispatch(ins)
      PROVE  Accounting'
  BY <1>1, DispatchEffect, DispatchAccounting
<1>2. ASSUME NEW i \in ROB, Schedule(i) \/ Execute(i) \/ CompleteExecution(i) \/ Retire(i)
      PROVE  Accounting'
  BY <1>2, SchedulerAccounting, ExecuteAccounting, RetireAccounting
<1>3. ASSUME NEW j \in DOMAIN SQ, FinishStore(j)
      PROVE  Accounting'
  BY <1>3, FinishStoreAccounting
<1>4. ASSUME CompleteStore
      PROVE  Accounting'
  BY <1>4, CompleteStoreAccounting
<1>5. ASSUME UNCHANGED <<prog, rob, SQ>>, \A i : WaitingLoads(i)' = WaitingLoads(i)
      PROVE  Accounting'
  <2>1. ROB' = ROB /\ \A i : UnfinishedStores(i)' = UnfinishedStores(i)
    BY <1>5 DEF ROB, UnfinishedStores
  <2> QED BY <1>5, <2>1, AccountingSame
<1>6. ASSUME NEW s \in Slots, ExecuteLoad(s)
      PROVE  Accounting'
  <2>1. \A t \in Slots : LQ'[t].id = LQ[t].id
    BY <1>6, ExecuteLoadQueues DEF RegisterInv
  <2>2. \A i : WaitingLoads(i)' = WaitingLoads(i)
    BY <2>1 DEF WaitingLoads
  <2> QED BY <1>5, <1>6, <2>2 DEF ExecuteLoad
<1>7. ASSUME NEW b \in Blocks, ReturnData(b)
      PROVE  Accounting'
  BY <1>5, <1>7 DEF ReturnData, WaitingLoads
<1>8. ASSUME HandleMemoryReturn
      PROVE  Accounting'
  BY <1>8, HandleMemoryReturnAccounting
<1>9. ASSUME UNCHANGED vars
      PROVE  Accounting'
  BY <1>5, <1>9 DEF vars, WaitingLoads
<1> QED BY <1>1, <1>2, <1>3, <1>4, <1>6, <1>7, <1>8, <1>9 DEF Next, Lsq, L1d

LEMMA AccountingInductive == Spec => []Accounting
<1>1. Init => Accounting
  BY DEF Init, Accounting, WaitersLive, CompletedHasNone, MemOpsConserved, ROB,
         WaitingLoads, UnfinishedStores, Empty
<1>2. RegisterInv /\ Accounting /\ [Next]_vars => Accounting'
  BY AccountingNext
<1> QED BY <1>1, <1>2, RegisterInductive, PTL DEF Spec

\* The memory operations of a live instruction are each counted once: completed,
\* waiting in the LQ or an unfinished store. It is what lets
\* complete_inflight_instruction wait for a count.
THEOREM OperationsConserved == Spec => []MemOpsConserved
<1>1. Accounting => MemOpsConserved
  BY DEF Accounting
<1> QED BY <1>1, AccountingInductive, PTL

-----------------------------------------------------------------------------
(* Links between stores and the loads that wait for them.                  *)

\* Store j, not finished, refers to the load in slot s.
Link(j, s) == j \in DOMAIN SQ /\ ~SQ[j].fetch_issued /\ s \in SQ[j].lq_depend_on_me

LinkedWait ==
  \A j, s : Link(j, s) =>
    /\ s \in Slots /\ LQ[s] # Empty
    /\ LQ[s].producer_id = SQ[j].id /\ LQ[s].addr = SQ[j].addr

WaitersLinked ==
  \A s \in Slots : LQ[s] # Empty /\ LQ[s].producer_id # NoStore => \E j : Link(j, s)

OneLink == \A j, k, s : Link(j, s) /\ Link(k, s) => j = k

\* The L1D is only asked for loads that wait on no store.
IssuedWaitOnNoStore ==
  \A s \in Slots : LQ[s] # Empty /\ LQ[s].fetch_issued => LQ[s].producer_id = NoStore

LinksInv == LinkedWait /\ WaitersLinked /\ OneLink /\ IssuedWaitOnNoStore

\* Steps that change neither stores nor what loads wait for.
LEMMA LinksSame ==
  ASSUME LinksInv, \A j, s : Link(j, s)' <=> Link(j, s),
         \A j \in DOMAIN SQ : SQ'[j].id = SQ[j].id /\ SQ'[j].addr = SQ[j].addr,
         \A s \in Slots : LQ'[s] = Empty <=> LQ[s] = Empty,
         \A s \in Slots : LQ[s] # Empty =>
           /\ LQ'[s].producer_id = LQ[s].producer_id /\ LQ'[s].addr = LQ[s].addr
           /\ LQ'[s].fetch_issued => LQ[s].fetch_issued \/ LQ[s].producer_id = NoStore
  PROVE  LinksInv'
<1>1. LinkedWait'
  <2>1. ASSUME NEW j, NEW s, Link(j, s)'
        PROVE  /\ s \in Slots /\ LQ'[s] # Empty
               /\ LQ'[s].producer_id = SQ'[j].id /\ LQ'[s].addr = SQ'[j].addr
    <3>1. Link(j, s) /\ j \in DOMAIN SQ
      BY <2>1 DEF Link
    <3>2. /\ s \in Slots /\ LQ[s] # Empty
          /\ LQ[s].producer_id = SQ[j].id /\ LQ[s].addr = SQ[j].addr
      BY <3>1 DEF LinksInv, LinkedWait
    <3> QED BY <3>1, <3>2
  <2> QED BY <2>1 DEF LinkedWait
<1>2. WaitersLinked'
  BY DEF LinksInv, WaitersLinked
<1>3. OneLink'
  BY DEF LinksInv, OneLink
<1>4. IssuedWaitOnNoStore'
  BY DEF LinksInv, IssuedWaitOnNoStore
<1> QED BY <1>1, <1>2, <1>3, <1>4 DEF LinksInv

LEMMA DispatchLinks ==
  ASSUME RegisterInv, LinksInv, NEW ins \in Instrs, NEW from, NEW slot,
         Dispatched(ins, from, slot)
  PROVE  LinksInv'
<1> DEFINE new == Len(prog) + 1
           L == Len(SQ)
           queued == Queued(ins, from)
           Taken(k, j, s) == k \in queued /\ from[k] = j /\ slot[k] = s
<1>1. /\ L \in Nat /\ DOMAIN SQ = 1..L
      /\ Len(ins.stores) \in Nat /\ DOMAIN ins.stores = 1..Len(ins.stores)
  BY QueueFacts, InstrFacts DEF RegisterInv
<1>2. /\ SQ' \in Seq(SQEntry) /\ Len(SQ') = L + Len(ins.stores)
      /\ \A j \in DOMAIN SQ :
           /\ j \in DOMAIN SQ'
           /\ SQ'[j].id = SQ[j].id /\ SQ'[j].addr = SQ[j].addr
           /\ SQ'[j].fetch_issued = SQ[j].fetch_issued
           /\ SQ'[j].lq_depend_on_me = SQ[j].lq_depend_on_me
                   \cup {slot[k] : k \in {l \in queued : from[l] = j}}
      /\ \A m \in DOMAIN ins.stores : SQ'[L + m] = StoreEntry(new, ins.stores[m])
  BY DispatchedStores DEF RegisterInv, SchedInv
<1>3. \A j \in DOMAIN SQ' \ DOMAIN SQ : SQ'[j].lq_depend_on_me = {}
  <2>1. SUFFICES ASSUME NEW j \in DOMAIN SQ' \ DOMAIN SQ
                 PROVE  SQ'[j].lq_depend_on_me = {}
    OBVIOUS
  <2>2. DOMAIN SQ' = 1..(L + Len(ins.stores))
    BY <1>2, LenProperties
  <2> HIDE DEF L
  <2>3. j - L \in DOMAIN ins.stores /\ L + (j - L) = j
    BY <1>1, <2>1, <2>2
  <2>4. SQ'[j] = StoreEntry(new, ins.stores[j - L])
    BY <1>2, <2>3
  <2> QED BY <2>4 DEF StoreEntry
<1>4. ASSUME NEW k \in queued
      PROVE  /\ slot[k] \in Slots /\ LQ[slot[k]] = Empty
             /\ LQ'[slot[k]] = LoadEntry(new, ins.loads[k], Producer(from, k))
             /\ from[k] # 0 => /\ from[k] \in DOMAIN SQ /\ ~SQ[from[k]].fetch_issued
                               /\ SQ[from[k]].addr = ins.loads[k]
  <2>1. /\ slot[k] \in FreeSlots /\ k \in DOMAIN ins.loads
        /\ LQ'[slot[k]] = LoadEntry(new, ins.loads[k], Producer(from, k))
        /\ from[k] # 0 => ~SQ[from[k]].fetch_issued
        /\ ForwardsFrom(ins.loads[k], from[k])
    BY DEF Dispatched, Queued, ServedAtOnce
  <2> QED BY <2>1 DEF FreeSlots, ForwardsFrom
<1>5. \A s \in Slots : (\A k \in queued : slot[k] # s) => LQ'[s] = LQ[s]
  BY DEF Dispatched
<1>6. \A k, l \in queued : slot[k] = slot[l] => k = l
  BY DEF Dispatched
<1> HIDE DEF queued, new, L
<1>7. \A j, s : Link(j, s)' <=>
        Link(j, s) \/ (j \in DOMAIN SQ /\ \E k \in queued : Taken(k, j, s))
  <2>1. ASSUME NEW j, NEW s, j \in DOMAIN SQ
        PROVE  Link(j, s)' <=> Link(j, s) \/ \E k \in queued : Taken(k, j, s)
    <3>1. s \in SQ'[j].lq_depend_on_me <=>
            s \in SQ[j].lq_depend_on_me \/ \E k \in queued : Taken(k, j, s)
      BY <1>2, <2>1
    <3>2. \A k \in queued : Taken(k, j, s) => ~SQ[j].fetch_issued
      <4>1. j # 0
        BY <1>1, <2>1
      <4> QED BY <1>4, <4>1
    <3> QED BY <1>2, <2>1, <3>1, <3>2 DEF Link
  <2>2. ASSUME NEW j, NEW s, j \notin DOMAIN SQ
        PROVE  ~Link(j, s)' /\ ~Link(j, s)
    BY <1>3, <2>2 DEF Link
  <2> QED BY <2>1, <2>2
<1>8. \A j, s : Link(j, s) => s \in Slots /\ LQ[s] # Empty /\ LQ'[s] = LQ[s]
  BY <1>4, <1>5 DEF LinksInv, LinkedWait
<1>9. \A k \in queued : from[k] \in DOMAIN SQ =>
        /\ LQ'[slot[k]] # Empty
        /\ LQ'[slot[k]].producer_id = SQ[from[k]].id
        /\ LQ'[slot[k]].addr = SQ[from[k]].addr
  <2>1. SUFFICES ASSUME NEW k \in queued, from[k] \in DOMAIN SQ
                 PROVE  /\ LQ'[slot[k]] # Empty
                        /\ LQ'[slot[k]].producer_id = SQ[from[k]].id
                        /\ LQ'[slot[k]].addr = SQ[from[k]].addr
    OBVIOUS
  <2>2. from[k] # 0
    BY <1>1, <2>1
  <2>3. LQ'[slot[k]] = LoadEntry(new, ins.loads[k], SQ[from[k]].id) /\ SQ[from[k]].addr = ins.loads[k]
    BY <1>4, <2>2 DEF Producer
  <2>4. \A a, p : LoadEntry(new, a, p) # Empty /\ LoadEntry(new, a, p).producer_id = p
                  /\ LoadEntry(new, a, p).addr = a
    <3>1. new # 0
      BY ProgramFacts DEF RegisterInv, SchedInv, new
    <3> QED BY <3>1 DEF LoadEntry, Empty
  <2> QED BY <2>3, <2>4
<1>10. LinkedWait'
  <2>1. ASSUME NEW j, NEW s, Link(j, s)'
        PROVE  /\ s \in Slots /\ LQ'[s] # Empty
               /\ LQ'[s].producer_id = SQ'[j].id /\ LQ'[s].addr = SQ'[j].addr
    <3>1. CASE Link(j, s)
      <4>1. j \in DOMAIN SQ /\ LQ[s].producer_id = SQ[j].id /\ LQ[s].addr = SQ[j].addr
        BY <3>1 DEF LinksInv, LinkedWait, Link
      <4> QED BY <1>2, <1>8, <3>1, <4>1
    <3>2. CASE j \in DOMAIN SQ /\ \E k \in queued : Taken(k, j, s)
      <4>1. PICK k \in queued : from[k] = j /\ slot[k] = s
        BY <3>2
      <4> QED BY <1>2, <1>4, <1>9, <3>2, <4>1
    <3> QED BY <1>7, <2>1, <3>1, <3>2
  <2> QED BY <2>1 DEF LinkedWait
<1>11. WaitersLinked'
  <2>1. ASSUME NEW s \in Slots, LQ'[s] # Empty, LQ'[s].producer_id # NoStore
        PROVE  \E j : Link(j, s)'
    <3>1. CASE \A k \in queued : slot[k] # s
      <4>1. PICK j : Link(j, s)
        BY <1>5, <2>1, <3>1 DEF LinksInv, WaitersLinked
      <4> QED BY <1>7, <4>1
    <3>2. ASSUME NEW k \in queued, slot[k] = s
          PROVE  \E j : Link(j, s)'
      <4>1. LQ'[s].producer_id = Producer(from, k)
        <5>1. \A a, p : LoadEntry(new, a, p).producer_id = p
          BY DEF LoadEntry
        <5> QED BY <1>4, <3>2, <5>1
      <4>2. from[k] # 0
        BY <2>1, <4>1 DEF Producer
      <4>3. from[k] \in DOMAIN SQ
        BY <1>4, <4>2
      <4>4. Link(from[k], s)'
        BY <1>7, <3>2, <4>3
      <4> QED BY <4>4
    <3> QED BY <3>1, <3>2
  <2> QED BY <2>1 DEF WaitersLinked
<1>12. OneLink'
  <2>1. ASSUME NEW j, NEW l, NEW s, Link(j, s)', Link(l, s)'
        PROVE  j = l
    <3>1. CASE Link(j, s) \/ Link(l, s)
      <4>1. \A k \in queued : slot[k] # s
        BY <1>4, <1>8, <3>1
      <4>2. Link(j, s) /\ Link(l, s)
        BY <1>7, <2>1, <4>1
      <4> QED BY <4>2 DEF LinksInv, OneLink
    <3>2. CASE ~Link(j, s) /\ ~Link(l, s)
      BY <1>6, <1>7, <2>1, <3>2
    <3> QED BY <3>1, <3>2
  <2> QED BY <2>1 DEF OneLink
<1>13. IssuedWaitOnNoStore'
  <2>1. ASSUME NEW s \in Slots, LQ'[s] # Empty, LQ'[s].fetch_issued
        PROVE  LQ'[s].producer_id = NoStore
    <3>1. \A k \in queued : ~LQ'[slot[k]].fetch_issued
      <4>1. \A a, p : ~LoadEntry(new, a, p).fetch_issued
        BY DEF LoadEntry
      <4> QED BY <1>4, <4>1
    <3>2. LQ'[s] = LQ[s]
      BY <1>5, <2>1, <3>1
    <3> QED BY <2>1, <3>2 DEF LinksInv, IssuedWaitOnNoStore
  <2> QED BY <2>1 DEF IssuedWaitOnNoStore
<1> QED BY <1>10, <1>11, <1>12, <1>13 DEF LinksInv

LEMMA FinishStoreLinks ==
  ASSUME RegisterInv, LinksInv, NEW j \in DOMAIN SQ, FinishStore(j)
  PROVE  LinksInv'
<1>1. ~SQ[j].fetch_issued
  BY DEF FinishStore
<1>2. /\ DOMAIN SQ' = DOMAIN SQ /\ SQ'[j].fetch_issued
      /\ \A k \in DOMAIN SQ :
           /\ SQ'[k].id = SQ[k].id /\ SQ'[k].addr = SQ[k].addr
           /\ k # j => SQ'[k].fetch_issued = SQ[k].fetch_issued
           /\ SQ'[k].lq_depend_on_me = SQ[k].lq_depend_on_me
      /\ \A s \in Slots : LQ'[s] = IF s \in SQ[j].lq_depend_on_me THEN Empty ELSE LQ[s]
  BY FinishStoreQueues DEF RegisterInv
<1>3. \A k, s : Link(k, s)' <=> Link(k, s) /\ k # j
  BY <1>2 DEF Link
<1>4. \A s : s \in SQ[j].lq_depend_on_me <=> Link(j, s)
  BY <1>1 DEF Link
<1>5. \A k, s : Link(k, s)' => LQ'[s] = LQ[s] /\ k \in DOMAIN SQ
  BY <1>2, <1>3, <1>4 DEF LinksInv, OneLink, LinkedWait, Link
<1>6. LinkedWait'
  BY <1>2, <1>3, <1>5 DEF LinksInv, LinkedWait
<1>7. WaitersLinked'
  BY <1>2, <1>3, <1>4 DEF LinksInv, WaitersLinked
<1>8. OneLink'
  BY <1>3 DEF LinksInv, OneLink
<1>9. IssuedWaitOnNoStore'
  BY <1>2 DEF LinksInv, IssuedWaitOnNoStore
<1> QED BY <1>6, <1>7, <1>8, <1>9 DEF LinksInv

LEMMA CompleteStoreLinks ==
  ASSUME RegisterInv, WaitersLive, LinksInv, CompleteStore
  PROVE  LinksInv'
<1>1. /\ LQ' = LQ
      /\ DOMAIN SQ \subseteq Nat
      /\ \A j \in DOMAIN SQ' : j \in Nat /\ j + 1 \in DOMAIN SQ /\ SQ'[j] = SQ[j + 1]
      /\ \A k \in DOMAIN SQ : k # 1 => k - 1 \in DOMAIN SQ' /\ SQ'[k - 1] = SQ[k]
  BY CompleteStoreQueues, QueueFacts DEF CompleteStore, RegisterInv
<1>2. SQ[1].fetch_issued
  BY DrainedIsFinished
<1>3. \A j, s : Link(j, s)' => j \in DOMAIN SQ' /\ j \in Nat /\ Link(j + 1, s)
  BY <1>1 DEF Link
<1>4. \A k, s : Link(k, s) => Link(k - 1, s)'
  BY <1>1, <1>2 DEF Link
<1>5. LinkedWait'
  <2>1. ASSUME NEW j, NEW s, Link(j, s)'
        PROVE  /\ s \in Slots /\ LQ'[s] # Empty
               /\ LQ'[s].producer_id = SQ'[j].id /\ LQ'[s].addr = SQ'[j].addr
    <3>1. Link(j + 1, s) /\ SQ'[j] = SQ[j + 1]
      BY <1>1, <1>3, <2>1
    <3> QED BY <1>1, <3>1 DEF LinksInv, LinkedWait
  <2> QED BY <2>1 DEF LinkedWait
<1>6. WaitersLinked'
  BY <1>1, <1>4 DEF LinksInv, WaitersLinked
<1>7. OneLink'
  <2>1. ASSUME NEW j, NEW k, NEW s, Link(j, s)', Link(k, s)'
        PROVE  j = k
    <3>1. j \in Nat /\ k \in Nat /\ j + 1 = k + 1
      BY <1>3, <2>1 DEF LinksInv, OneLink
    <3> QED BY <3>1
  <2> QED BY <2>1 DEF OneLink
<1>8. IssuedWaitOnNoStore'
  BY <1>1 DEF LinksInv, IssuedWaitOnNoStore
<1> QED BY <1>5, <1>6, <1>7, <1>8 DEF LinksInv

LEMMA HandleMemoryReturnLinks ==
  ASSUME RegisterInv, LinksInv, HandleMemoryReturn
  PROVE  LinksInv'
<1> DEFINE served == ServedBy(Head(processed))
<1>1. /\ SQ' = SQ
      /\ \A s \in Slots : LQ'[s] = IF s \in served THEN Empty ELSE LQ[s]
      /\ \A s \in served : s \in Slots /\ LQ[s] # Empty /\ LQ[s].fetch_issued
  BY HandleMemoryReturnQueues DEF HandleMemoryReturn, RegisterInv, ServedBy
<1> HIDE DEF served
<1>2. \A j, s : Link(j, s)' <=> Link(j, s)
  BY <1>1 DEF Link
<1>3. \A j, s : Link(j, s) => s \in Slots /\ s \notin served
  <2>1. SUFFICES ASSUME NEW j, NEW s, Link(j, s), s \in served
                 PROVE  FALSE
    BY DEF LinksInv, LinkedWait
  <2>2. LQ[s].producer_id = NoStore
    BY <1>1, <2>1 DEF LinksInv, IssuedWaitOnNoStore
  <2>3. LQ[s].producer_id = SQ[j].id /\ SQ[j].id # 0
    BY <2>1, QueueFacts DEF LinksInv, LinkedWait, Link, RegisterInv
  <2> QED BY <2>2, <2>3 DEF NoStore
<1>4. LinkedWait'
  BY <1>1, <1>2, <1>3 DEF LinksInv, LinkedWait
<1>5. WaitersLinked'
  BY <1>1, <1>2 DEF LinksInv, WaitersLinked
<1>6. OneLink'
  BY <1>2 DEF LinksInv, OneLink
<1>7. IssuedWaitOnNoStore'
  BY <1>1 DEF LinksInv, IssuedWaitOnNoStore
<1> QED BY <1>4, <1>5, <1>6, <1>7 DEF LinksInv

LEMMA LinksNext ==
  ASSUME RegisterInv, WaitersLive, LinksInv, [Next]_vars
  PROVE  LinksInv'
<1>1. ASSUME NEW ins \in Instrs, Dispatch(ins)
      PROVE  LinksInv'
  BY <1>1, DispatchEffect, DispatchLinks
<1>2. ASSUME UNCHANGED <<LQ, SQ>>
      PROVE  LinksInv'
  BY <1>2, LinksSame DEF Link
<1>3. ASSUME NEW i \in ROB, Schedule(i) \/ CompleteExecution(i) \/ Retire(i)
      PROVE  LinksInv'
  BY <1>2, <1>3 DEF Schedule, CompleteExecution, Retire
<1>4. ASSUME NEW i \in ROB, Execute(i)
      PROVE  LinksInv'
  <2>1. /\ DOMAIN SQ' = DOMAIN SQ
        /\ \A j \in DOMAIN SQ :
              /\ SQ'[j].id = SQ[j].id /\ SQ'[j].addr = SQ[j].addr
              /\ SQ'[j].fetch_issued = SQ[j].fetch_issued
              /\ SQ'[j].lq_depend_on_me = SQ[j].lq_depend_on_me
        /\ \A s \in Slots : LQ'[s] = Empty <=> LQ[s] = Empty
        /\ \A s \in Slots : LQ[s] # Empty =>
              /\ LQ'[s].producer_id = LQ[s].producer_id /\ LQ'[s].addr = LQ[s].addr
              /\ LQ'[s].fetch_issued = LQ[s].fetch_issued
    BY <1>4, ExecuteQueues DEF RegisterInv
  <2>2. \A j, s : Link(j, s)' <=> Link(j, s)
    BY <2>1 DEF Link
  <2> QED BY <2>1, <2>2, LinksSame
<1>5. ASSUME NEW j \in DOMAIN SQ, FinishStore(j)
      PROVE  LinksInv'
  BY <1>5, FinishStoreLinks
<1>6. ASSUME CompleteStore
      PROVE  LinksInv'
  BY <1>6, CompleteStoreLinks
<1>7. ASSUME NEW s \in Slots, ExecuteLoad(s)
      PROVE  LinksInv'
  <2>1. /\ SQ' = SQ
        /\ \A t \in Slots : t # s => LQ'[t] = LQ[t]
        /\ LQ[s] # Empty /\ LQ'[s] # Empty
        /\ LQ'[s].addr = LQ[s].addr
        /\ LQ'[s].producer_id = NoStore /\ LQ[s].producer_id = NoStore
    BY <1>7, ExecuteLoadQueues DEF RegisterInv, ExecuteLoad
  <2>2. \A j, t : Link(j, t)' <=> Link(j, t)
    BY <2>1 DEF Link
  <2> QED BY <2>1, <2>2, LinksSame
<1>8. ASSUME NEW b \in Blocks, ReturnData(b)
      PROVE  LinksInv'
  BY <1>2, <1>8 DEF ReturnData
<1>9. ASSUME HandleMemoryReturn
      PROVE  LinksInv'
  BY <1>9, HandleMemoryReturnLinks
<1>10. ASSUME UNCHANGED vars
      PROVE  LinksInv'
  BY <1>2, <1>10 DEF vars
<1> QED BY <1>1, <1>3, <1>4, <1>5, <1>6, <1>7, <1>8, <1>9, <1>10 DEF Next, Lsq, L1d

LEMMA LinksInductive == Spec => []LinksInv
<1>1. Init => LinksInv
  BY DEF Init, LinksInv, LinkedWait, WaitersLinked, OneLink, IssuedWaitOnNoStore, Link
<1>2. RegisterInv /\ Accounting /\ LinksInv /\ [Next]_vars => LinksInv'
  BY LinksNext DEF Accounting
<1> QED BY <1>1, <1>2, RegisterInductive, AccountingInductive, PTL DEF Spec

\* The asserts of do_finish_store: a slot an unfinished store refers to still holds
\* the load that waits on that store, and a waiting load is referred to.
THEOREM LinksExact == Spec => []ForwardLinksExact
<1>1. LinksInv => ForwardLinksExact
  <2> SUFFICES ASSUME LinksInv PROVE ForwardLinksExact
    OBVIOUS
  <2>1. ASSUME NEW j \in DOMAIN SQ, ~SQ[j].fetch_issued, NEW s \in SQ[j].lq_depend_on_me
        PROVE  LQ[s] # Empty /\ LQ[s].producer_id = SQ[j].id /\ LQ[s].addr = SQ[j].addr
    BY <2>1 DEF LinksInv, LinkedWait, Link
  <2>2. ASSUME NEW s \in Slots, LQ[s] # Empty, LQ[s].producer_id # NoStore
        PROVE  \E j \in DOMAIN SQ : ~SQ[j].fetch_issued /\ SQ[j].id = LQ[s].producer_id
                                    /\ s \in SQ[j].lq_depend_on_me
    <3>1. PICK j : Link(j, s)
      BY <2>2 DEF LinksInv, WaitersLinked
    <3> QED BY <3>1 DEF LinksInv, LinkedWait, Link
  <2> QED BY <2>1, <2>2 DEF ForwardLinksExact
<1> QED BY <1>1, LinksInductive, PTL

-----------------------------------------------------------------------------
(* The order of stores, and what memory holds.                             *)

\* The store queue holds stores of the program in program order.
QueueInOrder ==
  /\ \A j, k \in DOMAIN SQ : j < k => SQ[j].id <= SQ[k].id
  /\ \A j \in DOMAIN SQ : SQ[j].id \in 1..Len(prog) /\ Stores(SQ[j].id, SQ[j].addr)

\* Memory holds stores older than those queued, and all that are not queued are older.
MemoryBehindQueue ==
  \A a \in Addrs :
    /\ memory[a] = NoStore \/ (memory[a] \in 1..Len(prog) /\ Stores(memory[a], a))
    /\ \A j \in DOMAIN SQ : memory[a] <= SQ[j].id
    /\ \A t \in 1..Len(prog) : Stores(t, a) =>
         t <= memory[a] \/ \E j \in DOMAIN SQ : SQ[j].id = t /\ SQ[j].addr = a

OrderInv == QueueInOrder /\ MemoryBehindQueue

LEMMA OrderSame ==
  ASSUME OrderInv, UNCHANGED <<prog, memory>>, DOMAIN SQ' = DOMAIN SQ,
         \A j \in DOMAIN SQ : SQ'[j].id = SQ[j].id /\ SQ'[j].addr = SQ[j].addr
  PROVE  OrderInv'
<1>1. \A t, a : Stores(t, a)' <=> Stores(t, a)
  BY DEF Stores
<1>2. QueueInOrder'
  BY <1>1 DEF OrderInv, QueueInOrder
<1>3. MemoryBehindQueue'
  BY <1>1 DEF OrderInv, MemoryBehindQueue
<1> QED BY <1>2, <1>3 DEF OrderInv

LEMMA DispatchOrder ==
  ASSUME RegisterInv, OrderInv, NEW ins \in Instrs, NEW from, NEW slot,
         Dispatched(ins, from, slot), memory' = memory
  PROVE  OrderInv'
<1>0. PICK P, new : P = Len(prog) /\ new = P + 1
  OBVIOUS
<1> DEFINE L == Len(SQ)
           N == Len(ins.stores)
<1>1. /\ P \in Nat /\ L \in Nat /\ DOMAIN SQ = 1..L
      /\ N \in Nat /\ DOMAIN ins.stores = 1..N
      /\ \A j \in DOMAIN SQ : SQ[j].id \in Nat
      /\ \A a \in Addrs : memory[a] \in Nat
  <2>1. memory \in [Addrs -> Ids \cup {NoStore}] /\ Ids \cup {NoStore} \subseteq Nat
    BY SizesAssumption DEF RegisterInv, QueuesTyped, Ids, NoStore
  <2> QED BY <1>0, <2>1, QueueFacts, InstrFacts, ProgramFacts DEF RegisterInv, SchedInv
<1>2. /\ SQ' \in Seq(SQEntry) /\ Len(SQ') = L + N
      /\ \A j \in DOMAIN SQ : /\ j \in DOMAIN SQ'
                              /\ SQ'[j].id = SQ[j].id /\ SQ'[j].addr = SQ[j].addr
      /\ \A m \in DOMAIN ins.stores :
           L + m \in DOMAIN SQ' /\ SQ'[L + m] = StoreEntry(new, ins.stores[m])
  BY <1>0, DispatchedStores DEF RegisterInv, SchedInv
<1>3. DOMAIN SQ' = 1..(L + N)
  BY <1>2, LenProperties
<1>4. /\ Len(prog') = new /\ prog'[new] = ins
      /\ \A t \in 1..P : \A a : Stores(t, a)' <=> Stores(t, a)
  BY <1>0, DispatchProgram DEF RegisterInv, SchedInv, Dispatched
<1>5. \A a : Stores(new, a)' <=> \E m \in DOMAIN ins.stores : ins.stores[m] = a
  <2>1. \A i, a : Stores(i, a)' <=> \E m \in DOMAIN prog'[i].stores : prog'[i].stores[m] = a
    BY DEF Stores
  <2> QED BY <1>4, <2>1
<1>6. \A a : StoreEntry(new, a).id = new /\ StoreEntry(new, a).addr = a
  BY DEF StoreEntry
<1> HIDE DEF L, N
<1>7. new = P + 1 /\ new \in Nat
  BY <1>0, <1>1
<1>8. \A j \in DOMAIN SQ' \ DOMAIN SQ : \E m \in DOMAIN ins.stores :
        /\ j = L + m /\ SQ'[j].id = new /\ SQ'[j].addr = ins.stores[m]
  <2>1. SUFFICES ASSUME NEW j \in DOMAIN SQ' \ DOMAIN SQ
                 PROVE  \E m \in DOMAIN ins.stores :
                          j = L + m /\ SQ'[j].id = new /\ SQ'[j].addr = ins.stores[m]
    OBVIOUS
  <2>2. j - L \in DOMAIN ins.stores /\ j = L + (j - L)
    BY <1>1, <1>3, <2>1
  <2> QED BY <1>2, <1>6, <2>2
<1>9. \A j \in DOMAIN SQ : SQ[j].id \in 1..P /\ Stores(SQ[j].id, SQ[j].addr)
  BY <1>0 DEF OrderInv, QueueInOrder
<1>10. QueueInOrder'
  <2>1. ASSUME NEW j \in DOMAIN SQ', NEW k \in DOMAIN SQ', j < k
        PROVE  SQ'[j].id <= SQ'[k].id
    <3>1. CASE k \in DOMAIN SQ
      <4>1. j \in DOMAIN SQ
        BY <1>1, <1>3, <2>1, <3>1
      <4> QED BY <1>2, <2>1, <3>1, <4>1 DEF OrderInv, QueueInOrder
    <3>2. CASE k \notin DOMAIN SQ
      <4>1. SQ'[k].id = new
        BY <1>8, <3>2
      <4>2. SQ'[j].id = new \/ SQ'[j].id \in 1..P
        BY <1>2, <1>8, <1>9
      <4> QED BY <1>1, <1>7, <4>1, <4>2
    <3> QED BY <3>1, <3>2
  <2>2. ASSUME NEW j \in DOMAIN SQ', NEW i, NEW a, i = SQ'[j].id, a = SQ'[j].addr
        PROVE  i \in 1..new /\ Stores(i, a)'
    <3>1. CASE j \in DOMAIN SQ
      <4>1. i \in 1..P /\ Stores(i, a)
        BY <1>2, <1>9, <2>2, <3>1
      <4> QED BY <1>1, <1>4, <1>7, <4>1
    <3>2. CASE j \notin DOMAIN SQ
      <4>1. i = new /\ \E m \in DOMAIN ins.stores : a = ins.stores[m]
        BY <1>8, <2>2, <3>2
      <4>2. Stores(new, a)'
        BY <1>5, <4>1
      <4>3. new \in 1..new
        BY <1>1, <1>7
      <4> QED BY <4>1, <4>2, <4>3
    <3> QED BY <3>1, <3>2
  <2> QED BY <1>4, <2>1, <2>2 DEF QueueInOrder, Stores
<1>11. MemoryBehindQueue'
  <2>1. SUFFICES ASSUME NEW a \in Addrs
                 PROVE  /\ memory[a] = NoStore \/ (memory[a] \in 1..new /\ Stores(memory[a], a)')
                        /\ \A j \in DOMAIN SQ' : memory[a] <= SQ'[j].id
                        /\ \A t \in 1..new : Stores(t, a)' =>
                             t <= memory[a] \/ \E j \in DOMAIN SQ' : SQ'[j].id = t /\ SQ'[j].addr = a
    BY <1>4 DEF MemoryBehindQueue
  <2>2. /\ memory[a] = NoStore \/ (memory[a] \in 1..P /\ Stores(memory[a], a))
        /\ \A j \in DOMAIN SQ : memory[a] <= SQ[j].id
        /\ \A t \in 1..P : Stores(t, a) =>
             t <= memory[a] \/ \E j \in DOMAIN SQ : SQ[j].id = t /\ SQ[j].addr = a
    BY <1>0 DEF OrderInv, MemoryBehindQueue
  <2>3. memory[a] = NoStore \/ (memory[a] \in 1..new /\ Stores(memory[a], a)')
    BY <1>1, <1>4, <1>7, <2>2
  <2>4. ASSUME NEW j \in DOMAIN SQ'
        PROVE  memory[a] <= SQ'[j].id
    <3>1. memory[a] <= new
      BY <1>1, <1>7, <2>2 DEF NoStore
    <3> QED BY <1>2, <1>8, <2>2, <3>1
  <2>5. ASSUME NEW t \in 1..new, Stores(t, a)'
        PROVE  t <= memory[a] \/ \E j \in DOMAIN SQ' : SQ'[j].id = t /\ SQ'[j].addr = a
    <3>1. CASE t \in 1..P
      BY <1>2, <1>4, <2>2, <2>5, <3>1
    <3>2. CASE t = new
      <4>1. PICK m \in DOMAIN ins.stores : ins.stores[m] = a
        BY <1>5, <2>5, <3>2
      <4>2. L + m \in DOMAIN SQ' /\ SQ'[L + m].id = t /\ SQ'[L + m].addr = a
        BY <1>2, <1>6, <3>2, <4>1
      <4> QED BY <4>2
    <3> QED BY <1>1, <1>7, <3>1, <3>2
  <2> QED BY <2>3, <2>4, <2>5
<1> QED BY <1>10, <1>11 DEF OrderInv

LEMMA CompleteStoreOrder ==
  ASSUME RegisterInv, OrderInv, CompleteStore
  PROVE  OrderInv'
<1>1. /\ prog' = prog /\ 1 \in DOMAIN SQ /\ DOMAIN SQ \subseteq Nat
      /\ \A j \in DOMAIN SQ' : j \in Nat /\ 1 < j + 1 /\ j + 1 \in DOMAIN SQ /\ SQ'[j] = SQ[j + 1]
      /\ \A k \in DOMAIN SQ : k # 1 => k - 1 \in DOMAIN SQ' /\ SQ'[k - 1] = SQ[k]
      /\ \A a \in Addrs : memory'[a] = IF a = SQ[1].addr THEN SQ[1].id ELSE memory[a]
  BY CompleteStoreQueues, QueueFacts DEF CompleteStore, RegisterInv
<1>2. \A t, a : Stores(t, a)' <=> Stores(t, a)
  BY <1>1 DEF Stores
<1>3. QueueInOrder'
  <2>1. QueueInOrder
    BY DEF OrderInv
  <2>2. ASSUME NEW j \in DOMAIN SQ', NEW k \in DOMAIN SQ', j < k
        PROVE  SQ'[j].id <= SQ'[k].id
    <3>1. j + 1 < k + 1 /\ j + 1 \in DOMAIN SQ /\ k + 1 \in DOMAIN SQ
      BY <1>1, <2>2
    <3> QED BY <1>1, <2>1, <3>1 DEF QueueInOrder
  <2>3. \A j \in DOMAIN SQ' : SQ'[j].id \in 1..Len(prog) /\ Stores(SQ'[j].id, SQ'[j].addr)
    BY <1>1, <2>1 DEF QueueInOrder
  <2> QED BY <1>1, <1>2, <2>2, <2>3 DEF QueueInOrder
<1>4. MemoryBehindQueue'
  <2>1. SUFFICES ASSUME NEW a \in Addrs
                 PROVE  /\ memory'[a] = NoStore \/ (memory'[a] \in 1..Len(prog) /\ Stores(memory'[a], a))
                        /\ \A j \in DOMAIN SQ' : memory'[a] <= SQ'[j].id
                        /\ \A t \in 1..Len(prog) : Stores(t, a) =>
                             t <= memory'[a] \/ \E j \in DOMAIN SQ' : SQ'[j].id = t /\ SQ'[j].addr = a
    BY <1>1, <1>2 DEF MemoryBehindQueue
  <2>2. /\ memory[a] = NoStore \/ (memory[a] \in 1..Len(prog) /\ Stores(memory[a], a))
        /\ \A j \in DOMAIN SQ : memory[a] <= SQ[j].id
        /\ \A t \in 1..Len(prog) : Stores(t, a) =>
             t <= memory[a] \/ \E j \in DOMAIN SQ : SQ[j].id = t /\ SQ[j].addr = a
    BY DEF OrderInv, MemoryBehindQueue
  <2>3. memory'[a] = NoStore \/ (memory'[a] \in 1..Len(prog) /\ Stores(memory'[a], a))
    BY <1>1, <2>2 DEF OrderInv, QueueInOrder
  <2>4. \A j \in DOMAIN SQ' : memory'[a] <= SQ'[j].id
    BY <1>1, <2>2 DEF OrderInv, QueueInOrder
  <2>5. memory[a] <= memory'[a] /\ memory[a] \in Nat /\ memory'[a] \in Nat
    <3>1. memory[a] \in Nat
      BY SizesAssumption DEF RegisterInv, QueuesTyped, Ids, NoStore
    <3>2. SQ[1].id \in Nat
      BY <1>1, QueueFacts DEF RegisterInv
    <3> QED BY <1>1, <2>2, <3>1, <3>2
  <2>6. ASSUME NEW t \in 1..Len(prog), Stores(t, a)
        PROVE  t <= memory'[a] \/ \E j \in DOMAIN SQ' : SQ'[j].id = t /\ SQ'[j].addr = a
    <3>1. CASE t <= memory[a]
      <4>1. t \in Int
        OBVIOUS
      <4> QED BY <2>5, <3>1, <4>1
    <3>2. CASE SQ[1].id = t /\ SQ[1].addr = a
      <4>1. memory'[a] = t /\ t \in Int
        BY <1>1, <3>2
      <4> QED BY <4>1
    <3>3. ASSUME NEW j \in DOMAIN SQ, j # 1, SQ[j].id = t, SQ[j].addr = a
          PROVE  \E k \in DOMAIN SQ' : SQ'[k].id = t /\ SQ'[k].addr = a
      BY <1>1, <3>3
    <3> QED BY <2>2, <2>6, <3>1, <3>2, <3>3
  <2> QED BY <2>3, <2>4, <2>6
<1> QED BY <1>3, <1>4 DEF OrderInv

LEMMA OrderNext ==
  ASSUME RegisterInv, OrderInv, [Next]_vars
  PROVE  OrderInv'
<1>1. ASSUME NEW ins \in Instrs, Dispatch(ins)
      PROVE  OrderInv'
  <2>1. PICK from, slot : Dispatched(ins, from, slot)
    BY <1>1, DispatchEffect
  <2>2. memory' = memory
    BY <1>1 DEF Dispatch
  <2> QED BY <2>1, <2>2, DispatchOrder
<1>2. ASSUME UNCHANGED <<prog, memory, SQ>>
      PROVE  OrderInv'
  BY <1>2, OrderSame
<1>3. ASSUME NEW i \in ROB, Schedule(i) \/ CompleteExecution(i) \/ Retire(i)
      PROVE  OrderInv'
  BY <1>2, <1>3 DEF Schedule, CompleteExecution, Retire
<1>4. ASSUME NEW i \in ROB, Execute(i)
      PROVE  OrderInv'
  <2>1. UNCHANGED <<prog, memory>>
    BY <1>4 DEF Execute
  <2> QED BY <1>4, <2>1, ExecuteQueues, OrderSame DEF RegisterInv
<1>5. ASSUME NEW j \in DOMAIN SQ, FinishStore(j)
      PROVE  OrderInv'
  <2>1. UNCHANGED <<prog, memory>>
    BY <1>5 DEF FinishStore
  <2> QED BY <1>5, <2>1, FinishStoreQueues, OrderSame DEF RegisterInv
<1>6. ASSUME CompleteStore
      PROVE  OrderInv'
  BY <1>6, CompleteStoreOrder
<1>7. ASSUME NEW s \in Slots, ExecuteLoad(s)
      PROVE  OrderInv'
  BY <1>2, <1>7 DEF ExecuteLoad
<1>8. ASSUME NEW b \in Blocks, ReturnData(b)
      PROVE  OrderInv'
  BY <1>2, <1>8 DEF ReturnData
<1>9. ASSUME HandleMemoryReturn
      PROVE  OrderInv'
  BY <1>2, <1>9 DEF HandleMemoryReturn
<1>10. ASSUME UNCHANGED vars
      PROVE  OrderInv'
  BY <1>2, <1>10 DEF vars
<1> QED BY <1>1, <1>3, <1>4, <1>5, <1>6, <1>7, <1>8, <1>9, <1>10 DEF Next, Lsq, L1d

LEMMA OrderInductive == Spec => []OrderInv
<1>1. Init => OrderInv
  <2> SUFFICES ASSUME Init PROVE OrderInv
    OBVIOUS
  <2>1. prog = <<>> /\ SQ = <<>> /\ \A a \in Addrs : memory[a] = NoStore
    BY DEF Init
  <2>2. 1..Len(prog) = {} /\ DOMAIN SQ = {}
    BY <2>1
  <2> QED BY <2>1, <2>2 DEF OrderInv, QueueInOrder, MemoryBehindQueue
<1>2. RegisterInv /\ OrderInv /\ [Next]_vars => OrderInv'
  BY OrderNext
<1> QED BY <1>1, <1>2, RegisterInductive, PTL DEF Spec

\* Stores reach the L1D in program order, each finished and its instruction retired,
\* though do_complete_store checks neither that the store is finished nor the order.
THEOREM DrainInOrder == Spec => StoresDrainInOrder
<1>1. RegisterInv /\ Accounting /\ OrderInv /\ [Next]_vars =>
        [SQ # <<>> /\ memory' # memory =>
           /\ Head(SQ).fetch_issued
           /\ \A a \in Addrs : memory[a] <= Head(SQ).id]_vars
  <2> SUFFICES ASSUME RegisterInv, Accounting, OrderInv, [Next]_vars, memory' # memory
               PROVE  /\ Head(SQ).fetch_issued
                      /\ \A a \in Addrs : memory[a] <= Head(SQ).id
    OBVIOUS
  <2>1. CompleteStore
    BY DEF Next, Lsq, L1d, Dispatch, Schedule, Execute, CompleteExecution, Retire, FinishStore,
           ExecuteLoad, ReturnData, HandleMemoryReturn, vars
  <2>2. Head(SQ) = SQ[1] /\ 1 \in DOMAIN SQ
    BY <2>1, CompleteStoreQueues DEF RegisterInv
  <2>3. SQ[1].fetch_issued
    BY <2>1, DrainedIsFinished DEF Accounting
  <2> QED BY <2>2, <2>3 DEF OrderInv, MemoryBehindQueue
<1> QED BY <1>1, RegisterInductive, AccountingInductive, OrderInductive, PTL
        DEF Spec, StoresDrainInOrder

-----------------------------------------------------------------------------
(* What loads read.                                                        *)

Performs(i, a) == \E k \in DOMAIN prog[i].loads : prog[i].loads[k] = a

\* The load e reads from the latest store when its store finishes, or from memory now.
ReadsRight(e) ==
  /\ e.id \in 1..Len(prog) /\ Performs(e.id, e.addr)
  /\ e.producer_id # NoStore => LatestStore(e.id, e.addr, e.producer_id)
  /\ e.producer_id = NoStore /\ ~e.fetch_issued => LatestStore(e.id, e.addr, memory[e.addr])

WaitingReadRight == \A s \in Slots : \A e : e = LQ[s] /\ e # Empty => ReadsRight(e)

ObservedRight ==
  \A o \in observed :
    /\ o \in Ids \X Addrs \X (Ids \cup {NoStore})
    /\ o[1] \in 1..Len(prog) /\ Performs(o[1], o[2])
    /\ LatestStore(o[1], o[2], o[3])

Pending(i, a) == \E s \in Slots : LQ[s].id = i /\ LQ[s].addr = a /\ ~LQ[s].fetch_issued
Observed(i, a) == \E s : <<i, a, s>> \in observed

\* No load is lost.
NoLoadLost ==
  \A i \in 1..Len(prog) : \A a \in Addrs : Performs(i, a) => Pending(i, a) \/ Observed(i, a)

LoadsInv == WaitingReadRight /\ ObservedRight /\ NoLoadLost

\* The latest store to a in the program so far.
NewestStore(a, s) ==
  /\ s = NoStore \/ (s \in 1..Len(prog) /\ Stores(s, a))
  /\ \A t \in (s + 1)..Len(prog) : ~Stores(t, a)

\* What do_memory_scheduling finds, or else what memory holds, is the latest store.
LEMMA FoundIsNewest ==
  ASSUME RegisterInv, OrderInv, NEW a \in Addrs, NEW j, ForwardsFrom(a, j)
  PROVE  /\ j = 0 => NewestStore(a, memory[a])
         /\ j # 0 => NewestStore(a, SQ[j].id) /\ j \in DOMAIN SQ
<1>1. /\ memory[a] = NoStore \/ (memory[a] \in 1..Len(prog) /\ Stores(memory[a], a))
      /\ \A k \in DOMAIN SQ : memory[a] <= SQ[k].id
      /\ \A t \in 1..Len(prog) : Stores(t, a) =>
           t <= memory[a] \/ \E k \in DOMAIN SQ : SQ[k].id = t /\ SQ[k].addr = a
  BY DEF OrderInv, MemoryBehindQueue
<1>2. /\ \A k \in DOMAIN SQ : SQ[k].id \in Nat
      /\ memory[a] \in Nat
  <2>1. memory[a] \in Nat
    BY SizesAssumption DEF RegisterInv, QueuesTyped, Ids, NoStore
  <2> QED BY <2>1, QueueFacts DEF RegisterInv
<1>3. Len(prog) \in Nat
  BY ProgramFacts DEF RegisterInv, SchedInv
<1>4. ASSUME j = 0
      PROVE  NewestStore(a, memory[a])
  <2>1. \A k \in DOMAIN SQ : SQ[k].addr # a
    BY <1>4, QueueFacts DEF ForwardsFrom, RegisterInv
  <2>2. ASSUME NEW t \in (memory[a] + 1)..Len(prog)
        PROVE  ~Stores(t, a)
    <3>1. t \in 1..Len(prog) /\ ~(t <= memory[a])
      BY <1>2, <1>3, <2>2
    <3> QED BY <1>1, <2>1, <3>1
  <2> QED BY <1>1, <2>2 DEF NewestStore
<1>5. ASSUME j # 0
      PROVE  NewestStore(a, SQ[j].id) /\ j \in DOMAIN SQ
  <2>1. /\ j \in DOMAIN SQ /\ SQ[j].addr = a
        /\ \A k \in DOMAIN SQ : SQ[k].addr = a => SQ[k].id <= SQ[j].id
    <3>1. j \in DOMAIN SQ /\ SQ[j].addr = a
      BY <1>5 DEF ForwardsFrom
    <3>2. ASSUME NEW k \in DOMAIN SQ, SQ[k].addr = a
          PROVE  SQ[k].id <= SQ[j].id
      <4>1. SQ[k].id < SQ[j].id \/ SQ[k].id = SQ[j].id
        BY <1>5, <3>2 DEF ForwardsFrom
      <4> QED BY <1>2, <3>1, <4>1
    <3> QED BY <3>1, <3>2
  <2>2. SQ[j].id \in 1..Len(prog) /\ Stores(SQ[j].id, a)
    BY <2>1 DEF OrderInv, QueueInOrder
  <2>3. ASSUME NEW t \in (SQ[j].id + 1)..Len(prog)
        PROVE  ~Stores(t, a)
    <3>1. t \in 1..Len(prog) /\ ~(t <= SQ[j].id) /\ ~(t <= memory[a])
      BY <1>1, <1>2, <1>3, <2>1, <2>3
    <3> QED BY <1>1, <2>1, <3>1
  <2> QED BY <2>1, <2>2, <2>3 DEF NewestStore
<1> QED BY <1>4, <1>5

LEMMA DispatchReads ==
  ASSUME Program, NEW ins \in Instrs, prog' = Append(prog, ins),
         NEW new, new = Len(prog) + 1
  PROVE  /\ Len(prog') = new /\ Len(prog) \in Nat
         /\ \A i \in 1..Len(prog) : \A a : Performs(i, a)' <=> Performs(i, a)
         /\ \A a : Performs(new, a)' <=> \E k \in DOMAIN ins.loads : ins.loads[k] = a
         /\ \A i \in 1..Len(prog) : \A a, s : LatestStore(i, a, s) => LatestStore(i, a, s)'
         /\ \A a, s : NewestStore(a, s) /\ s \in Nat => LatestStore(new, a, s)'
<1> DEFINE L == Len(prog)
<1>1. /\ Len(prog') = new /\ prog'[new] = ins /\ L \in Nat
      /\ \A i \in 1..L : prog'[i] = prog[i]
      /\ \A i \in 1..L : \A a : Stores(i, a)' <=> Stores(i, a)
  BY DispatchProgram, ProgramFacts
<1>2. /\ \A i \in 1..L : \A a : Performs(i, a)' <=> Performs(i, a)
      /\ \A a : Performs(new, a)' <=> \E k \in DOMAIN ins.loads : ins.loads[k] = a
  BY <1>1 DEF Performs
<1>3. new = L + 1
  OBVIOUS
<1> HIDE DEF L
<1>4. ASSUME NEW i \in 1..L, NEW a, NEW s, LatestStore(i, a, s)
      PROVE  LatestStore(i, a, s)'
  <2>1. s = NoStore \/ (s \in 1..(i - 1) /\ s \in 1..L /\ Stores(s, a))
    BY <1>1, <1>4 DEF LatestStore
  <2>2. s \in Nat
    BY <2>1 DEF NoStore
  <2>3. ASSUME NEW t \in (s + 1)..(i - 1)
        PROVE  ~Stores(t, a)'
    <3>1. t \in 1..L
      BY <1>1, <2>2, <2>3
    <3> QED BY <1>1, <1>4, <3>1 DEF LatestStore
  <2>4. s = NoStore \/ (s \in 1..(i - 1) /\ Stores(s, a)')
    BY <1>1, <2>1
  <2> QED BY <2>3, <2>4 DEF LatestStore
<1>5. ASSUME NEW a, NEW s \in Nat, NewestStore(a, s)
      PROVE  LatestStore(new, a, s)'
  <2>1. s = NoStore \/ (s \in 1..L /\ Stores(s, a))
    BY <1>5 DEF NewestStore, L
  <2>2. \A t \in (s + 1)..L : ~Stores(t, a)
    BY <1>5 DEF NewestStore, L
  <2>3. 1..(new - 1) = 1..L /\ (s + 1)..(new - 1) = (s + 1)..L
    BY <1>1, <1>3
  <2>4. \A t \in (s + 1)..(new - 1) : ~Stores(t, a)'
    BY <1>1, <2>2, <2>3
  <2>5. s = NoStore \/ (s \in 1..(new - 1) /\ Stores(s, a)')
    BY <1>1, <2>1, <2>3
  <2> QED BY <2>4, <2>5 DEF LatestStore
<1> QED BY <1>1, <1>2, <1>4, <1>5 DEF L

LEMMA DispatchLoads ==
  ASSUME RegisterInv, OrderInv, LoadsInv, NEW ins \in Instrs, NEW from, NEW slot,
         Dispatched(ins, from, slot), memory' = memory
  PROVE  LoadsInv'
<1>0. PICK new, P : P = Len(prog) /\ new = P + 1
  OBVIOUS
<1> DEFINE done == ServedAtOnce(ins, from)
           queued == Queued(ins, from)
<1>1. /\ Len(prog') = new /\ P \in Nat
      /\ \A i \in 1..P : \A a : Performs(i, a)' <=> Performs(i, a)
      /\ \A a : Performs(new, a)' <=> \E k \in DOMAIN ins.loads : ins.loads[k] = a
      /\ \A i \in 1..P : \A a, s : LatestStore(i, a, s) => LatestStore(i, a, s)'
      /\ \A a, s : NewestStore(a, s) /\ s \in Nat => LatestStore(new, a, s)'
  BY <1>0, DispatchReads DEF RegisterInv, SchedInv, Dispatched
<1>2. /\ new \in Ids /\ new \in 1..new /\ \A i \in 1..P : i \in 1..new
      /\ \A i \in 1..new : i \in 1..P \/ i = new
  <2>1. MaxInstr \in Nat /\ new <= MaxInstr
    BY <1>0, SizesAssumption DEF Dispatched
  <2> QED BY <1>0, <1>1, <2>1 DEF Ids
<1>3. ASSUME NEW k \in DOMAIN ins.loads
      PROVE  /\ ins.loads[k] \in Addrs
             /\ from[k] = 0 => \A i : i = memory[ins.loads[k]] => LatestStore(new, ins.loads[k], i)'
             /\ from[k] # 0 => /\ \A i : i = SQ[from[k]].id => LatestStore(new, ins.loads[k], i)'
                               /\ SQ[from[k]].id \in Ids /\ SQ[from[k]].id # NoStore
  <2> DEFINE a == ins.loads[k]
  <2>1. a \in Addrs /\ ForwardsFrom(a, from[k])
    BY InstrFacts DEF Dispatched
  <2>2. /\ from[k] = 0 => NewestStore(a, memory[a])
        /\ from[k] # 0 => NewestStore(a, SQ[from[k]].id) /\ from[k] \in DOMAIN SQ
    BY <2>1, FoundIsNewest
  <2>3. memory[a] \in Nat
    BY <2>1, SizesAssumption DEF RegisterInv, QueuesTyped, Ids, NoStore
  <2>4. from[k] # 0 => SQ[from[k]].id \in Nat /\ SQ[from[k]].id \in Ids /\ SQ[from[k]].id # NoStore
    BY <2>2, QueueFacts DEF RegisterInv, SQEntry, NoStore
  <2> QED BY <1>1, <2>1, <2>2, <2>3, <2>4
<1>4. ASSUME NEW e, ReadsRight(e)
      PROVE  ReadsRight(e)'
  <2>1. e.id \in 1..P
    BY <1>0, <1>4 DEF ReadsRight
  <2>2. e.id \in 1..new
    BY <1>2, <2>1
  <2>3. ASSUME e.producer_id = NoStore, ~e.fetch_issued
        PROVE  LatestStore(e.id, e.addr, memory[e.addr])'
    <3>1. PICK m : m = memory[e.addr]
      OBVIOUS
    <3>2. LatestStore(e.id, e.addr, m)'
      BY <1>1, <1>4, <2>1, <2>3, <3>1 DEF ReadsRight
    <3> QED BY <3>1, <3>2 DEF LatestStore
  <2>4. Performs(e.id, e.addr)'
    BY <1>1, <1>4, <2>1 DEF ReadsRight
  <2>5. e.producer_id # NoStore => LatestStore(e.id, e.addr, e.producer_id)'
    BY <1>1, <1>4, <2>1 DEF ReadsRight
  <2> QED BY <1>1, <2>2, <2>3, <2>4, <2>5 DEF ReadsRight
<1>5. ASSUME NEW k \in queued, NEW e, e = LQ'[slot[k]]
      PROVE  /\ ReadsRight(e)'
             /\ slot[k] \in Slots /\ e.id = new /\ e.addr = ins.loads[k] /\ ~e.fetch_issued
  <2>1. k \in DOMAIN ins.loads /\ slot[k] \in Slots
    BY DEF Queued, Dispatched, FreeSlots
  <2>2. PICK a, i : a = ins.loads[k] /\ i = Producer(from, k)
    OBVIOUS
  <2>3. e = LoadEntry(new, a, i)
    BY <1>0, <1>5, <2>2 DEF Dispatched
  <2>4. e.id = new /\ e.addr = a /\ ~e.fetch_issued /\ e.producer_id = i
    BY <2>3 DEF LoadEntry
  <2>5. Performs(new, a)'
    BY <1>1, <2>1, <2>2
  <2>6. i # NoStore => LatestStore(new, a, i)'
    BY <1>3, <2>1, <2>2 DEF Producer
  <2>7. ASSUME i = NoStore
        PROVE  LatestStore(new, a, memory[a])'
    <3>1. from[k] = 0
      BY <1>3, <2>1, <2>2, <2>7 DEF Producer
    <3>2. PICK m : m = memory[a]
      OBVIOUS
    <3>3. LatestStore(new, a, m)'
      BY <1>3, <2>1, <2>2, <3>1, <3>2
    <3> QED BY <3>2, <3>3 DEF LatestStore
  <2> QED BY <1>1, <1>2, <2>1, <2>2, <2>4, <2>5, <2>6, <2>7 DEF ReadsRight
<1>6. \A s \in Slots : (\E k \in queued : slot[k] = s) \/ LQ'[s] = LQ[s]
  BY DEF Dispatched
<1>7. WaitingReadRight'
  <2>1. ASSUME NEW s \in Slots, NEW e, e = LQ'[s], e # Empty
        PROVE  ReadsRight(e)'
    <3>1. CASE \E k \in queued : slot[k] = s
      BY <1>5, <2>1, <3>1
    <3>2. CASE LQ'[s] = LQ[s]
      <4>1. ReadsRight(e)
        BY <2>1, <3>2 DEF LoadsInv, WaitingReadRight
      <4> QED BY <1>4, <4>1
    <3> QED BY <1>6, <3>1, <3>2
  <2> QED BY <2>1 DEF WaitingReadRight
<1>8. observed' = observed \cup {<<new, ins.loads[k], SQ[from[k]].id>> : k \in done}
  BY <1>0 DEF Dispatched
<1>9. \A k \in done : k \in DOMAIN ins.loads /\ from[k] # 0
  BY DEF ServedAtOnce
<1>10. ObservedRight'
  <2>1. ASSUME NEW o \in observed'
        PROVE  /\ o \in Ids \X Addrs \X (Ids \cup {NoStore})
               /\ o[1] \in 1..new /\ Performs(o[1], o[2])'
               /\ LatestStore(o[1], o[2], o[3])'
    <3>1. CASE o \in observed
      <4>1. /\ o \in Ids \X Addrs \X (Ids \cup {NoStore})
            /\ o[1] \in 1..P /\ Performs(o[1], o[2])
            /\ LatestStore(o[1], o[2], o[3])
        BY <1>0, <3>1 DEF LoadsInv, ObservedRight
      <4> QED BY <1>1, <1>2, <4>1
    <3>2. CASE o \in {<<new, ins.loads[k], SQ[from[k]].id>> : k \in done}
      <4>1. PICK k \in done : o = <<new, ins.loads[k], SQ[from[k]].id>>
        BY <3>2
      <4>2. PICK i : i = SQ[from[k]].id
        OBVIOUS
      <4>3. ins.loads[k] \in Addrs /\ i \in Ids /\ LatestStore(new, ins.loads[k], i)'
        BY <1>3, <1>9, <4>1, <4>2
      <4>4. Performs(new, ins.loads[k])'
        BY <1>1, <1>9
      <4> QED BY <1>2, <4>1, <4>2, <4>3, <4>4
    <3> QED BY <1>8, <2>1, <3>1, <3>2
  <2> QED BY <1>1, <2>1 DEF ObservedRight
<1>11. NoLoadLost'
  <2>1. ASSUME NEW i \in 1..new, NEW a \in Addrs, Performs(i, a)'
        PROVE  Pending(i, a)' \/ Observed(i, a)'
    <3>1. CASE i \in 1..P
      <4>1. Pending(i, a) \/ Observed(i, a)
        BY <1>0, <1>1, <2>1, <3>1 DEF LoadsInv, NoLoadLost
      <4>2. ASSUME NEW s \in Slots, LQ[s].id = i, LQ[s].addr = a, ~LQ[s].fetch_issued
            PROVE  Pending(i, a)'
        <5>1. LQ[s] # Empty
          BY <3>1, <4>2 DEF Empty
        <5>2. \A k \in queued : slot[k] # s
          BY <5>1 DEF Dispatched, FreeSlots
        <5>3. LQ'[s] = LQ[s]
          BY <1>6, <5>2
        <5> QED BY <4>2, <5>3 DEF Pending
      <4> QED BY <1>8, <4>1, <4>2 DEF Pending, Observed
    <3>2. CASE i = new
      <4>1. PICK k \in DOMAIN ins.loads : ins.loads[k] = a
        BY <1>1, <2>1, <3>2
      <4>2. CASE k \in done
        <5>1. <<new, a, SQ[from[k]].id>> \in observed'
          BY <1>8, <4>1, <4>2
        <5> QED BY <3>2, <5>1 DEF Observed
      <4>3. CASE k \notin done
        <5>1. k \in queued
          BY <4>3 DEF Queued
        <5>2. slot[k] \in Slots /\ LQ'[slot[k]].id = i /\ LQ'[slot[k]].addr = a /\ ~LQ'[slot[k]].fetch_issued
          BY <1>5, <3>2, <4>1, <5>1
        <5> QED BY <5>2 DEF Pending
      <4> QED BY <4>2, <4>3
    <3> QED BY <1>2, <3>1, <3>2
  <2> QED BY <1>1, <2>1 DEF NoLoadLost
<1> QED BY <1>7, <1>10, <1>11 DEF LoadsInv

\* Steps that bring no load: one that can no longer be served has been observed, and
\* memory does not change under one the L1D will be asked for.
LEMMA LoadsStep ==
  ASSUME LoadsInv, prog' = prog, observed \subseteq observed', ObservedRight',
         \A s \in Slots : LQ'[s] # Empty =>
           /\ LQ[s] # Empty
           /\ LQ'[s].id = LQ[s].id /\ LQ'[s].addr = LQ[s].addr
           /\ LQ'[s].producer_id = LQ[s].producer_id
           /\ LQ[s].fetch_issued => LQ'[s].fetch_issued,
         \A s \in Slots : LQ[s] # Empty /\ ~LQ[s].fetch_issued =>
           \/ LQ'[s] # Empty /\ ~LQ'[s].fetch_issued
           \/ \E src : <<LQ[s].id, LQ[s].addr, src>> \in observed',
         \A s \in Slots : LQ[s] # Empty /\ LQ[s].producer_id = NoStore /\ ~LQ[s].fetch_issued =>
           memory'[LQ[s].addr] = memory[LQ[s].addr]
  PROVE  LoadsInv'
<1>1. /\ \A i, a : Performs(i, a)' <=> Performs(i, a)
      /\ \A i, a, s : LatestStore(i, a, s)' <=> LatestStore(i, a, s)
  BY DEF Performs, LatestStore, Stores
<1>2. ASSUME NEW s \in Slots, NEW e, e = LQ'[s], e # Empty
      PROVE  ReadsRight(e)'
  <2>1. PICK f : f = LQ[s]
    OBVIOUS
  <2>2. /\ f # Empty /\ e.id = f.id /\ e.addr = f.addr /\ e.producer_id = f.producer_id
        /\ f.fetch_issued => e.fetch_issued
    BY <1>2, <2>1
  <2>3. ReadsRight(f)
    BY <2>1, <2>2 DEF LoadsInv, WaitingReadRight
  <2>4. e.id \in 1..Len(prog) /\ Performs(e.id, e.addr)'
    BY <1>1, <2>2, <2>3 DEF ReadsRight
  <2>5. e.producer_id # NoStore => LatestStore(e.id, e.addr, e.producer_id)'
    BY <1>1, <2>2, <2>3 DEF ReadsRight
  <2>6. ASSUME e.producer_id = NoStore, ~e.fetch_issued
        PROVE  LatestStore(e.id, e.addr, memory[e.addr])'
    <3>1. PICK m : m = memory[f.addr]
      OBVIOUS
    <3>2. LatestStore(e.id, e.addr, m)'
      BY <1>1, <2>2, <2>3, <2>6, <3>1 DEF ReadsRight
    <3>3. memory'[e.addr] = m
      BY <2>1, <2>2, <2>6, <3>1
    <3> QED BY <3>2, <3>3 DEF LatestStore
  <2> QED BY <2>4, <2>5, <2>6 DEF ReadsRight
<1>3. WaitingReadRight'
  BY <1>2 DEF WaitingReadRight
<1>4. NoLoadLost'
  <2>1. ASSUME NEW i \in 1..Len(prog), NEW a \in Addrs, Performs(i, a)
        PROVE  Pending(i, a)' \/ Observed(i, a)'
    <3>1. Pending(i, a) \/ Observed(i, a)
      BY <2>1 DEF LoadsInv, NoLoadLost
    <3>2. CASE Observed(i, a)
      BY <3>2 DEF Observed
    <3>3. CASE Pending(i, a)
      <4>1. PICK s \in Slots : LQ[s].id = i /\ LQ[s].addr = a /\ ~LQ[s].fetch_issued
        BY <3>3 DEF Pending
      <4>2. LQ[s] # Empty
        BY <4>1 DEF Empty
      <4>3. CASE LQ'[s] # Empty /\ ~LQ'[s].fetch_issued
        BY <4>1, <4>3 DEF Pending
      <4>4. CASE \E src : <<LQ[s].id, LQ[s].addr, src>> \in observed'
        BY <4>1, <4>4 DEF Observed
      <4> QED BY <4>1, <4>2, <4>3, <4>4
    <3> QED BY <3>1, <3>2, <3>3
  <2> QED BY <1>1, <2>1 DEF NoLoadLost
<1> QED BY <1>3, <1>4 DEF LoadsInv

\* What is observed stays right, and so is what is added of waiting loads.
LEMMA ObservedStep ==
  ASSUME RegisterInv, WaitingReadRight, ObservedRight, prog' = prog,
         \A o \in observed' \ observed : \E s \in Slots : \E src \in Ids \cup {NoStore} :
           /\ LQ[s] # Empty /\ o = <<LQ[s].id, LQ[s].addr, src>>
           /\ LatestStore(LQ[s].id, LQ[s].addr, src)
  PROVE  ObservedRight'
<1>1. /\ \A i, a : Performs(i, a)' <=> Performs(i, a)
      /\ \A i, a, s : LatestStore(i, a, s)' <=> LatestStore(i, a, s)
  BY DEF Performs, LatestStore, Stores
<1>2. ASSUME NEW o \in observed'
      PROVE  /\ o \in Ids \X Addrs \X (Ids \cup {NoStore})
             /\ o[1] \in 1..Len(prog) /\ Performs(o[1], o[2])
             /\ LatestStore(o[1], o[2], o[3])
  <2>1. CASE o \in observed
    BY <2>1 DEF ObservedRight
  <2>2. ASSUME NEW s \in Slots, NEW src \in Ids \cup {NoStore}, LQ[s] # Empty,
               o = <<LQ[s].id, LQ[s].addr, src>>, LatestStore(LQ[s].id, LQ[s].addr, src)
        PROVE  /\ o \in Ids \X Addrs \X (Ids \cup {NoStore})
               /\ o[1] \in 1..Len(prog) /\ Performs(o[1], o[2])
               /\ LatestStore(o[1], o[2], o[3])
    <3>1. LQ[s].id \in Ids /\ LQ[s].addr \in Addrs
      BY <2>2, QueueFacts DEF RegisterInv, LQEntry
    <3>2. LQ[s].id \in 1..Len(prog) /\ Performs(LQ[s].id, LQ[s].addr)
      BY <2>2 DEF WaitingReadRight, ReadsRight
    <3> QED BY <2>2, <3>1, <3>2
  <2> QED BY <1>2, <2>1, <2>2
<1>3. ASSUME NEW o \in observed'
      PROVE  /\ o \in Ids \X Addrs \X (Ids \cup {NoStore})
             /\ o[1] \in 1..Len(prog) /\ Performs(o[1], o[2])'
             /\ LatestStore(o[1], o[2], o[3])'
  BY <1>1, <1>2
<1> QED BY <1>3 DEF ObservedRight

LEMMA FinishStoreLoads ==
  ASSUME RegisterInv, LinksInv, LoadsInv, NEW j \in DOMAIN SQ, FinishStore(j)
  PROVE  LoadsInv'
<1> DEFINE released == SQ[j].lq_depend_on_me
<1>1. /\ ~SQ[j].fetch_issued /\ UNCHANGED <<prog, memory>>
      /\ observed' = observed \cup {<<LQ[s].id, LQ[s].addr, SQ[j].id>> : s \in released}
      /\ \A s \in Slots : LQ'[s] = IF s \in released THEN Empty ELSE LQ[s]
  BY FinishStoreQueues DEF FinishStore, RegisterInv
<1>2. \A s \in released : Link(j, s)
  BY <1>1 DEF Link
<1>3. SQ[j].id \in Ids /\ SQ[j].id # NoStore
  BY QueueFacts DEF RegisterInv, SQEntry, NoStore
<1>4. ASSUME NEW s \in released
      PROVE  /\ s \in Slots /\ LQ[s] # Empty
             /\ LatestStore(LQ[s].id, LQ[s].addr, SQ[j].id)
  <2>1. s \in Slots /\ LQ[s] # Empty /\ LQ[s].producer_id = SQ[j].id
    BY <1>2 DEF LinksInv, LinkedWait
  <2>2. ReadsRight(LQ[s])
    BY <2>1 DEF LoadsInv, WaitingReadRight
  <2> QED BY <1>3, <2>1, <2>2 DEF ReadsRight
<1> HIDE DEF released
<1>5. ObservedRight'
  BY <1>1, <1>3, <1>4, ObservedStep DEF LoadsInv
<1>6. \A s \in Slots : LQ'[s] # Empty => LQ'[s] = LQ[s]
  BY <1>1
<1>7. \A s \in Slots : LQ[s] # Empty /\ ~LQ[s].fetch_issued =>
           \/ LQ'[s] # Empty /\ ~LQ'[s].fetch_issued
           \/ \E src : <<LQ[s].id, LQ[s].addr, src>> \in observed'
  BY <1>1
<1> QED BY <1>1, <1>5, <1>6, <1>7, LoadsStep

LEMMA ExecuteLoadLoads ==
  ASSUME RegisterInv, LoadsInv, NEW s \in Slots, ExecuteLoad(s)
  PROVE  LoadsInv'
<1>1. /\ UNCHANGED <<prog, memory>>
      /\ observed' = observed \cup {<<LQ[s].id, LQ[s].addr, memory[LQ[s].addr]>>}
  BY DEF ExecuteLoad
<1>2. /\ \A t \in Slots : t # s => LQ'[t] = LQ[t]
      /\ LQ[s] # Empty /\ LQ'[s] # Empty
      /\ LQ'[s].id = LQ[s].id /\ LQ'[s].addr = LQ[s].addr
      /\ LQ'[s].fetch_issued /\ ~LQ[s].fetch_issued
      /\ LQ'[s].producer_id = NoStore /\ LQ[s].producer_id = NoStore
  BY ExecuteLoadQueues DEF RegisterInv
<1>3. LatestStore(LQ[s].id, LQ[s].addr, memory[LQ[s].addr])
  <2>1. ReadsRight(LQ[s])
    BY <1>2 DEF LoadsInv, WaitingReadRight
  <2> QED BY <1>2, <2>1 DEF ReadsRight
<1>4. memory[LQ[s].addr] \in Ids \cup {NoStore}
  <2>1. LQ[s].addr \in Addrs
    BY <1>2, QueueFacts DEF RegisterInv, LQEntry
  <2> QED BY <2>1 DEF RegisterInv, QueuesTyped
<1>5. ObservedRight'
  BY <1>1, <1>2, <1>3, <1>4, ObservedStep DEF LoadsInv
<1> QED BY <1>1, <1>2, <1>5, LoadsStep

\* A store that drains is not later than what memory holds for a load that waits to
\* read from there: the load is younger, and memory has its latest store.
LEMMA CompleteStoreLoads ==
  ASSUME RegisterInv, WaitersLive, OrderInv, LoadsInv, CompleteStore
  PROVE  LoadsInv'
<1>1. /\ UNCHANGED <<prog, LQ, observed>>
      /\ 1 \in DOMAIN SQ
      /\ \A i \in ROB : SQ[1].id < i
      /\ \A a \in Addrs : memory'[a] = IF a = SQ[1].addr THEN SQ[1].id ELSE memory[a]
  BY CompleteStoreQueues DEF CompleteStore, HasRetired, RegisterInv
<1>2. SQ[1].id \in 1..Len(prog) /\ Stores(SQ[1].id, SQ[1].addr) /\ SQ[1].id \in Nat
  BY <1>1, QueueFacts DEF OrderInv, QueueInOrder, RegisterInv
<1>3. ObservedRight'
  BY <1>1, ObservedStep DEF LoadsInv
<1>4. ASSUME NEW s \in Slots, LQ[s] # Empty, LQ[s].producer_id = NoStore, ~LQ[s].fetch_issued
      PROVE  memory'[LQ[s].addr] = memory[LQ[s].addr]
  <2> DEFINE a == LQ[s].addr
             i == LQ[s].id
  <2>1. a \in Addrs /\ i \in Nat /\ i # 0 /\ WaitingLoads(i) # {}
    BY <1>4, QueueFacts DEF RegisterInv, LQEntry, WaitingLoads
  <2>2. SQ[1].id < i
    BY <1>1, <2>1 DEF WaitersLive
  <2>3. LatestStore(i, a, memory[a])
    <3>1. ReadsRight(LQ[s])
      BY <1>4 DEF LoadsInv, WaitingReadRight
    <3> QED BY <1>4, <3>1 DEF ReadsRight
  <2>4. memory[a] \in Nat /\ memory[a] <= SQ[1].id
    BY <1>1, <2>1, SizesAssumption DEF RegisterInv, QueuesTyped, OrderInv, MemoryBehindQueue, Ids, NoStore
  <2> HIDE DEF a, i
  <2>5. ASSUME a = SQ[1].addr
        PROVE  SQ[1].id = memory[a]
    <3>1. SQ[1].id \notin (memory[a] + 1)..(i - 1)
      BY <1>2, <2>3, <2>5 DEF LatestStore
    <3> QED BY <1>2, <2>1, <2>2, <2>4, <3>1
  <2>6. memory'[a] = memory[a]
    BY <1>1, <2>1, <2>5
  <2> QED BY <2>6 DEF a
<1> QED BY <1>1, <1>3, <1>4, LoadsStep

LEMMA LoadsNext ==
  ASSUME RegisterInv, WaitersLive, LinksInv, OrderInv, LoadsInv, [Next]_vars
  PROVE  LoadsInv'
<1>1. ASSUME NEW ins \in Instrs, Dispatch(ins)
      PROVE  LoadsInv'
  <2>1. PICK from, slot : Dispatched(ins, from, slot)
    BY <1>1, DispatchEffect
  <2>2. memory' = memory
    BY <1>1 DEF Dispatch
  <2> QED BY <2>1, <2>2, DispatchLoads
<1>2. ASSUME UNCHANGED <<prog, memory, observed, LQ>>
      PROVE  LoadsInv'
  <2>1. ObservedRight'
    BY <1>2, ObservedStep DEF LoadsInv
  <2> QED BY <1>2, <2>1, LoadsStep
<1>3. ASSUME NEW i \in ROB, Schedule(i) \/ CompleteExecution(i) \/ Retire(i)
      PROVE  LoadsInv'
  BY <1>2, <1>3 DEF Schedule, CompleteExecution, Retire
<1>4. ASSUME NEW i \in ROB, Execute(i)
      PROVE  LoadsInv'
  <2>1. UNCHANGED <<prog, memory, observed>>
    BY <1>4 DEF Execute
  <2>2. ObservedRight'
    BY <2>1, ObservedStep DEF LoadsInv
  <2>3. \A s \in Slots :
              /\ LQ'[s].id = LQ[s].id /\ (LQ'[s] = Empty <=> LQ[s] = Empty)
              /\ LQ[s] # Empty => /\ LQ'[s].addr = LQ[s].addr
                                  /\ LQ'[s].fetch_issued = LQ[s].fetch_issued
                                  /\ LQ'[s].producer_id = LQ[s].producer_id
    BY <1>4, ExecuteQueues DEF RegisterInv
  <2> QED BY <2>1, <2>2, <2>3, LoadsStep
<1>5. ASSUME NEW j \in DOMAIN SQ, FinishStore(j)
      PROVE  LoadsInv'
  BY <1>5, FinishStoreLoads
<1>6. ASSUME CompleteStore
      PROVE  LoadsInv'
  BY <1>6, CompleteStoreLoads
<1>7. ASSUME NEW s \in Slots, ExecuteLoad(s)
      PROVE  LoadsInv'
  BY <1>7, ExecuteLoadLoads
<1>8. ASSUME NEW b \in Blocks, ReturnData(b)
      PROVE  LoadsInv'
  BY <1>2, <1>8 DEF ReturnData
<1>9. ASSUME HandleMemoryReturn
      PROVE  LoadsInv'
  <2>1. UNCHANGED <<prog, memory, observed>>
    BY <1>9 DEF HandleMemoryReturn
  <2>2. ObservedRight'
    BY <2>1, ObservedStep DEF LoadsInv
  <2>3. /\ \A s \in Slots : LQ'[s] = IF s \in ServedBy(Head(processed)) THEN Empty ELSE LQ[s]
        /\ \A s \in ServedBy(Head(processed)) : LQ[s].fetch_issued
    BY <1>9, HandleMemoryReturnQueues DEF RegisterInv, ServedBy
  <2> QED BY <2>1, <2>2, <2>3, LoadsStep
<1>10. ASSUME UNCHANGED vars
      PROVE  LoadsInv'
  BY <1>2, <1>10 DEF vars
<1> QED BY <1>1, <1>3, <1>4, <1>5, <1>6, <1>7, <1>8, <1>9, <1>10 DEF Next, Lsq, L1d

LEMMA LoadsInductive == Spec => []LoadsInv
<1>1. Init => LoadsInv
  <2> SUFFICES ASSUME Init PROVE LoadsInv
    OBVIOUS
  <2>1. 1..Len(prog) = {} /\ observed = {} /\ \A s \in Slots : LQ[s] = Empty
    BY DEF Init
  <2> QED BY <2>1 DEF LoadsInv, WaitingReadRight, ObservedRight, NoLoadLost
<1>2. RegisterInv /\ Accounting /\ LinksInv /\ OrderInv /\ LoadsInv /\ [Next]_vars => LoadsInv'
  BY LoadsNext DEF Accounting
<1> QED BY <1>1, <1>2, RegisterInductive, AccountingInductive, LinksInductive, OrderInductive, PTL
        DEF Spec

\* Whatever way a load is served (at dispatch from a finished store, when the store it
\* waits on finishes, or by the L1D), it reads from the program-order latest store to
\* its address.
THEOREM LatestStoreRead == Spec => []LoadsObserveLatestStore
<1>1. LoadsInv => LoadsObserveLatestStore
  BY DEF LoadsInv, ObservedRight, LoadsObserveLatestStore
<1> QED BY <1>1, LoadsInductive, PTL

-----------------------------------------------------------------------------
(***************************************************************************)
(* The out-of-order back end implements the machine of ProgramOrder, and   *)
(* its variables keep their types.                                         *)
(***************************************************************************)

\* The values of ProgramOrder's variables.
Retired == Len(prog) - Cardinality(ROB)
PendingStores == [j \in DOMAIN SQ |-> <<SQ[j].id, SQ[j].addr>>]

\* All that the steps of the refinement rely on.
MachineInv == RegisterInv /\ Accounting /\ LinksInv /\ OrderInv /\ LoadsInv

\* The ROB holds what follows the retired instructions.
LEMMA RetiredBeforeROB ==
  ASSUME Program
  PROVE  /\ Len(prog) \in Nat /\ Retired \in 0..Len(prog)
         /\ ROB = (Retired + 1)..Len(prog)
<1>1. Len(prog) \in Nat
  BY ProgramFacts
<1>2. PICK f \in 0..Len(prog) : ROB = (f + 1)..Len(prog)
  BY DEF Program
<1> DEFINE L == Len(prog)
<1>3. f \in Nat /\ f <= L /\ L \in Nat
  BY <1>1
<1> HIDE DEF L
<1>4. Cardinality((f + 1)..L) = L - f
  <2>1. Cardinality((f + 1)..L) = IF f + 1 > L THEN 0 ELSE L - (f + 1) + 1
    BY <1>3, FS_Interval
  <2> QED BY <1>3, <2>1
<1>5. Retired = f
  <2>1. Retired = L - Cardinality(ROB)
    BY DEF Retired, L
  <2> QED BY <1>2, <1>3, <1>4, <2>1 DEF L
<1> QED BY <1>1, <1>2, <1>5

\* The operators of ProgramOrder say what those of Backend do.
LEMMA SameReads ==
  /\ \A i, a : InProgramOrder!Accesses(prog[i].loads, a) <=> Performs(i, a)
  /\ \A i, a, s : InProgramOrder!ReadsFrom(prog, i, a, s) <=> LatestStore(i, a, s)
BY DEF InProgramOrder!Accesses, InProgramOrder!ReadsFrom, Performs, LatestStore, Stores, NoStore

LEMMA SameReadsNext ==
  /\ \A i, a : InProgramOrder!Accesses(prog'[i].loads, a) <=> Performs(i, a)'
  /\ \A i, a, s : InProgramOrder!ReadsFrom(prog', i, a, s) <=> LatestStore(i, a, s)'
BY DEF InProgramOrder!Accesses, InProgramOrder!ReadsFrom, Performs, LatestStore, Stores, NoStore

LEMMA PendingSame ==
  ASSUME DOMAIN SQ' = DOMAIN SQ,
         \A j \in DOMAIN SQ : SQ'[j].id = SQ[j].id /\ SQ'[j].addr = SQ[j].addr
  PROVE  PendingStores' = PendingStores
BY DEF PendingStores

LEMMA PendingTyped ==
  ASSUME QueuesTyped
  PROVE  /\ PendingStores \in Seq(Ids \X Addrs) /\ Len(PendingStores) = Len(SQ)
         /\ \A j \in DOMAIN SQ : PendingStores[j] = <<SQ[j].id, SQ[j].addr>>
<1>1. Len(SQ) \in Nat /\ DOMAIN SQ = 1..Len(SQ)
  BY QueueFacts
<1>2. \A j \in DOMAIN SQ : SQ[j].id \in Ids /\ SQ[j].addr \in Addrs
  BY QueueFacts DEF SQEntry
<1>3. PendingStores \in [1..Len(SQ) -> Ids \X Addrs]
  BY <1>1, <1>2 DEF PendingStores
<1>4. PendingStores \in Seq(Ids \X Addrs)
  BY <1>1, <1>3, SeqDef
<1>5. 1..Len(PendingStores) = 1..Len(SQ) /\ Len(PendingStores) \in Nat
  BY <1>3, <1>4, LenProperties
<1> QED BY <1>1, <1>4, <1>5 DEF PendingStores

-----------------------------------------------------------------------------
(* Steps.                                                                  *)

\* What a step observes are loads of instructions still in the ROB.
LEMMA LoadsArePerformed ==
  ASSUME MachineInv, ObservedRight', observed \subseteq observed',
         \A o \in observed' \ observed : o[1] \in (Retired + 1)..Len(prog')
  PROVE  InProgramOrder!PerformLoads
<1>1. ASSUME NEW o \in observed' \ observed
      PROVE  /\ o[1] \in (Retired + 1)..Len(prog')
             /\ InProgramOrder!Accesses(prog'[o[1]].loads, o[2])
             /\ InProgramOrder!ReadsFrom(prog', o[1], o[2], o[3])
  <2>1. Performs(o[1], o[2])' /\ LatestStore(o[1], o[2], o[3])'
    BY <1>1 DEF ObservedRight
  <2> QED BY <1>1, <2>1, SameReadsNext
<1> QED BY <1>1 DEF InProgramOrder!PerformLoads, Retired

LEMMA DispatchIssues ==
  ASSUME MachineInv, MachineInv', NEW ins \in Instrs, Dispatch(ins)
  PROVE  InProgramOrder!Issue
<1>1. PICK from, slot : Dispatched(ins, from, slot)
  BY DispatchEffect
<1>2. QueuesTyped /\ Program /\ QueuesTyped'
  BY DEF MachineInv, RegisterInv, SchedInv
<1> DEFINE L == Len(prog)
<1>3. L \in Nat /\ Len(prog') = L + 1 /\ prog' = Append(prog, ins)
  BY <1>1, <1>2, ProgramFacts, DispatchProgram DEF Dispatched
<1>4. Retired \in 0..L /\ IsFiniteSet(ROB) /\ L + 1 \notin ROB /\ Cardinality(ROB) \in Nat
  BY <1>2, <1>3, RetiredBeforeROB, ProgramFacts, FS_CardinalityType
<1>5. Retired' = Retired
  <2>1. ROB' = ROB \cup {L + 1}
    BY <1>1 DEF Dispatched, ROB
  <2>2. Cardinality(ROB') = Cardinality(ROB) + 1
    BY <1>4, <2>1, FS_AddElement
  <2> QED BY <1>3, <1>4, <2>2 DEF Retired
<1>6. PendingStores' = PendingStores \o [k \in DOMAIN ins.stores |-> <<L + 1, ins.stores[k]>>]
  <2> DEFINE new == [k \in DOMAIN ins.stores |-> <<L + 1, ins.stores[k]>>]
             N == Len(ins.stores)
  <2>1. N \in Nat /\ DOMAIN ins.stores = 1..N /\ \A m \in 1..N : ins.stores[m] \in Addrs
    BY InstrFacts
  <2>2. L + 1 \in Ids
    <3>1. L + 1 <= MaxInstr /\ MaxInstr \in Nat
      BY <1>1, SizesAssumption DEF Dispatched
    <3> QED BY <1>3, <3>1 DEF Ids
  <2>3. new \in Seq(Ids \X Addrs) /\ Len(new) = N
    <3>1. new \in [1..N -> Ids \X Addrs]
      BY <2>1, <2>2
    <3> HIDE DEF new
    <3>2. new \in Seq(Ids \X Addrs)
      BY <2>1, <3>1, SeqDef
    <3>3. 1..Len(new) = 1..N /\ Len(new) \in Nat
      BY <3>1, <3>2, LenProperties
    <3> QED BY <2>1, <3>2, <3>3
  <2>4. /\ Len(SQ') = Len(SQ) + N
        /\ \A j \in DOMAIN SQ : SQ'[j].id = SQ[j].id /\ SQ'[j].addr = SQ[j].addr
        /\ \A m \in 1..N : SQ'[Len(SQ) + m] = StoreEntry(L + 1, ins.stores[m])
    BY <1>1, <1>2, <2>1, DispatchedStores
  <2>5. /\ PendingStores \in Seq(Ids \X Addrs) /\ Len(PendingStores) = Len(SQ)
        /\ \A j \in DOMAIN SQ : PendingStores[j] = <<SQ[j].id, SQ[j].addr>>
        /\ Len(SQ) \in Nat /\ DOMAIN SQ = 1..Len(SQ)
    BY <1>2, PendingTyped, QueueFacts
  <2>6. DOMAIN SQ' = 1..(Len(SQ) + N)
    BY <1>2, <2>4, LenProperties DEF QueuesTyped
  <2>7. PendingStores' = [j \in 1..(Len(SQ) + N) |-> <<SQ'[j].id, SQ'[j].addr>>]
    BY <2>6 DEF PendingStores
  <2>8. \A m \in 1..N : SQ'[Len(SQ) + m].id = L + 1 /\ SQ'[Len(SQ) + m].addr = ins.stores[m]
    <3>1. \A i, a : StoreEntry(i, a).id = i /\ StoreEntry(i, a).addr = a
      BY DEF StoreEntry
    <3> QED BY <2>4, <3>1
  <2>9. \A m \in 1..N : new[m] = <<L + 1, ins.stores[m]>>
    BY <2>1
  <2> HIDE DEF new, N, L
  <2>10. /\ PendingStores \o new \in Seq(Ids \X Addrs)
         /\ Len(PendingStores \o new) = Len(SQ) + N
         /\ \A k \in 1..(Len(SQ) + N) : (PendingStores \o new)[k] =
              IF k <= Len(SQ) THEN PendingStores[k] ELSE new[k - Len(SQ)]
    <3>1. /\ PendingStores \o new \in Seq(Ids \X Addrs)
          /\ Len(PendingStores \o new) = Len(PendingStores) + Len(new)
          /\ \A k \in 1..(Len(PendingStores) + Len(new)) : (PendingStores \o new)[k] =
               IF k <= Len(PendingStores) THEN PendingStores[k] ELSE new[k - Len(PendingStores)]
      BY <2>3, <2>5, ConcatProperties, Zenon
    <3>2. Len(PendingStores) = Len(SQ) /\ Len(new) = N
      BY <2>3, <2>5
    <3> QED BY <3>1, <3>2, Zenon
  <2>11. DOMAIN (PendingStores \o new) = 1..(Len(SQ) + N)
    BY <2>10, LenProperties
  <2>12. ASSUME NEW k \in 1..(Len(SQ) + N)
         PROVE  (PendingStores \o new)[k] = <<SQ'[k].id, SQ'[k].addr>>
    <3>1. CASE k <= Len(SQ)
      BY <2>4, <2>5, <2>10, <3>1
    <3>2. CASE ~(k <= Len(SQ))
      <4>1. PICK m \in 1..N : k = Len(SQ) + m /\ k - Len(SQ) = m
        <5>1. k - Len(SQ) \in 1..N /\ k = Len(SQ) + (k - Len(SQ))
          BY <2>1, <2>5, <3>2
        <5> QED BY <5>1
      <4> QED BY <2>8, <2>9, <2>10, <3>2, <4>1
    <3> QED BY <3>1, <3>2
  <2>13. PendingStores \o new = [k \in 1..(Len(SQ) + N) |-> (PendingStores \o new)[k]]
    BY <2>10, <2>11, LenProperties
  <2>14. PendingStores \o new = PendingStores'
    BY <2>7, <2>12, <2>13
  <2> QED BY <2>14 DEF new, L
<1>7. InProgramOrder!PerformLoads
  <2>1. \A o \in observed' \ observed : o[1] = L + 1
    BY <1>1 DEF Dispatched
  <2>2. observed \subseteq observed'
    BY <1>1 DEF Dispatched
  <2>3. L + 1 \in (Retired + 1)..Len(prog')
    BY <1>3, <1>4
  <2>4. ObservedRight'
    BY DEF MachineInv, LoadsInv
  <2> QED BY <2>1, <2>2, <2>3, <2>4, LoadsArePerformed
<1>8. memory' = memory
  BY DEF Dispatch
<1> QED BY <1>3, <1>5, <1>6, <1>7, <1>8 DEF InProgramOrder!Issue, Retired, PendingStores

\* A step that moves nothing the abstract machine has is a stutter.
LEMMA Stutters ==
  ASSUME UNCHANGED <<prog, memory, observed>>, ROB' = ROB, PendingStores' = PendingStores
  PROVE  UNCHANGED InProgramOrder!vars
BY DEF InProgramOrder!vars, PendingStores

LEMMA FinishOpsROB ==
  ASSUME NEW slots, NEW i, rob' = FinishOps(slots, i)
  PROVE  ROB' = ROB
BY DEF FinishOps, ROB

LEMMA RetireRetires ==
  ASSUME MachineInv, NEW i \in ROB, Retire(i)
  PROVE  InProgramOrder!RetireNext
<1>1. /\ IsFront(i) /\ rob[i].executed = "COMPLETED"
      /\ UNCHANGED <<prog, SQ, memory, observed>> /\ ROB' = ROB \ {i}
  BY DEF Retire, ROB
<1>2. Program
  BY DEF MachineInv, RegisterInv, SchedInv
<1> DEFINE L == Len(prog)
           F == Retired
<1>3. L \in Nat /\ F \in 0..L /\ ROB = (F + 1)..L /\ i \in Nat
  BY <1>2, RetiredBeforeROB, ProgramFacts
<1>4. IsFiniteSet(ROB) /\ Cardinality(ROB) \in Nat
  BY <1>2, ProgramFacts, FS_CardinalityType
<1>5. Retired' = F + 1
  <2>1. Cardinality(ROB') = Cardinality(ROB) - 1
    BY <1>1, <1>4, FS_RemoveElement
  <2> QED BY <1>1, <1>3, <1>4, <2>1 DEF Retired
<1> HIDE DEF L, F
<1>6. i = F + 1 /\ F < L
  <2>1. F + 1 \in ROB /\ i >= F + 1
    BY <1>3
  <2> QED BY <1>1, <1>3, <2>1 DEF IsFront
<1>7. ASSUME NEW k \in DOMAIN prog[i].loads
      PROVE  \E s \in 0..F : <<i, prog[i].loads[k], s>> \in observed
  <2> DEFINE a == prog[i].loads[k]
  <2>1. a \in Addrs /\ i \in 1..Len(prog) /\ Performs(i, a)
    <3>1. prog[i] \in Instrs /\ i \in 1..Len(prog)
      BY <1>2, <1>3, ProgramFacts DEF L
    <3> QED BY <3>1, InstrFacts DEF Performs
  <2>2. ~Pending(i, a)
    <3>1. WaitingLoads(i) = {}
      BY <1>1 DEF MachineInv, Accounting, CompletedHasNone
    <3> QED BY <3>1 DEF WaitingLoads, Pending
  <2> HIDE DEF a
  <2>3. PICK s : <<i, a, s>> \in observed
    BY <2>1, <2>2 DEF MachineInv, LoadsInv, NoLoadLost, Observed
  <2>4. LatestStore(i, a, s)
    BY <2>3 DEF MachineInv, LoadsInv, ObservedRight
  <2>5. s \in 0..F
    BY <1>3, <1>6, <2>4 DEF LatestStore, NoStore
  <2> QED BY <2>3, <2>5 DEF a
<1>8. PendingStores' = PendingStores
  BY <1>1, PendingSame
<1> QED BY <1>1, <1>5, <1>6, <1>7, <1>8
        DEF InProgramOrder!RetireNext, PendingStores, Retired, F, L

LEMMA CompleteStoreDrains ==
  ASSUME MachineInv, CompleteStore
  PROVE  InProgramOrder!Drain
<1>1. QueuesTyped /\ Program
  BY DEF MachineInv, RegisterInv, SchedInv
<1>2. /\ SQ # <<>> /\ UNCHANGED <<prog, rob, observed>>
      /\ \A i \in ROB : Head(SQ).id < i
      /\ SQ' = Tail(SQ) /\ memory' = [memory EXCEPT ![Head(SQ).addr] = Head(SQ).id]
  BY DEF CompleteStore, HasRetired
<1>3. /\ Len(SQ) \in Nat \ {0} /\ Head(SQ) = SQ[1] /\ 1 \in DOMAIN SQ
      /\ DOMAIN SQ' = 1..(Len(SQ) - 1)
      /\ \A j \in DOMAIN SQ' : j + 1 \in DOMAIN SQ /\ SQ'[j] = SQ[j + 1]
  BY <1>1, CompleteStoreQueues
<1>4. /\ PendingStores \in Seq(Ids \X Addrs) /\ Len(PendingStores) = Len(SQ)
      /\ \A j \in DOMAIN SQ : PendingStores[j] = <<SQ[j].id, SQ[j].addr>>
  BY <1>1, PendingTyped
<1>5. PendingStores # <<>> /\ Head(PendingStores) = <<SQ[1].id, SQ[1].addr>>
  <2>1. PendingStores # <<>>
    BY <1>3, <1>4, EmptySeq
  <2>2. Head(PendingStores) = PendingStores[1]
    OBVIOUS
  <2> QED BY <1>3, <1>4, <2>1, <2>2
<1>6. PendingStores' = Tail(PendingStores)
  <2>1. /\ Tail(PendingStores) \in Seq(Ids \X Addrs)
        /\ Len(Tail(PendingStores)) = Len(SQ) - 1
        /\ \A j \in 1..(Len(SQ) - 1) : Tail(PendingStores)[j] = PendingStores[j + 1]
    BY <1>4, <1>5, HeadTailProperties
  <2>2. DOMAIN Tail(PendingStores) = 1..(Len(SQ) - 1)
    BY <2>1, LenProperties
  <2>3. Tail(PendingStores) = [j \in 1..(Len(SQ) - 1) |-> Tail(PendingStores)[j]]
    BY <2>1, <2>2, LenProperties
  <2>4. PendingStores' = [j \in 1..(Len(SQ) - 1) |-> <<SQ'[j].id, SQ'[j].addr>>]
    BY <1>3 DEF PendingStores
  <2>5. \A j \in 1..(Len(SQ) - 1) : Tail(PendingStores)[j] = <<SQ'[j].id, SQ'[j].addr>>
    BY <1>3, <1>4, <2>1
  <2> QED BY <2>3, <2>4, <2>5
<1>7. SQ[1].id <= Retired
  <2>1. /\ Len(prog) \in Nat /\ Retired \in 0..Len(prog)
        /\ ROB = (Retired + 1)..Len(prog)
    BY <1>1, RetiredBeforeROB
  <2>2. SQ[1].id \in 1..Len(prog)
    BY <1>3 DEF MachineInv, OrderInv, QueueInOrder
  <2>3. CASE Retired = Len(prog)
    BY <2>1, <2>2, <2>3
  <2>4. CASE Retired # Len(prog)
    <3>1. Retired + 1 \in ROB
      BY <2>1, <2>4
    <3>2. SQ[1].id < Retired + 1
      BY <1>2, <1>3, <3>1
    <3> QED BY <2>1, <2>2, <3>2
  <2> QED BY <2>3, <2>4
<1>8. Retired' = Retired
  BY <1>2 DEF Retired, ROB
<1>9. /\ Head(PendingStores)[1] <= Retired
      /\ memory' = [memory EXCEPT ![Head(PendingStores)[2]] = Head(PendingStores)[1]]
  <2>1. PICK i : i = SQ[1].id
    OBVIOUS
  <2>2. PICK a : a = SQ[1].addr
    OBVIOUS
  <2>3. Head(SQ).id = i /\ Head(SQ).addr = a /\ Head(PendingStores) = <<i, a>>
    BY <1>3, <1>5, <2>1, <2>2, Zenon
  <2>4. Head(PendingStores)[1] = i /\ Head(PendingStores)[2] = a
    <3>1. <<i, a>>[1] = i /\ <<i, a>>[2] = a
      OBVIOUS
    <3> QED BY <2>3, <3>1, Zenon
  <2>5. i <= Retired
    BY <1>7, <2>1, Zenon
  <2> QED BY <1>2, <2>3, <2>4, <2>5, Zenon
<1> QED BY <1>2, <1>5, <1>6, <1>8, <1>9, Zenon
        DEF InProgramOrder!Drain, Retired, PendingStores

\* Steps that serve loads of instructions in the ROB.
LEMMA ServingPerforms ==
  ASSUME MachineInv, MachineInv', UNCHANGED <<prog, memory>>, ROB' = ROB,
         PendingStores' = PendingStores, observed \subseteq observed',
         \A o \in observed' \ observed : o[1] \in ROB
  PROVE  InProgramOrder!Perform
<1>1. Program /\ ObservedRight'
  BY DEF MachineInv, RegisterInv, SchedInv, LoadsInv
<1>2. ROB = (Retired + 1)..Len(prog)
  BY <1>1, RetiredBeforeROB
<1>3. InProgramOrder!PerformLoads
  BY <1>1, <1>2, LoadsArePerformed
<1>4. Retired' = Retired
  BY DEF Retired
<1> QED BY <1>3, <1>4 DEF InProgramOrder!Perform, Retired, PendingStores

LEMMA FinishStorePerforms ==
  ASSUME MachineInv, MachineInv', NEW j \in DOMAIN SQ, FinishStore(j)
  PROVE  InProgramOrder!Perform
<1>1. QueuesTyped
  BY DEF MachineInv, RegisterInv
<1>2. /\ UNCHANGED <<prog, memory>> /\ ~SQ[j].fetch_issued
      /\ observed' = observed \cup
           {<<LQ[s].id, LQ[s].addr, SQ[j].id>> : s \in SQ[j].lq_depend_on_me}
      /\ ROB' = ROB
  BY FinishOpsROB DEF FinishStore
<1>3. PendingStores' = PendingStores
  BY <1>1, FinishStoreQueues, PendingSame
<1>4. ASSUME NEW s \in SQ[j].lq_depend_on_me
      PROVE  LQ[s].id \in ROB
  <2>1. s \in Slots /\ LQ[s] # Empty
    BY <1>2, <1>4 DEF MachineInv, LinksInv, LinkedWait, Link
  <2>2. LQ[s].id # 0 /\ s \in WaitingLoads(LQ[s].id)
    BY <1>1, <2>1, QueueFacts DEF WaitingLoads
  <2> QED BY <2>2 DEF MachineInv, Accounting, WaitersLive
<1>5. \A o \in observed' \ observed : o[1] \in ROB
  BY <1>2, <1>4
<1> QED BY <1>2, <1>3, <1>5, ServingPerforms

LEMMA ExecuteLoadPerforms ==
  ASSUME MachineInv, MachineInv', NEW s \in Slots, ExecuteLoad(s)
  PROVE  InProgramOrder!Perform
<1>1. /\ UNCHANGED <<prog, memory, rob, SQ>> /\ LQ[s] # Empty
      /\ observed' = observed \cup {<<LQ[s].id, LQ[s].addr, memory[LQ[s].addr]>>}
  BY DEF ExecuteLoad
<1>2. LQ[s].id # 0 /\ s \in WaitingLoads(LQ[s].id)
  BY <1>1, QueueFacts DEF MachineInv, RegisterInv, WaitingLoads
<1>3. LQ[s].id \in ROB
  BY <1>2 DEF MachineInv, Accounting, WaitersLive
<1>4. PendingStores' = PendingStores /\ ROB' = ROB
  BY <1>1 DEF PendingStores, ROB
<1> QED BY <1>1, <1>3, <1>4, ServingPerforms

-----------------------------------------------------------------------------
(* The refinement.                                                         *)

LEMMA StepsImplement ==
  MachineInv /\ MachineInv' /\ [Next]_vars => [InProgramOrder!Next]_(InProgramOrder!vars)
<1> SUFFICES ASSUME MachineInv, MachineInv', [Next]_vars
             PROVE  InProgramOrder!Next \/ UNCHANGED InProgramOrder!vars
  OBVIOUS
<1>1. QueuesTyped
  BY DEF MachineInv, RegisterInv
<1>2. ASSUME NEW ins \in Instrs, Dispatch(ins) PROVE InProgramOrder!Issue
  BY <1>2, DispatchIssues
<1>3. ASSUME NEW i \in ROB, Schedule(i) \/ CompleteExecution(i)
      PROVE  UNCHANGED InProgramOrder!vars
  <2>1. UNCHANGED <<prog, memory, observed, SQ>> /\ ROB' = ROB
    BY <1>3 DEF Schedule, CompleteExecution, ROB
  <2> QED BY <2>1, PendingSame, Stutters
<1>4. ASSUME NEW i \in ROB, Execute(i) PROVE UNCHANGED InProgramOrder!vars
  <2>1. UNCHANGED <<prog, memory, observed>> /\ ROB' = ROB
    BY <1>4 DEF Execute, ROB
  <2>2. PendingStores' = PendingStores
    BY <1>1, <1>4, ExecuteQueues, PendingSame
  <2> QED BY <2>1, <2>2, Stutters
<1>5. ASSUME NEW i \in ROB, Retire(i) PROVE InProgramOrder!RetireNext
  BY <1>5, RetireRetires
<1>6. ASSUME NEW j \in DOMAIN SQ, FinishStore(j) PROVE InProgramOrder!Perform
  BY <1>6, FinishStorePerforms
<1>7. ASSUME CompleteStore PROVE InProgramOrder!Drain
  BY <1>7, CompleteStoreDrains
<1>8. ASSUME NEW s \in Slots, ExecuteLoad(s) PROVE InProgramOrder!Perform
  BY <1>8, ExecuteLoadPerforms
<1>9. ASSUME NEW b \in Blocks, ReturnData(b) PROVE UNCHANGED InProgramOrder!vars
  <2>1. UNCHANGED <<prog, memory, observed, SQ, rob>>
    BY <1>9 DEF ReturnData
  <2> QED BY <2>1, PendingSame, Stutters DEF ROB
<1>10. ASSUME HandleMemoryReturn PROVE UNCHANGED InProgramOrder!vars
  <2>1. UNCHANGED <<prog, memory, observed, SQ>> /\ ROB' = ROB
    BY <1>10, FinishOpsROB DEF HandleMemoryReturn
  <2> QED BY <2>1, PendingSame, Stutters
<1>11. ASSUME UNCHANGED vars PROVE UNCHANGED InProgramOrder!vars
  <2>1. UNCHANGED <<prog, memory, observed, SQ, rob>>
    BY <1>11 DEF vars
  <2> QED BY <2>1, PendingSame, Stutters DEF ROB
<1> QED BY <1>2, <1>3, <1>4, <1>5, <1>6, <1>7, <1>8, <1>9, <1>10, <1>11
        DEF Next, Lsq, L1d, InProgramOrder!Next

\* The back end implements the machine that performs every load and store in program
\* order: retirement waits for all of an instruction's loads, each load reads from the
\* latest store before it, and stores reach memory one after the other once retired.
THEOREM ImplementsOrder == Spec => ImplementsProgramOrder
<1>1. Init => InProgramOrder!Init
  <2> SUFFICES ASSUME Init PROVE InProgramOrder!Init
    OBVIOUS
  <2>1. /\ prog = <<>> /\ SQ = <<>> /\ observed = {} /\ ROB = {}
        /\ memory = [a \in Addrs |-> 0]
    BY DEF Init, ROB, NoStore
  <2>2. Len(prog) = 0 /\ Cardinality(ROB) = 0
    BY <2>1, FS_EmptySet, EmptySeq
  <2>3. [j \in DOMAIN SQ |-> <<SQ[j].id, SQ[j].addr>>] = <<>>
    BY <2>1
  <2> QED BY <2>1, <2>2, <2>3 DEF InProgramOrder!Init
<1>2. MachineInv /\ MachineInv' /\ [Next]_vars => [InProgramOrder!Next]_(InProgramOrder!vars)
  BY StepsImplement
<1>3. Spec => []MachineInv
  BY RegisterInductive, AccountingInductive, LinksInductive, OrderInductive, LoadsInductive, PTL
     DEF MachineInv
<1> QED BY <1>1, <1>2, <1>3, PTL DEF Spec, ImplementsProgramOrder, InProgramOrder!Spec

-----------------------------------------------------------------------------
(* Types.                                                                  *)

CompletedTyped == \A i \in ROB : rob[i].completed_mem_ops \in Nat

LEMMA FinishOpsTyped ==
  ASSUME RegisterInv, CompletedTyped, NEW slots \in SUBSET Slots, NEW i,
         rob' = FinishOps(slots, i)
  PROVE  CompletedTyped'
<1>1. ASSUME NEW j \in ROB
      PROVE  rob'[j].completed_mem_ops \in Nat
  <2> DEFINE n == rob[j].completed_mem_ops + Cardinality(LoadsOf(slots, j)) + (IF i = j THEN 1 ELSE 0)
  <2>1. rob[j] \in ROBRecord /\ rob[j].completed_mem_ops \in Nat
    BY DEF RegisterInv, SchedInv, Program, CompletedTyped
  <2>2. Cardinality(LoadsOf(slots, j)) \in Nat
    BY QueueFacts DEF RegisterInv
  <2>3. n \in Nat
    BY <2>1, <2>2
  <2>4. rob'[j] = [rob[j] EXCEPT !.completed_mem_ops = n]
    BY DEF FinishOps
  <2> HIDE DEF n
  <2>5. rob'[j].completed_mem_ops = n
    BY <2>1, <2>4 DEF ROBRecord
  <2> QED BY <2>3, <2>5
<1>2. ROB' = ROB
  BY FinishOpsROB
<1> QED BY <1>1, <1>2 DEF CompletedTyped

LEMMA CompletedNext ==
  ASSUME RegisterInv, CompletedTyped, [Next]_vars
  PROVE  CompletedTyped'
<1>1. \A j \in ROB : rob[j] \in ROBRecord
  BY DEF RegisterInv, SchedInv, Program
<1>2. ASSUME NEW ins \in Instrs, Dispatch(ins) PROVE CompletedTyped'
  <2>1. PICK from, slot : Dispatched(ins, from, slot)
    BY <1>2, DispatchEffect
  <2>2. Cardinality(ServedAtOnce(ins, from)) \in Nat
    <3>1. Len(ins.loads) \in Nat /\ DOMAIN ins.loads = 1..Len(ins.loads)
      BY InstrFacts
    <3>2. IsFiniteSet(DOMAIN ins.loads)
      BY <3>1, FS_Interval
    <3>3. ServedAtOnce(ins, from) \in SUBSET DOMAIN ins.loads
      BY DEF ServedAtOnce
    <3> QED BY <3>2, <3>3, FS_Subset, FS_CardinalityType
  <2>3. rob' = [j \in ROB \cup {Len(prog) + 1} |->
                 IF j = Len(prog) + 1
                 THEN [scheduled |-> FALSE, executed |-> "no",
                       completed_mem_ops |-> Cardinality(ServedAtOnce(ins, from)),
                       num_reg_dependent |-> 0,
                       registers_instrs_depend_on_me |-> {}]
                 ELSE rob[j]]
    BY <2>1 DEF Dispatched
  <2> QED BY <2>2, <2>3 DEF CompletedTyped, ROB
<1>3. ASSUME ROB' \subseteq ROB,
             \A j \in ROB' : rob'[j].completed_mem_ops = rob[j].completed_mem_ops
      PROVE  CompletedTyped'
  BY <1>3 DEF CompletedTyped
<1>4. ASSUME NEW i \in ROB, Schedule(i) PROVE CompletedTyped'
  <2> DEFINE priors == LastProducers(prog[i])
  <2>1. rob' = [j \in ROB |->
                  IF j = i THEN [rob[i] EXCEPT !.scheduled = TRUE,
                                               !.num_reg_dependent = @ + Cardinality(priors)]
                  ELSE IF j \in priors
                       THEN [rob[j] EXCEPT !.registers_instrs_depend_on_me = @ \cup {i}]
                  ELSE rob[j]]
    BY <1>4 DEF Schedule
  <2> HIDE DEF priors
  <2>2. ROB' = ROB
    BY <2>1 DEF ROB
  <2>3. \A j \in ROB : rob'[j].completed_mem_ops = rob[j].completed_mem_ops
    BY <1>1, <2>1 DEF ROBRecord
  <2> QED BY <1>3, <2>2, <2>3
<1>5. ASSUME NEW i \in ROB, Execute(i) PROVE CompletedTyped'
  <2>1. rob' = [rob EXCEPT ![i].executed = "INFLIGHT"]
    BY <1>5 DEF Execute
  <2>2. ROB' = ROB
    BY <2>1 DEF ROB
  <2>3. \A j \in ROB : rob'[j] = IF j = i THEN [rob[i] EXCEPT !.executed = "INFLIGHT"] ELSE rob[j]
    BY <2>1 DEF ROB
  <2>4. \A j \in ROB : rob'[j].completed_mem_ops = rob[j].completed_mem_ops
    BY <1>1, <2>3 DEF ROBRecord
  <2> QED BY <1>3, <2>2, <2>4
<1>6. ASSUME NEW i \in ROB, CompleteExecution(i) PROVE CompletedTyped'
  <2>1. rob' = [j \in ROB |->
                  IF j = i THEN [rob[i] EXCEPT !.executed = "COMPLETED"]
                  ELSE IF j \in rob[i].registers_instrs_depend_on_me
                       THEN [rob[j] EXCEPT !.num_reg_dependent = @ - 1]
                  ELSE rob[j]]
    BY <1>6 DEF CompleteExecution
  <2>2. ROB' = ROB
    BY <2>1 DEF ROB
  <2>3. \A j \in ROB : rob'[j].completed_mem_ops = rob[j].completed_mem_ops
    BY <1>1, <2>1 DEF ROBRecord
  <2> QED BY <1>3, <2>2, <2>3
<1>7. ASSUME NEW i \in ROB, Retire(i) PROVE CompletedTyped'
  <2>1. rob' = [j \in ROB \ {i} |-> rob[j]]
    BY <1>7 DEF Retire
  <2>2. ROB' = ROB \ {i} /\ \A j \in ROB' : rob'[j] = rob[j]
    BY <2>1 DEF ROB
  <2> QED BY <1>3, <2>2
<1>8. ASSUME NEW j \in DOMAIN SQ, FinishStore(j) PROVE CompletedTyped'
  <2>1. SQ[j].lq_depend_on_me \in SUBSET Slots
    BY <1>8, FinishStoreQueues DEF RegisterInv
  <2> QED BY <1>8, <2>1, FinishOpsTyped DEF FinishStore
<1>9. ASSUME HandleMemoryReturn PROVE CompletedTyped'
  <2>1. ServedBy(Head(processed)) \in SUBSET Slots
    BY DEF ServedBy
  <2> QED BY <1>9, <2>1, FinishOpsTyped DEF HandleMemoryReturn
<1>10. ASSUME UNCHANGED rob PROVE CompletedTyped'
  BY <1>10 DEF CompletedTyped, ROB
<1> QED BY <1>2, <1>4, <1>5, <1>6, <1>7, <1>8, <1>9, <1>10
        DEF Next, Lsq, L1d, CompleteStore, ExecuteLoad, ReturnData, vars

\* Every variable keeps its type: the counters of completed operations do not go
\* negative, and no queue entry refers to an instruction outside the trace.
THEOREM TypeCorrect == Spec => []TypeOK
<1>1. Init => CompletedTyped
  BY DEF Init, CompletedTyped, ROB
<1>2. RegisterInv /\ CompletedTyped /\ [Next]_vars => CompletedTyped'
  BY CompletedNext
<1>3. RegisterInv /\ LoadsInv /\ CompletedTyped => TypeOK
  <2> SUFFICES ASSUME RegisterInv, LoadsInv, CompletedTyped PROVE TypeOK
    OBVIOUS
  <2>1. /\ prog \in Seq(Instrs) /\ Len(prog) <= MaxInstr /\ ROB \subseteq 1..Len(prog)
        /\ rob \in [ROB -> ROBRecord]
    BY DEF RegisterInv, SchedInv, Program
  <2>2. ASSUME NEW i \in ROB PROVE rob[i] \in ROBEntry
    BY <2>1 DEF CompletedTyped, ROBRecord, ROBEntry
  <2>3. rob \in [ROB -> ROBEntry]
    BY <2>1, <2>2
  <2>4. reg_producers \in [Regs -> SUBSET Ids]
    BY DEF RegisterInv, SchedInv, ProducersExact
  <2>5. observed \subseteq Ids \X Addrs \X (Ids \cup {NoStore})
    BY DEF LoadsInv, ObservedRight
  <2> QED BY <2>1, <2>3, <2>4, <2>5 DEF TypeOK, RegisterInv, QueuesTyped
<1> QED BY <1>1, <1>2, <1>3, RegisterInductive, LoadsInductive, PTL DEF Spec
=============================================================================
