----------------------------- MODULE CacheProofs -----------------------------
(***************************************************************************)
(* Theorems about Cache, for every geometry, queue size and producer set.  *)
(***************************************************************************)
EXTENDS Cache, SequenceTheorems, FiniteSetTheorems, TLAPS

LEMMA RemoveNthProperties ==
  ASSUME NEW S, NEW seq \in Seq(S), NEW n \in 1..Len(seq)
  PROVE  /\ RemoveNth(seq, n) \in Seq(S)
         /\ Len(RemoveNth(seq, n)) = Len(seq) - 1
<1> DEFINE l == SubSeq(seq, 1, n - 1)
           r == SubSeq(seq, n + 1, Len(seq))
<1>1. \A i \in 1..Len(seq) : seq[i] \in S
  BY ElementOfSeq
<1>2. Len(seq) \in Nat
  BY LenProperties
<1>3. l \in Seq(S) /\ Len(l) = n - 1
  <2>1. \A i \in 1..(n - 1) : seq[i] \in S
    BY <1>1, <1>2
  <2>2. QED BY <2>1, <1>2, SubSeqProperties
<1>4. r \in Seq(S) /\ Len(r) = Len(seq) - n
  <2>1. \A i \in (n + 1)..Len(seq) : seq[i] \in S
    BY <1>1, <1>2
  <2>2. QED BY <2>1, <1>2, SubSeqProperties
<1>5. l \o r \in Seq(S) /\ Len(l \o r) = Len(l) + Len(r)
  BY <1>3, <1>4, ConcatProperties
<1>6. Len(l \o r) = Len(seq) - 1
  <2> HIDE DEF l, r
  <2> QED BY <1>2, <1>3, <1>4, <1>5
<1> QED BY <1>5, <1>6 DEF RemoveNth

\* The packets producers make are packets.
LEMMA MakePacketType ==
  ASSUME NEW a \in Addrs, NEW type \in Types, NEW to_return \in SUBSET Clients,
         NEW fill \in BOOLEAN, NEW own \in BOOLEAN
  PROVE  MakePacket(a, type, to_return, fill, own) \in Packet
BY DEF MakePacket, Packet

\* Queues keep their type and bound when the one at q becomes new.
LEMMA QueueUpdate ==
  ASSUME TypeOK, NEW q \in QueueNames, NEW new \in Seq(Packet), Len(new) <= QueueSize[q],
         queues' = [queues EXCEPT ![q] = new]
  PROVE  /\ queues' \in [QueueNames -> Seq(Packet)]
         /\ \A p \in QueueNames : Len(queues'[p]) <= QueueSize[p]
BY DEF TypeOK

LEMMA EnqueueType ==
  ASSUME TypeOK, NEW q \in QueueNames, NEW p \in Packet, Enqueue(q, p),
         waiting' \subseteq Clients \X Blocks
  PROVE  TypeOK'
<1> USE GeometryAssumption
<1>1. queues[q] \in Seq(Packet) /\ Len(queues[q]) \in Nat /\ QueueSize[q] \in Nat
  BY LenProperties DEF TypeOK
<1>2. Append(queues[q], p) \in Seq(Packet) /\ Len(Append(queues[q], p)) = Len(queues[q]) + 1
  BY <1>1, AppendProperties
<1>3. Len(Append(queues[q], p)) <= QueueSize[q]
  BY <1>1, <1>2 DEF Enqueue
<1>4. /\ queues' \in [QueueNames -> Seq(Packet)]
      /\ \A r \in QueueNames : Len(queues'[r]) <= QueueSize[r]
  BY <1>2, <1>3, QueueUpdate DEF Enqueue
<1>5. requests' \in 0..MaxRequests
  BY DEF Enqueue, TypeOK
<1> QED BY <1>4, <1>5 DEF Enqueue, TypeOK

-----------------------------------------------------------------------------
(* Type correctness, one lemma per group of actions.                       *)

LEMMA FrontType ==
  ASSUME TypeOK, NEW q \in QueueNames, queues[q] # <<>>
  PROVE  /\ Head(queues[q]) \in Packet
         /\ Tail(queues[q]) \in Seq(Packet)
         /\ Len(Tail(queues[q])) <= QueueSize[q]
<1> USE GeometryAssumption
<1>1. queues[q] \in Seq(Packet) /\ Len(queues[q]) \in Nat /\ QueueSize[q] \in Nat
      /\ Len(queues[q]) <= QueueSize[q]
  BY LenProperties DEF TypeOK
<1>2. Head(queues[q]) \in Packet /\ Tail(queues[q]) \in Seq(Packet)
      /\ Len(Tail(queues[q])) = Len(queues[q]) - 1
  BY <1>1, HeadTailProperties
<1> QED BY <1>1, <1>2

LEMMA DequeueType ==
  ASSUME TypeOK, NEW q \in QueueNames, queues[q] # <<>>, Dequeue(q)
  PROVE  /\ queues' \in [QueueNames -> Seq(Packet)]
         /\ \A p \in QueueNames : Len(queues'[p]) <= QueueSize[p]
BY FrontType, QueueUpdate DEF Dequeue

LEMMA AnsweredType ==
  ASSUME TypeOK, NEW to_return, NEW a
  PROVE  Answered(to_return, a) \subseteq Clients \X Blocks
BY DEF TypeOK, Answered

LEMMA EnvironmentType == TypeOK /\ Environment => TypeOK'
<1> SUFFICES ASSUME TypeOK, NEW a \in Addrs,
                    \/ \E c \in Clients, q \in {"RQ", "PQ", "PTWQ"} : Request(c, q, a)
                    \/ Write(a)
                    \/ \E fill \in BOOLEAN : PrefetchLine(a, fill)
             PROVE  TypeOK'
  BY DEF Environment
<1>w. waiting \subseteq Clients \X Blocks
  BY DEF TypeOK
<1>1. ASSUME NEW c \in Clients, NEW q \in {"RQ", "PQ", "PTWQ"}, Request(c, q, a)
      PROVE  TypeOK'
  <2>1. PICK p \in Packet : Enqueue(q, p)
    <3> DEFINE type == IF q = "PQ" THEN "PREFETCH" ELSE "LOAD"
    <3>1. type \in Types /\ {c} \in SUBSET Clients
      BY DEF Types
    <3>2. MakePacket(a, type, {c}, TRUE, FALSE) \in Packet
      BY <3>1, MakePacketType
    <3> QED BY <3>2, <1>1 DEF Request
  <2>2. waiting' \subseteq Clients \X Blocks
    BY <1>w, <1>1 DEF Request, Blocks
  <2> QED BY <2>1, <2>2, EnqueueType DEF QueueNames
<1>2. CASE Write(a)
  <2>1. MakePacket(a, "WRITE", {}, TRUE, FALSE) \in Packet
    BY MakePacketType DEF Types
  <2> QED BY <1>w, <1>2, <2>1, EnqueueType DEF Write, QueueNames
<1>3. ASSUME NEW fill \in BOOLEAN, PrefetchLine(a, fill)
      PROVE  TypeOK'
  <2>1. MakePacket(a, "PREFETCH", {}, fill, TRUE) \in Packet
    BY MakePacketType DEF Types
  <2> QED BY <1>w, <1>3, <2>1, EnqueueType DEF PrefetchLine, QueueNames
<1> QED BY <1>1, <1>2, <1>3

LEMMA MergePacketsType ==
  ASSUME NEW source \in Packet, NEW destination \in Packet
  PROVE  MergePackets(source, destination) \in Packet
BY DEF MergePackets, Packet

LEMMA CheckCollisionType ==
  ASSUME TypeOK, NEW q \in QueueNames, CheckCollision(q)
  PROVE  TypeOK'
<1> USE GeometryAssumption
<1>1. PICK n \in DOMAIN queues[q] :
         \/ /\ queues' = [queues EXCEPT ![q] = RemoveNth(@, n)]
            /\ waiting' = Answered(queues[q][n].to_return, queues[q][n].addr)
         \/ /\ \E m \in 1..(n - 1) :
                 LET merged == [queues[q] EXCEPT ![m] = MergePackets(queues[q][n], @)]
                 IN  queues' = [queues EXCEPT ![q] = RemoveNth(merged, n)]
            /\ UNCHANGED waiting
         \/ /\ queues' = [queues EXCEPT ![q][n].forward_checked = TRUE]
            /\ UNCHANGED waiting
  BY Zenon DEF CheckCollision
<1> DEFINE Q == queues[q]
<1>2. /\ Q \in Seq(Packet)
      /\ Len(Q) \in Nat /\ DOMAIN Q = 1..Len(Q)
      /\ QueueSize[q] \in Nat /\ Len(Q) <= QueueSize[q]
      /\ \A k \in 1..Len(Q) : Q[k] \in Packet
  BY LenProperties, ElementOfSeq DEF TypeOK
<1>3. ASSUME NEW new \in Seq(Packet), Len(new) <= Len(Q), queues' = [queues EXCEPT ![q] = new],
             waiting' \subseteq Clients \X Blocks
      PROVE  TypeOK'
  <2>1. Len(new) <= QueueSize[q]
    BY <1>2, <1>3, LenProperties
  <2>2. /\ queues' \in [QueueNames -> Seq(Packet)]
        /\ \A p \in QueueNames : Len(queues'[p]) <= QueueSize[p]
    BY <2>1, <1>3, QueueUpdate
  <2> QED BY <2>2, <1>3 DEF TypeOK, CheckCollision
<1>w. waiting \subseteq Clients \X Blocks
  BY DEF TypeOK
<1>4. CASE queues' = [queues EXCEPT ![q] = RemoveNth(@, n)] /\ waiting' = Answered(Q[n].to_return, Q[n].addr)
  <2>1. RemoveNth(Q, n) \in Seq(Packet) /\ Len(RemoveNth(Q, n)) = Len(Q) - 1
    BY <1>2, RemoveNthProperties
  <2>2. Len(RemoveNth(Q, n)) <= Len(Q)
    BY <2>1, <1>2
  <2> QED BY <2>1, <2>2, <1>3, <1>4, AnsweredType
<1>5. ASSUME NEW m \in 1..(n - 1), UNCHANGED waiting,
             LET merged == [Q EXCEPT ![m] = MergePackets(Q[n], @)]
             IN  queues' = [queues EXCEPT ![q] = RemoveNth(merged, n)]
      PROVE  TypeOK'
  <2> DEFINE M == [Q EXCEPT ![m] = MergePackets(Q[n], @)]
  <2>1. m \in 1..Len(Q) /\ MergePackets(Q[n], Q[m]) \in Packet
    BY <1>2, MergePacketsType
  <2>2. M \in Seq(Packet) /\ Len(M) = Len(Q)
    BY <1>2, <2>1, ExceptSeq
  <2>3. RemoveNth(M, n) \in Seq(Packet) /\ Len(RemoveNth(M, n)) = Len(M) - 1
    <3> HIDE DEF M
    <3> QED BY <1>2, <2>2, RemoveNthProperties
  <2>4. Len(RemoveNth(M, n)) <= Len(Q)
    BY <2>2, <2>3, <1>2
  <2>5. queues' = [queues EXCEPT ![q] = RemoveNth(M, n)]
    BY <1>5
  <2>6. waiting' \subseteq Clients \X Blocks
    BY <1>5, <1>w
  <2> HIDE DEF M
  <2> QED BY <2>3, <2>4, <2>5, <2>6, <1>3
<1>6. CASE queues' = [queues EXCEPT ![q][n].forward_checked = TRUE] /\ UNCHANGED waiting
  <2> DEFINE M == [Q EXCEPT ![n].forward_checked = TRUE]
  <2>1. [Q[n] EXCEPT !.forward_checked = TRUE] \in Packet
    BY <1>2 DEF Packet
  <2>2. M \in Seq(Packet) /\ Len(M) = Len(Q)
    BY <1>2, <2>1, ExceptSeq
  <2>3. queues' = [queues EXCEPT ![q] = M]
    BY <1>6
  <2>4. Len(M) <= Len(Q) /\ waiting' \subseteq Clients \X Blocks
    BY <2>2, <1>2, <1>6, <1>w
  <2> HIDE DEF M
  <2> QED BY <2>2, <2>3, <2>4, <1>3
<1> QED BY <1>1, <1>4, <1>5, <1>6

LEMMA MSHRElements ==
  ASSUME TypeOK
  PROVE  /\ MSHR \in Seq(MSHREntry)
         /\ Len(MSHR) \in Nat /\ DOMAIN MSHR = 1..Len(MSHR)
         /\ MSHR_SIZE \in Nat /\ Len(MSHR) <= MSHR_SIZE
         /\ \A n \in 1..Len(MSHR) : MSHR[n] \in MSHREntry
<1>1. MSHR \in Seq(MSHREntry) /\ Len(MSHR) <= MSHR_SIZE
  BY DEF TypeOK
<1> QED BY <1>1, LenProperties, ElementOfSeq, GeometryAssumption

LEMMA EntryForType ==
  ASSUME NEW p \in Packet, NEW to_return \in SUBSET Clients, NEW returned \in BOOLEAN
  PROVE  EntryFor(p, to_return, returned) \in MSHREntry
BY DEF EntryFor, Packet, MSHREntry

LEMMA HitType == ASSUME TypeOK, NEW q \in QueueNames, Hit(q) PROVE TypeOK'
<1> DEFINE p == Head(queues[q])
           s == SetOf[BlockOf[p.addr]]
<1>1. p \in Packet
  BY FrontType DEF Hit
<1>2. p.addr \in Addrs /\ s \in Sets
  BY <1>1 DEF Packet, Sets, Blocks
<1>3. block' \in [Sets -> [Ways -> Block \cup {Invalid}]]
  <2>1. PICK w \in Ways :
          /\ Holds(p.addr, w)
          /\ block' = [block EXCEPT ![s][w].dirty = (p.type = "WRITE"), ![s][w].prefetch = FALSE]
    BY DEF Hit
  <2> DEFINE new == [block[s][w] EXCEPT !.dirty = (p.type = "WRITE"), !.prefetch = FALSE]
  <2>2. block[s][w] \in Block
    <3>1. block[s][w] \in Block \cup {Invalid}
      BY <1>2 DEF TypeOK
    <3>2. block[s][w].valid
      BY <2>1 DEF Holds
    <3> QED BY <3>1, <3>2 DEF Invalid
  <2>3. new \in Block
    BY <2>2, Zenon DEF Block
  <2>4. block' = [block EXCEPT ![s] = [block[s] EXCEPT ![w] = new]]
    BY <1>2, <2>1 DEF TypeOK
  <2> HIDE DEF new
  <2> QED BY <1>2, <2>3, <2>4 DEF TypeOK
<1>4. waiting' \subseteq Clients \X Blocks
  BY AnsweredType DEF Hit
<1> QED BY <1>3, <1>4, DequeueType DEF Hit, TypeOK

LEMMA MissMergeType == ASSUME TypeOK, NEW q \in QueueNames, MissMerge(q) PROVE TypeOK'
<1> DEFINE p == Head(queues[q])
<1>1. p \in Packet
  BY FrontType DEF MissMerge
<1>2. PICK n \in DOMAIN MSHR :
        LET all == MSHR[n].to_return \cup p.to_return
        IN  MSHR' = [MSHR EXCEPT ![n] =
                       IF MSHR[n].type = "PREFETCH" /\ p.type # "PREFETCH"
                       THEN EntryFor(p, all, MSHR[n].returned)
                       ELSE [MSHR[n] EXCEPT !.to_return = all]]
  BY DEF MissMerge
<1> DEFINE all == MSHR[n].to_return \cup p.to_return
           new == IF MSHR[n].type = "PREFETCH" /\ p.type # "PREFETCH"
                  THEN EntryFor(p, all, MSHR[n].returned)
                  ELSE [MSHR[n] EXCEPT !.to_return = all]
<1>3. n \in 1..Len(MSHR) /\ MSHR[n] \in MSHREntry
  BY MSHRElements
<1>4. all \in SUBSET Clients /\ MSHR[n].returned \in BOOLEAN
  BY <1>1, <1>3 DEF Packet, MSHREntry
<1>5. new \in MSHREntry
  <2>1. [MSHR[n] EXCEPT !.to_return = all] \in MSHREntry
    BY <1>3, <1>4 DEF MSHREntry
  <2> QED BY <1>1, <1>4, <2>1, EntryForType
<1>6. MSHR' \in Seq(MSHREntry) /\ Len(MSHR') <= MSHR_SIZE
  <2>1. MSHR' = [MSHR EXCEPT ![n] = new]
    BY <1>2
  <2> HIDE DEF new
  <2>2. [MSHR EXCEPT ![n] = new] \in Seq(MSHREntry) /\ Len([MSHR EXCEPT ![n] = new]) = Len(MSHR)
    BY <1>3, <1>5, MSHRElements, ExceptSeq
  <2> QED BY <2>1, <2>2, MSHRElements
<1> QED BY <1>6, DequeueType DEF MissMerge, TypeOK

LEMMA MissAllocateType == ASSUME TypeOK, NEW q \in QueueNames, MissAllocate(q) PROVE TypeOK'
<1> DEFINE p == Head(queues[q])
           e == EntryFor(p, p.to_return, FALSE)
<1>1. p \in Packet
  BY FrontType DEF MissAllocate
<1>2. e \in MSHREntry /\ BlockOf[p.addr] \in Blocks
  BY <1>1, EntryForType DEF Packet, Blocks
<1>3. MSHR' \in Seq(MSHREntry) /\ Len(MSHR') <= MSHR_SIZE
  <2>1. MSHR' = MSHR \/ MSHR' = Append(MSHR, e)
    BY DEF MissAllocate
  <2>2. Append(MSHR, e) \in Seq(MSHREntry) /\ Len(Append(MSHR, e)) = Len(MSHR) + 1
    BY <1>2, MSHRElements, AppendProperties
  <2>3. Len(MSHR) < MSHR_SIZE
    BY DEF MissAllocate, MSHRHasRoom
  <2> HIDE DEF e
  <2> QED BY <2>1, <2>2, <2>3, MSHRElements
<1>4. lower' \in [Blocks -> Nat]
  <2>1. lower' = lower \/ lower' = [lower EXCEPT ![BlockOf[p.addr]] = @ + 1]
    BY DEF MissAllocate
  <2>2. lower \in [Blocks -> Nat]
    BY DEF TypeOK
  <2> QED BY <1>2, <2>1, <2>2
<1> QED BY <1>3, <1>4, DequeueType DEF MissAllocate, TypeOK

LEMMA WriteMissType == TypeOK /\ WriteMiss => TypeOK'
<1> SUFFICES ASSUME TypeOK, WriteMiss PROVE TypeOK'
  OBVIOUS
<1>1. "WQ" \in QueueNames
  BY DEF QueueNames
<1>2. Head(queues["WQ"]) \in Packet
  BY <1>1, FrontType DEF WriteMiss
<1>3. inflight_writes' \in Seq(Packet)
  BY <1>2, AppendProperties DEF WriteMiss, TypeOK
<1> QED BY <1>1, <1>3, DequeueType DEF WriteMiss, TypeOK

\* M is the MSHR with entry n, now e, and entry k in each other's place.
IsSwapped(M, n, k, e) ==
  /\ M \in Seq(MSHREntry)
  /\ Len(M) = Len(MSHR)
  /\ \A l \in 1..Len(MSHR) : M[l] = IF l = k THEN e ELSE IF l = n THEN MSHR[k] ELSE MSHR[l]

LEMMA SwapInProperties ==
  ASSUME TypeOK, NEW n \in DOMAIN MSHR, NEW k \in DOMAIN MSHR, NEW e \in MSHREntry
  PROVE  IsSwapped(SwapIn(n, k, e), n, k, e)
<1> DEFINE M == [MSHR EXCEPT ![n] = MSHR[k]]
<1>1. /\ M \in Seq(MSHREntry) /\ Len(M) = Len(MSHR)
      /\ \A l \in 1..Len(MSHR) : M[l] = IF l = n THEN MSHR[k] ELSE MSHR[l]
  BY MSHRElements, ExceptSeq
<1>2. SwapIn(n, k, e) = [M EXCEPT ![k] = e]
  BY DEF SwapIn
<1> HIDE DEF M
<1>3. k \in 1..Len(M)
  BY <1>1, MSHRElements
<1> QED BY <1>1, <1>2, <1>3, ExceptSeq DEF IsSwapped

LEMMA ReturnDataType == ASSUME TypeOK, NEW b \in Blocks, ReturnData(b) PROVE TypeOK'
<1>1. PICK n, k \in DOMAIN MSHR : MSHR' = SwapIn(n, k, [MSHR[n] EXCEPT !.returned = TRUE])
  BY DEF ReturnData
<1>2. [MSHR[n] EXCEPT !.returned = TRUE] \in MSHREntry
  BY MSHRElements DEF MSHREntry
<1>3. MSHR' \in Seq(MSHREntry) /\ Len(MSHR') <= MSHR_SIZE
  BY <1>1, <1>2, SwapInProperties, MSHRElements DEF IsSwapped
<1>4. lower' \in [Blocks -> Nat]
  BY DEF ReturnData, TypeOK
<1> QED BY <1>3, <1>4 DEF ReturnData, TypeOK

\* e is an MSHR entry or a delayed write.
LEMMA FillBlockType ==
  ASSUME TypeOK, NEW e, FillBlock(e), e.addr \in Addrs, e.prefetch_from_this \in BOOLEAN
  PROVE  /\ block' \in [Sets -> [Ways -> Block \cup {Invalid}]]
         /\ waiting' \subseteq Clients \X Blocks
<1> DEFINE s == SetOf[BlockOf[e.addr]]
           new == [valid |-> TRUE, addr |-> e.addr, dirty |-> e.type = "WRITE",
                   prefetch |-> e.prefetch_from_this]
<1>1. s \in Sets
  BY DEF Sets, Blocks
<1>2. new \in Block
  BY DEF Block
<1>3. PICK w \in Ways : block' = [block EXCEPT ![s][w] = new]
  BY DEF FillBlock
<1>4. block' \in [Sets -> [Ways -> Block \cup {Invalid}]]
  <2> HIDE DEF new
  <2> QED BY <1>1, <1>2, <1>3 DEF TypeOK
<1> QED BY <1>4, AnsweredType DEF FillBlock, FillAnswers

LEMMA FillMissType == TypeOK /\ FillMiss => TypeOK'
<1> SUFFICES ASSUME TypeOK, FillMiss PROVE TypeOK'
  OBVIOUS
<1>1. Head(MSHR) \in MSHREntry /\ Tail(MSHR) \in Seq(MSHREntry) /\ Len(Tail(MSHR)) = Len(MSHR) - 1
  BY MSHRElements, HeadTailProperties DEF FillMiss
<1>2. Len(Tail(MSHR)) <= MSHR_SIZE
  BY <1>1, MSHRElements
<1>3. Head(MSHR).addr \in Addrs /\ Head(MSHR).prefetch_from_this \in BOOLEAN
  BY <1>1 DEF MSHREntry
<1> QED BY <1>1, <1>2, <1>3, FillBlockType DEF FillMiss, TypeOK

LEMMA FillWriteType == TypeOK /\ FillWrite => TypeOK'
<1> SUFFICES ASSUME TypeOK, FillWrite PROVE TypeOK'
  OBVIOUS
<1>1. Head(inflight_writes) \in Packet /\ Tail(inflight_writes) \in Seq(Packet)
  BY HeadTailProperties DEF TypeOK, FillWrite
<1>2. Head(inflight_writes).addr \in Addrs /\ Head(inflight_writes).prefetch_from_this \in BOOLEAN
  BY <1>1 DEF Packet
<1> QED BY <1>1, <1>2, FillBlockType DEF FillWrite, TypeOK

LEMMA InitType == Init => TypeOK
<1> SUFFICES ASSUME Init PROVE TypeOK
  OBVIOUS
<1>1. queues \in [QueueNames -> Seq(Packet)]
  BY EmptySeq DEF Init
<1>2. \A q \in QueueNames : Len(queues[q]) <= QueueSize[q]
  BY GeometryAssumption, EmptySeq DEF Init
<1>3. /\ MSHR \in Seq(MSHREntry) /\ Len(MSHR) <= MSHR_SIZE
      /\ inflight_writes \in Seq(Packet)
  BY GeometryAssumption, EmptySeq DEF Init
<1> QED BY <1>1, <1>2, <1>3, GeometryAssumption DEF Init, TypeOK

LEMMA NextType == TypeOK /\ [Next]_vars => TypeOK'
<1> SUFFICES ASSUME TypeOK, [Next]_vars PROVE TypeOK'
  OBVIOUS
<1>1. CASE Environment
  BY <1>1, EnvironmentType
<1>2. ASSUME NEW q \in QueueNames, CheckCollision(q) \/ TagCheck(q)
      PROVE  TypeOK'
  BY <1>2, CheckCollisionType, HitType, MissMergeType, MissAllocateType DEF TagCheck
<1>3. CASE WriteMiss \/ FillMiss \/ FillWrite
  BY <1>3, WriteMissType, FillMissType, FillWriteType
<1>4. ASSUME NEW b \in Blocks, ReturnData(b)
      PROVE  TypeOK'
  BY <1>4, ReturnDataType
<1>5. CASE UNCHANGED vars
  BY <1>5 DEF vars, TypeOK
<1> QED BY <1>1, <1>2, <1>3, <1>4, <1>5 DEF Next, Serve

\* The variables keep their types: in particular no queue and no MSHR outgrows
\* its size, though merged requests and answers arrive in any order.
THEOREM TypeCorrect == Spec => []TypeOK
BY InitType, NextType, PTL DEF Spec

-----------------------------------------------------------------------------
(* The MSHR and the level below.  With one entry per block, what the level *)
(* below owes is 1 for the blocks of the unreturned entries and 0 for the  *)
(* others; this is the form of EveryAnswerHasItsMiss that steps preserve.  *)

Awaited(b) == \E n \in DOMAIN MSHR : Unreturned(n) /\ BlockOf[MSHR[n].addr] = b

OwedOnce == \A b \in Blocks : lower[b] = IF Awaited(b) THEN 1 ELSE 0

MSHRInv == TypeOK /\ OneMissPerBlock /\ ReturnedFirst /\ OwedOnce

\* Only the blocks of the entries, and whether they have returned, matter.
LEMMA SameMisses ==
  ASSUME MSHRInv, TypeOK', UNCHANGED lower, Len(MSHR') = Len(MSHR),
         \A n \in 1..Len(MSHR) : /\ SameBlock(MSHR'[n].addr, MSHR[n].addr)
                                 /\ MSHR'[n].returned = MSHR[n].returned
  PROVE  MSHRInv'
<1>1. DOMAIN MSHR = 1..Len(MSHR) /\ DOMAIN MSHR' = 1..Len(MSHR)
  BY MSHRElements, LenProperties DEF MSHRInv, TypeOK
<1>2. OneMissPerBlock' /\ ReturnedFirst'
  BY <1>1 DEF MSHRInv, OneMissPerBlock, ReturnedFirst, SameBlock
<1>3. \A b \in Blocks : Awaited(b)' <=> Awaited(b)
  BY <1>1 DEF Awaited, Unreturned, SameBlock
<1>4. OwedOnce'
  BY <1>3 DEF MSHRInv, OwedOnce
<1> QED BY <1>2, <1>4 DEF MSHRInv

LEMMA MissMergeInv == ASSUME MSHRInv, TypeOK', NEW q \in QueueNames, MissMerge(q) PROVE MSHRInv'
<1> DEFINE p == Head(queues[q])
<1>1. PICK n \in DOMAIN MSHR :
        /\ InMSHR(p.addr, n)
        /\ LET all == MSHR[n].to_return \cup p.to_return
           IN  MSHR' = [MSHR EXCEPT ![n] =
                          IF MSHR[n].type = "PREFETCH" /\ p.type # "PREFETCH"
                          THEN EntryFor(p, all, MSHR[n].returned)
                          ELSE [MSHR[n] EXCEPT !.to_return = all]]
  BY DEF MissMerge
<1> DEFINE all == MSHR[n].to_return \cup p.to_return
           new == IF MSHR[n].type = "PREFETCH" /\ p.type # "PREFETCH"
                  THEN EntryFor(p, all, MSHR[n].returned)
                  ELSE [MSHR[n] EXCEPT !.to_return = all]
<1>2. MSHR' = [MSHR EXCEPT ![n] = new]
  BY <1>1
<1>3. SameBlock(new.addr, MSHR[n].addr) /\ new.returned = MSHR[n].returned
  <2>1. MSHR[n] \in MSHREntry /\ SameBlock(MSHR[n].addr, p.addr)
    BY <1>1, MSHRElements DEF MSHRInv, InMSHR
  <2>2. CASE MSHR[n].type = "PREFETCH" /\ p.type # "PREFETCH"
    BY <2>1, <2>2 DEF EntryFor, SameBlock
  <2>3. CASE ~(MSHR[n].type = "PREFETCH" /\ p.type # "PREFETCH")
    BY <2>1, <2>3 DEF MSHREntry, SameBlock
  <2> QED BY <2>2, <2>3
<1> HIDE DEF new
<1>4. /\ Len(MSHR') = Len(MSHR)
      /\ \A l \in 1..Len(MSHR) : MSHR'[l] = IF l = n THEN new ELSE MSHR[l]
  BY <1>2, MSHRElements, LenProperties DEF MSHRInv, TypeOK
<1>5. lower' = lower
  BY DEF MissMerge
<1>6. \A l \in 1..Len(MSHR) : /\ SameBlock(MSHR'[l].addr, MSHR[l].addr)
                              /\ MSHR'[l].returned = MSHR[l].returned
  BY <1>3, <1>4 DEF SameBlock
<1> QED BY <1>4, <1>5, <1>6, SameMisses

LEMMA MissAllocateInv ==
  ASSUME MSHRInv, TypeOK', NEW q \in QueueNames, MissAllocate(q)
  PROVE  MSHRInv'
<1> DEFINE p == Head(queues[q])
           e == EntryFor(p, p.to_return, FALSE)
           L == Len(MSHR)
<1>1. p \in Packet
  BY FrontType DEF MissAllocate, MSHRInv
<1>2. CASE UNCHANGED <<MSHR, lower>>
  BY <1>2, SameMisses DEF SameBlock
<1>3. CASE MSHR' = Append(MSHR, e) /\ lower' = [lower EXCEPT ![BlockOf[p.addr]] = @ + 1]
  <2>1. e \in MSHREntry /\ e.addr = p.addr /\ e.returned = FALSE /\ BlockOf[p.addr] \in Blocks
    BY <1>1, EntryForType DEF EntryFor, Packet, Blocks
  <2> HIDE DEF e
  <2>2. /\ L \in Nat /\ DOMAIN MSHR = 1..L /\ DOMAIN MSHR' = 1..(L + 1)
        /\ \A n \in 1..L : MSHR'[n] = MSHR[n]
        /\ MSHR'[L + 1] = e
    BY <1>3, <2>1, MSHRElements, AppendProperties, LenProperties DEF MSHRInv
  <2>3. \A n \in 1..L : ~SameBlock(MSHR[n].addr, p.addr)
    <3>1. \A n \in 1..L : ~InMSHR(p.addr, n)
      BY <2>2 DEF MissAllocate
    <3>2. SUFFICES ASSUME NEW n \in 1..L, SameBlock(MSHR[n].addr, p.addr) PROVE FALSE
      OBVIOUS
    <3>3. \A k \in 1..L : SameBlock(MSHR[k].addr, p.addr) => k = n
      BY <3>2, <2>2 DEF MSHRInv, OneMissPerBlock, SameBlock
    <3>4. InMSHR(p.addr, n)
      BY <3>2, <3>3, <2>2 DEF InMSHR
    <3> QED BY <3>1, <3>4
  <2>4. OneMissPerBlock'
    BY <2>1, <2>2, <2>3 DEF MSHRInv, OneMissPerBlock, SameBlock
  <2>5. ReturnedFirst'
    BY <2>1, <2>2 DEF MSHRInv, ReturnedFirst
  <2>6. \A b \in Blocks : Awaited(b)' <=> Awaited(b) \/ b = BlockOf[p.addr]
    BY <2>1, <2>2 DEF Awaited, Unreturned
  <2>7. ~Awaited(BlockOf[p.addr])
    BY <2>2, <2>3 DEF Awaited, SameBlock
  <2>8. lower \in [Blocks -> Nat]
    BY DEF MSHRInv, TypeOK
  <2>9. OwedOnce'
    BY <1>3, <2>1, <2>6, <2>7, <2>8 DEF MSHRInv, OwedOnce
  <2> QED BY <2>4, <2>5, <2>9 DEF MSHRInv
<1> QED BY <1>2, <1>3 DEF MissAllocate

LEMMA ReturnDataInv == ASSUME MSHRInv, TypeOK', NEW b \in Blocks, ReturnData(b) PROVE MSHRInv'
<1>1. PICK n, k \in DOMAIN MSHR :
        /\ BlockOf[MSHR[n].addr] = b
        /\ Unreturned(k)
        /\ \A l \in 1..(k - 1) : ~Unreturned(l)
        /\ MSHR' = SwapIn(n, k, [MSHR[n] EXCEPT !.returned = TRUE])
  BY DEF ReturnData
<1> DEFINE new == [MSHR[n] EXCEPT !.returned = TRUE]
           L == Len(MSHR)
<1>2. /\ L \in Nat /\ DOMAIN MSHR = 1..L
      /\ \A l \in 1..L : MSHR[l] \in MSHREntry /\ MSHR[l].returned \in BOOLEAN
  BY MSHRElements DEF MSHRInv, MSHREntry
<1>3. new \in MSHREntry /\ new.addr = MSHR[n].addr /\ new.returned = TRUE
  BY <1>2 DEF MSHREntry
<1>4. MSHR' = SwapIn(n, k, new)
  BY <1>1
<1> HIDE DEF new
<1>5. /\ DOMAIN MSHR' = 1..L
      /\ \A l \in 1..L : MSHR'[l] = IF l = k THEN new ELSE IF l = n THEN MSHR[k] ELSE MSHR[l]
  <2>1. /\ MSHR' \in Seq(MSHREntry) /\ Len(MSHR') = L
        /\ \A l \in 1..L : MSHR'[l] = IF l = k THEN new ELSE IF l = n THEN MSHR[k] ELSE MSHR[l]
    <3>1. TypeOK /\ n \in DOMAIN MSHR /\ k \in DOMAIN MSHR
      BY DEF MSHRInv
    <3>2. new \in MSHREntry
      BY <1>3
    <3>3. IsSwapped(MSHR', n, k, new)
      BY <1>4, <3>1, <3>2, SwapInProperties
    <3> QED BY <3>3 DEF IsSwapped
  <2> QED BY <2>1, LenProperties
<1>6. \A m, l \in 1..L : BlockOf[MSHR[m].addr] = BlockOf[MSHR[l].addr] => m = l
  BY <1>2 DEF MSHRInv, OneMissPerBlock, SameBlock
<1>7. Awaited(b) /\ ~MSHR[n].returned
  <2>1. Awaited(b)
    BY DEF MSHRInv, OwedOnce, ReturnData
  <2>2. QED BY <1>1, <1>2, <1>6, <2>1 DEF Awaited, Unreturned
<1>8. k <= n
  BY <1>1, <1>2, <1>7 DEF Unreturned
<1>9. OneMissPerBlock'
  <2>1. SUFFICES ASSUME NEW l \in 1..L, NEW m \in 1..L,
                        BlockOf[MSHR'[l].addr] = BlockOf[MSHR'[m].addr]
                 PROVE  l = m
    BY <1>5 DEF OneMissPerBlock, SameBlock
  <2> DEFINE Was(j) == IF j = k THEN n ELSE IF j = n THEN k ELSE j
  <2>2. \A j \in 1..L : Was(j) \in 1..L /\ BlockOf[MSHR'[j].addr] = BlockOf[MSHR[Was(j)].addr]
    BY <1>2, <1>3, <1>5
  <2>3. Was(l) = Was(m)
    BY <1>6, <2>1, <2>2
  <2>4. QED BY <2>3
<1>10. ReturnedFirst'
  <2>1. \A l \in 1..L : (l < k => MSHR[l].returned) /\ (l >= k => ~MSHR[l].returned)
    BY <1>1, <1>2 DEF MSHRInv, ReturnedFirst, Unreturned
  <2>2. \A l \in 1..L : (l <= k => MSHR'[l].returned) /\ (l > k => ~MSHR'[l].returned)
    BY <1>2, <1>3, <1>5, <1>8, <2>1
  <2>3. QED BY <1>2, <1>5, <2>2 DEF ReturnedFirst
<1>11. \A c \in Blocks : Awaited(c)' <=> Awaited(c) /\ c # b
  <2>1. \A c \in Blocks : Awaited(c)' => Awaited(c) /\ c # b
    <3>1. SUFFICES ASSUME NEW c \in Blocks, NEW l \in 1..L,
                          ~MSHR'[l].returned, BlockOf[MSHR'[l].addr] = c
                   PROVE  Awaited(c) /\ c # b
      BY <1>5 DEF Awaited, Unreturned
    <3>2. PICK m \in 1..L : MSHR'[l] = MSHR[m] /\ m # n
      BY <1>2, <1>3, <1>5, <1>8, <3>1
    <3>3. c # b
      BY <1>1, <1>2, <1>6, <3>1, <3>2
    <3> QED BY <1>2, <3>1, <3>2, <3>3 DEF Awaited, Unreturned
  <2>2. ASSUME NEW c \in Blocks, c # b, NEW l \in 1..L, ~MSHR[l].returned, BlockOf[MSHR[l].addr] = c
        PROVE  Awaited(c)'
    <3>1. l # n
      BY <1>1, <2>2
    <3>2. CASE l = k
      BY <1>1, <1>2, <1>5, <2>2, <3>1, <3>2 DEF Awaited, Unreturned
    <3>3. CASE l # k
      BY <1>2, <1>5, <2>2, <3>1, <3>3 DEF Awaited, Unreturned
    <3> QED BY <3>2, <3>3
  <2> QED BY <1>2, <2>1, <2>2 DEF Awaited, Unreturned
<1>12. OwedOnce'
  <2>1. lower \in [Blocks -> Nat] /\ lower' = [lower EXCEPT ![b] = @ - 1] /\ lower[b] = 1
    BY <1>7 DEF MSHRInv, OwedOnce, TypeOK, ReturnData
  <2> QED BY <1>11, <2>1 DEF MSHRInv, OwedOnce
<1> QED BY <1>9, <1>10, <1>12 DEF MSHRInv

LEMMA FillMissInv == ASSUME MSHRInv, TypeOK', FillMiss PROVE MSHRInv'
<1> DEFINE L == Len(MSHR)
<1>1. /\ L \in Nat \ {0} /\ DOMAIN MSHR = 1..L /\ DOMAIN MSHR' = 1..(L - 1)
      /\ \A n \in 1..(L - 1) : MSHR'[n] = MSHR[n + 1]
      /\ MSHR[1].returned
  <2>1. MSHR # <<>> /\ MSHR' = Tail(MSHR) /\ Head(MSHR).returned
    BY DEF FillMiss
  <2>2. Head(MSHR) = MSHR[1] /\ L # 0
    BY <2>1, MSHRElements, EmptySeq DEF MSHRInv
  <2> QED BY <2>1, <2>2, MSHRElements, HeadTailProperties, LenProperties DEF MSHRInv
<1>2. OneMissPerBlock' /\ ReturnedFirst'
  <2>1. \A m, n \in 1..L : BlockOf[MSHR[m].addr] = BlockOf[MSHR[n].addr] => m = n
    BY <1>1 DEF MSHRInv, OneMissPerBlock, SameBlock
  <2>2. OneMissPerBlock'
    <3>1. SUFFICES ASSUME NEW m \in 1..(L - 1), NEW n \in 1..(L - 1),
                          BlockOf[MSHR'[m].addr] = BlockOf[MSHR'[n].addr]
                   PROVE  m = n
      BY <1>1 DEF OneMissPerBlock, SameBlock
    <3>2. m + 1 \in 1..L /\ n + 1 \in 1..L /\ m + 1 = n + 1
      BY <1>1, <2>1, <3>1
    <3> QED BY <3>2
  <2>3. \A m, n \in 1..L : m < n /\ MSHR[n].returned => MSHR[m].returned
    BY <1>1 DEF MSHRInv, ReturnedFirst
  <2>4. ReturnedFirst'
    <3>1. SUFFICES ASSUME NEW m \in 1..(L - 1), NEW n \in 1..(L - 1), m < n, MSHR'[n].returned
                   PROVE  MSHR'[m].returned
      BY <1>1 DEF ReturnedFirst
    <3>2. m + 1 \in 1..L /\ n + 1 \in 1..L /\ m + 1 < n + 1
      BY <1>1, <3>1
    <3> QED BY <1>1, <2>3, <3>1, <3>2
  <2> QED BY <2>2, <2>4
<1>3. \A b \in Blocks : Awaited(b)' <=> Awaited(b)
  <2>1. \A b \in Blocks : Awaited(b)' => Awaited(b)
    BY <1>1 DEF Awaited, Unreturned
  <2>2. ASSUME NEW b \in Blocks, NEW n \in 1..L, ~MSHR[n].returned, BlockOf[MSHR[n].addr] = b
        PROVE  Awaited(b)'
    <3>1. n - 1 \in 1..(L - 1) /\ MSHR'[n - 1] = MSHR[n]
      BY <1>1, <2>2
    <3> QED BY <1>1, <2>2, <3>1 DEF Awaited, Unreturned
  <2> QED BY <1>1, <2>1, <2>2 DEF Awaited, Unreturned
<1>4. OwedOnce'
  BY <1>3 DEF MSHRInv, OwedOnce, FillMiss
<1> QED BY <1>2, <1>4 DEF MSHRInv

LEMMA InitInv == Init => MSHRInv
<1> SUFFICES ASSUME Init PROVE MSHRInv
  OBVIOUS
<1>1. DOMAIN MSHR = {} /\ \A b \in Blocks : lower[b] = 0
  BY DEF Init
<1> QED BY <1>1, InitType DEF MSHRInv, OneMissPerBlock, ReturnedFirst, OwedOnce, Awaited

LEMMA NextInv == MSHRInv /\ [Next]_vars => MSHRInv'
<1> SUFFICES ASSUME MSHRInv, [Next]_vars PROVE MSHRInv'
  OBVIOUS
<1>1. TypeOK'
  BY NextType DEF MSHRInv
<1>2. CASE UNCHANGED <<MSHR, lower>>
  BY <1>1, <1>2, SameMisses DEF SameBlock
<1>3. CASE Environment
  BY <1>2, <1>3 DEF Environment, Request, Write, PrefetchLine, Enqueue
<1>4. ASSUME NEW q \in QueueNames, CheckCollision(q) \/ TagCheck(q)
      PROVE  MSHRInv'
  <2>1. CASE CheckCollision(q) \/ Hit(q)
    BY <1>2, <2>1 DEF CheckCollision, Hit
  <2> QED BY <1>1, <1>4, <2>1, MissMergeInv, MissAllocateInv DEF TagCheck
<1>5. CASE WriteMiss \/ FillWrite
  BY <1>2, <1>5 DEF WriteMiss, FillWrite
<1>6. CASE FillMiss
  BY <1>1, <1>6, FillMissInv
<1>7. ASSUME NEW b \in Blocks, ReturnData(b)
      PROVE  MSHRInv'
  BY <1>1, <1>7, ReturnDataInv
<1>8. CASE UNCHANGED vars
  BY <1>2, <1>8 DEF vars
<1> QED BY <1>3, <1>4, <1>5, <1>6, <1>7, <1>8 DEF Next, Serve

LEMMA MSHRInvariant == Spec => []MSHRInv
BY InitInv, NextInv, PTL DEF Spec

\* handle_miss never opens a second miss for a block, from whatever queue the
\* request comes and whatever it took over: demands join prefetches, and
\* iter_swap keeps every entry findable.
THEOREM OneMiss == Spec => []OneMissPerBlock
BY MSHRInvariant, PTL DEF MSHRInv

\* return_data keeps the returned entries a prefix of the MSHR, which operate
\* relies on when it stops at the first entry that is not ready.
THEOREM ReturnedPrefix == Spec => []ReturnedFirst
BY MSHRInvariant, PTL DEF MSHRInv

LEMMA OwedOnceCounts == MSHRInv => EveryAnswerHasItsMiss
<1> SUFFICES ASSUME MSHRInv, NEW b \in Blocks
             PROVE  lower[b] = Cardinality({n \in DOMAIN MSHR : Unreturned(n) /\ BlockOf[MSHR[n].addr] = b})
  BY DEF EveryAnswerHasItsMiss
<1> DEFINE entries == {n \in DOMAIN MSHR : Unreturned(n) /\ BlockOf[MSHR[n].addr] = b}
<1>1. CASE Awaited(b)
  <2>1. PICK n \in entries : TRUE
    BY <1>1 DEF Awaited
  <2>2. \A m \in entries : m = n
    BY <2>1 DEF MSHRInv, OneMissPerBlock, SameBlock
  <2>3. entries = {n}
    BY <2>1, <2>2
  <2>4. Cardinality(entries) = 1
    BY <2>3, FS_Singleton
  <2> QED BY <1>1, <2>4 DEF MSHRInv, OwedOnce
<1>2. CASE ~Awaited(b)
  <2>1. entries = {}
    BY <1>2 DEF Awaited
  <2>2. Cardinality(entries) = 0
    BY <2>1, FS_EmptySet
  <2> QED BY <1>2, <2>2 DEF MSHRInv, OwedOnce
<1> QED BY <1>1, <1>2

\* Every answer the level below gives finds an entry waiting for it (the assert of
\* return_data), and every entry that waits is owed an answer.
THEOREM AnswersMatchMisses == Spec => []EveryAnswerHasItsMiss
BY MSHRInvariant, OwedOnceCounts, PTL

LEMMA OwedOnceAsks == MSHRInv => AsksOncePerBlock
BY DEF MSHRInv, OwedOnce, AsksOncePerBlock

\* The level below is never asked for a block it has not answered yet, so a cache
\* is to the next one the disciplined producer it expects.
THEOREM AsksOnce == Spec => []AsksOncePerBlock
BY MSHRInvariant, OwedOnceAsks, PTL


-----------------------------------------------------------------------------
(***************************************************************************)
(* What a cache owes its producers, and the blocks of an L1.               *)
(***************************************************************************)

\* A packet or an MSHR entry that will answer client c for block b.
Bears(p, c, b) == BlockOf[p.addr] = b /\ c \in p.to_return

HasBearer(Q, c, b) == \E n \in DOMAIN Q : Bears(Q[n], c, b)

AtMostOneBearer(Q, c, b) ==
  \A m, n \in DOMAIN Q : Bears(Q[m], c, b) /\ Bears(Q[n], c, b) => m = n

\* R is Q without its n-th element.
IsWithout(R, Q, n) ==
  /\ DOMAIN R = 1..(Len(Q) - 1)
  /\ \A l \in 1..(Len(Q) - 1) : R[l] = Q[IF l < n THEN l ELSE l + 1]

-----------------------------------------------------------------------------
(* Sequences.                                                              *)

LEMMA RemoveNthIsWithout ==
  ASSUME NEW S, NEW Q \in Seq(S), NEW n \in 1..Len(Q)
  PROVE  IsWithout(RemoveNth(Q, n), Q, n)
<1> DEFINE L == Len(Q)
           left == SubSeq(Q, 1, n - 1)
           right == SubSeq(Q, n + 1, L)
<1>1. L \in Nat /\ n \in 1..L /\ \A i \in 1..L : Q[i] \in S
  BY LenProperties, ElementOfSeq
<1>2. left \in Seq(S) /\ Len(left) = n - 1 /\ \A i \in 1..(n - 1) : left[i] = Q[i]
  <2>1. \A i \in 1..(n - 1) : Q[i] \in S
    BY <1>1
  <2> QED BY <2>1, <1>1, SubSeqProperties
<1>3. right \in Seq(S) /\ Len(right) = L - n /\ \A i \in 1..(L - n) : right[i] = Q[n + i]
  <2>1. \A i \in (n + 1)..L : Q[i] \in S
    BY <1>1
  <2> HIDE DEF L
  <2>2. /\ right \in Seq(S)
        /\ Len(right) = IF n + 1 <= L THEN L - (n + 1) + 1 ELSE 0
        /\ \A i \in 1..(L - (n + 1) + 1) : right[i] = Q[(n + 1) + i - 1]
    BY <2>1, <1>1, SubSeqProperties
  <2> HIDE DEF right
  <2>3. ASSUME NEW i \in 1..(L - n) PROVE right[i] = Q[n + i]
    <3>1. i \in 1..(L - (n + 1) + 1) /\ (n + 1) + i - 1 = n + i
      BY <1>1
    <3> QED BY <3>1, <2>2
  <2> QED BY <1>1, <2>2, <2>3
<1>4. /\ left \o right \in Seq(S) /\ Len(left \o right) = Len(left) + Len(right)
      /\ \A i \in 1..(Len(left) + Len(right)) :
           (left \o right)[i] = IF i <= Len(left) THEN left[i] ELSE right[i - Len(left)]
  BY <1>2, <1>3, ConcatProperties
<1>5. DOMAIN (left \o right) = 1..Len(left \o right)
  BY <1>4, LenProperties
<1>6. RemoveNth(Q, n) = left \o right
  BY DEF RemoveNth
<1> HIDE DEF L, left, right
<1>7. DOMAIN (left \o right) = 1..(L - 1)
  BY <1>1, <1>2, <1>3, <1>4, <1>5
<1>8. ASSUME NEW i \in 1..(L - 1) PROVE (left \o right)[i] = Q[IF i < n THEN i ELSE i + 1]
  <2>1. i \in 1..(Len(left) + Len(right))
    BY <1>1, <1>2, <1>3
  <2>2. CASE i < n
    <3>1. i \in 1..(n - 1) /\ i <= Len(left)
      BY <1>1, <1>2, <2>2
    <3> QED BY <1>2, <1>4, <2>1, <2>2, <3>1
  <2>3. CASE ~(i < n)
    <3>1. i - Len(left) \in 1..(L - n) /\ ~(i <= Len(left)) /\ n + (i - Len(left)) = i + 1
      BY <1>1, <1>2, <2>3
    <3>2. (left \o right)[i] = Q[n + (i - Len(left))]
      BY <1>3, <1>4, <2>1, <3>1
    <3> QED BY <2>3, <3>1, <3>2
  <2> QED BY <2>2, <2>3
<1> QED BY <1>6, <1>7, <1>8 DEF IsWithout, L

LEMMA TailIsWithout ==
  ASSUME NEW S, NEW Q \in Seq(S), Q # <<>>
  PROVE  /\ IsWithout(Tail(Q), Q, 1)
         /\ 1 \in 1..Len(Q) /\ Head(Q) = Q[1]
<1>1. /\ Tail(Q) \in Seq(S) /\ Len(Tail(Q)) = Len(Q) - 1
      /\ \A i \in 1..Len(Tail(Q)) : Tail(Q)[i] = Q[i + 1]
  BY HeadTailProperties
<1>2. DOMAIN Tail(Q) = 1..Len(Tail(Q)) /\ Len(Q) \in Nat /\ Len(Q) # 0
  BY <1>1, LenProperties, EmptySeq
<1> QED BY <1>1, <1>2 DEF IsWithout

\* What is borne without the n-th element.
LEMMA WithoutBearer ==
  ASSUME NEW S, NEW Q \in Seq(S), NEW n \in 1..Len(Q), NEW R, IsWithout(R, Q, n), NEW c, NEW b
  PROVE  /\ HasBearer(Q, c, b) => HasBearer(R, c, b) \/ Bears(Q[n], c, b)
         /\ HasBearer(R, c, b) => HasBearer(Q, c, b)
         /\ AtMostOneBearer(Q, c, b) => AtMostOneBearer(R, c, b)
         /\ AtMostOneBearer(Q, c, b) /\ Bears(Q[n], c, b) => ~HasBearer(R, c, b)
<1> DEFINE L == Len(Q)
           At(l) == IF l < n THEN l ELSE l + 1
<1>1. L \in Nat /\ n \in 1..L /\ DOMAIN Q = 1..L
  BY LenProperties
<1>2. DOMAIN R = 1..(L - 1) /\ \A l \in 1..(L - 1) : R[l] = Q[At(l)]
  BY DEF IsWithout
<1> HIDE DEF L
<1>3. \A l \in 1..(L - 1) : At(l) \in 1..L /\ At(l) # n
  BY <1>1
<1>4. \A k, l \in 1..(L - 1) : At(k) = At(l) => k = l
  BY <1>1
<1>5. \A k \in 1..L : k # n => \E l \in 1..(L - 1) : At(l) = k
  <2>1. SUFFICES ASSUME NEW k \in 1..L, k # n PROVE \E l \in 1..(L - 1) : At(l) = k
    OBVIOUS
  <2>2. CASE k < n
    <3>1. k \in 1..(L - 1) /\ At(k) = k
      BY <1>1, <2>2
    <3> QED BY <3>1
  <2>3. CASE k > n
    <3>1. k - 1 \in 1..(L - 1) /\ At(k - 1) = k
      BY <1>1, <2>3
    <3> QED BY <3>1
  <2> QED BY <1>1, <2>1, <2>2, <2>3
<1> HIDE DEF At
<1>6. HasBearer(Q, c, b) => HasBearer(R, c, b) \/ Bears(Q[n], c, b)
  BY <1>1, <1>2, <1>5 DEF HasBearer
<1>7. HasBearer(R, c, b) => HasBearer(Q, c, b)
  BY <1>1, <1>2, <1>3 DEF HasBearer
<1>8. AtMostOneBearer(Q, c, b) => AtMostOneBearer(R, c, b)
  BY <1>1, <1>2, <1>3, <1>4 DEF AtMostOneBearer
<1>9. AtMostOneBearer(Q, c, b) /\ Bears(Q[n], c, b) => ~HasBearer(R, c, b)
  BY <1>1, <1>2, <1>3 DEF AtMostOneBearer, HasBearer
<1> QED BY <1>6, <1>7, <1>8, <1>9

LEMMA AppendBearer ==
  ASSUME NEW S, NEW Q \in Seq(S), NEW p \in S, NEW c, NEW b
  PROVE  /\ HasBearer(Append(Q, p), c, b) <=> HasBearer(Q, c, b) \/ Bears(p, c, b)
         /\ AtMostOneBearer(Q, c, b) /\ ~(HasBearer(Q, c, b) /\ Bears(p, c, b)) =>
              AtMostOneBearer(Append(Q, p), c, b)
<1> DEFINE L == Len(Q)
           R == Append(Q, p)
<1>1. L \in Nat /\ DOMAIN Q = 1..L
  BY LenProperties
<1>2. DOMAIN R = 1..(L + 1) /\ (\A n \in 1..L : R[n] = Q[n]) /\ R[L + 1] = p
  BY AppendProperties, LenProperties
<1> HIDE DEF L, R
<1>3. \A n \in DOMAIN R : (n \in DOMAIN Q /\ R[n] = Q[n]) \/ (n = L + 1 /\ R[n] = p)
  BY <1>1, <1>2
<1>4. L + 1 \in DOMAIN R /\ DOMAIN Q \subseteq DOMAIN R
  BY <1>1, <1>2
<1>5. HasBearer(R, c, b) <=> HasBearer(Q, c, b) \/ Bears(p, c, b)
  BY <1>1, <1>2, <1>3, <1>4 DEF HasBearer
<1>6. AtMostOneBearer(Q, c, b) /\ ~(HasBearer(Q, c, b) /\ Bears(p, c, b)) => AtMostOneBearer(R, c, b)
  BY <1>3 DEF AtMostOneBearer, HasBearer
<1> QED BY <1>5, <1>6 DEF R

\* An element takes over the clients of p, which is for its block.
LEMMA TakeOverBearer ==
  ASSUME NEW S, NEW Q \in Seq(S), NEW m \in 1..Len(Q), NEW e \in S, NEW T, NEW p \in T,
         SameBlock(e.addr, Q[m].addr), SameBlock(Q[m].addr, p.addr),
         e.to_return = Q[m].to_return \cup p.to_return, NEW c, NEW b
  PROVE  HasBearer([Q EXCEPT ![m] = e], c, b) <=> HasBearer(Q, c, b) \/ Bears(p, c, b)
<1> DEFINE R == [Q EXCEPT ![m] = e]
<1>1. DOMAIN Q = 1..Len(Q) /\ DOMAIN R = 1..Len(Q) /\ m \in DOMAIN Q
  BY LenProperties
<1>2. \A n \in 1..Len(Q) : Bears(R[n], c, b) <=> Bears(Q[n], c, b) \/ (n = m /\ Bears(p, c, b))
  BY <1>1 DEF Bears, SameBlock
<1> HIDE DEF R
<1>3. HasBearer(R, c, b) <=> HasBearer(Q, c, b) \/ Bears(p, c, b)
  BY <1>1, <1>2 DEF HasBearer
<1> QED BY <1>3 DEF R

-----------------------------------------------------------------------------
(* The invariant.  Only reads and prefetches name producers, and a packet  *)
(* that does not fill the cache names none.  That an answer cannot come    *)
(* twice needs that a disciplined producer's request is in one place.      *)

InQueue(q, c, b) == HasBearer(queues[q], c, b)
InMisses(c, b) == HasBearer(MSHR, c, b)

NothingWritten == \A n \in DOMAIN inflight_writes : inflight_writes[n].to_return = {}

NothingExpected ==
  /\ \A q \in QueueNames : \A n \in DOMAIN queues[q] :
       ~queues[q][n].fill_this_level => queues[q][n].to_return = {}
  /\ \A n \in DOMAIN queues["WQ"] : queues["WQ"][n].to_return = {}
  /\ NothingWritten

\* The request of c for b is in one place.
InOnePlace(c, b) ==
  /\ \A q \in QueueNames : AtMostOneBearer(queues[q], c, b)
  /\ \A q, r \in QueueNames : InQueue(q, c, b) /\ InQueue(r, c, b) => q = r
  /\ \A q \in QueueNames : ~(InQueue(q, c, b) /\ InMisses(c, b))

AskedOnce == \A c \in Disciplined, b \in Blocks : InOnePlace(c, b)

ClientInv == MSHRInv /\ NothingExpected /\ NoLostWaiter /\ NoUnsolicitedAnswer /\ AskedOnce

LEMMA CarriedIs ==
  ASSUME NEW c, NEW b
  PROVE  Carried(c, b) <=> (\E q \in QueueNames : InQueue(q, c, b)) \/ InMisses(c, b)
BY DEF Carried, InQueue, InMisses, HasBearer, Bears

LEMMA CarriedIsNext ==
  ASSUME NEW c, NEW b
  PROVE  Carried(c, b)' <=> (\E q \in QueueNames : InQueue(q, c, b)') \/ InMisses(c, b)'
BY DEF Carried, InQueue, InMisses, HasBearer, Bears

LEMMA QueueElements ==
  ASSUME TypeOK, NEW q \in QueueNames
  PROVE  /\ queues[q] \in Seq(Packet)
         /\ Len(queues[q]) \in Nat /\ DOMAIN queues[q] = 1..Len(queues[q])
         /\ \A n \in DOMAIN queues[q] : queues[q][n] \in Packet
<1>1. queues[q] \in Seq(Packet)
  BY DEF TypeOK
<1> QED BY <1>1, LenProperties, ElementOfSeq

\* A step that answers p and leaves the other requests where they are, or moves them.
LEMMA AnsweredClients ==
  ASSUME ClientInv, NEW p, waiting' = Answered(p.to_return, p.addr),
         \A c, b : Carried(c, b) => Carried(c, b)' \/ Bears(p, c, b),
         \A c, b : Carried(c, b)' => Carried(c, b),
         \A c \in Disciplined, b \in Blocks : Bears(p, c, b) => ~Carried(c, b)'
  PROVE  NoLostWaiter' /\ NoUnsolicitedAnswer'
<1>1. NoLostWaiter'
  <2>1. SUFFICES ASSUME NEW w \in waiting' PROVE Carried(w[1], w[2])'
    BY DEF NoLostWaiter
  <2>2. w \in waiting /\ w \notin {<<c, BlockOf[p.addr]>> : c \in p.to_return}
    BY DEF Answered
  <2>3. w \in Clients \X Blocks
    BY <2>2 DEF ClientInv, MSHRInv, TypeOK
  <2>4. Carried(w[1], w[2])
    BY <2>2 DEF ClientInv, NoLostWaiter
  <2>5. ~Bears(p, w[1], w[2])
    BY <2>2, <2>3 DEF Bears
  <2> QED BY <2>4, <2>5
<1>2. NoUnsolicitedAnswer'
  <2>1. SUFFICES ASSUME NEW c \in Disciplined, NEW b \in Blocks, Carried(c, b)'
                 PROVE  <<c, b>> \in waiting'
    BY DEF NoUnsolicitedAnswer
  <2>2. <<c, b>> \in waiting /\ ~Bears(p, c, b)
    BY <2>1 DEF ClientInv, NoUnsolicitedAnswer
  <2>3. <<c, b>> \notin {<<d, BlockOf[p.addr]>> : d \in p.to_return}
    BY <2>2 DEF Bears
  <2> QED BY <2>2, <2>3 DEF Answered
<1> QED BY <1>1, <1>2

\* A step that answers nobody.
LEMMA SameClients ==
  ASSUME ClientInv, UNCHANGED waiting, \A c, b : Carried(c, b)' <=> Carried(c, b)
  PROVE  NoLostWaiter' /\ NoUnsolicitedAnswer'
BY DEF ClientInv, NoLostWaiter, NoUnsolicitedAnswer

-----------------------------------------------------------------------------
(* Steps on one queue.                                                     *)

\* p may stand in queue q.
Expects(q, p) == (~p.fill_this_level \/ q = "WQ") => p.to_return = {}

LEMMA QueueReplaced ==
  ASSUME TypeOK, NEW q \in QueueNames, NEW R, queues' = [queues EXCEPT ![q] = R]
  PROVE  /\ \A r \in QueueNames : queues'[r] = IF r = q THEN R ELSE queues[r]
         /\ \A r \in QueueNames : \A c, b : InQueue(r, c, b)' <=> IF r = q THEN HasBearer(R, c, b) ELSE InQueue(r, c, b)
<1>1. \A r \in QueueNames : queues'[r] = IF r = q THEN R ELSE queues[r]
  BY DEF TypeOK
<1> QED BY <1>1 DEF InQueue

LEMMA ExpectsNext ==
  ASSUME ClientInv, NEW q \in QueueNames, NEW R, queues' = [queues EXCEPT ![q] = R],
         \A n \in DOMAIN R : Expects(q, R[n]), NothingWritten'
  PROVE  NothingExpected'
<1>1. \A r \in QueueNames : queues'[r] = IF r = q THEN R ELSE queues[r]
  BY QueueReplaced DEF ClientInv, MSHRInv
<1>2. "WQ" \in QueueNames
  BY DEF QueueNames
<1> QED BY <1>1, <1>2 DEF ClientInv, NothingExpected, Expects

LEMMA ExpectsHere ==
  ASSUME ClientInv, NEW q \in QueueNames, NEW n \in DOMAIN queues[q]
  PROVE  Expects(q, queues[q][n])
BY DEF ClientInv, NothingExpected, Expects

LEMMA EnqueueClients ==
  ASSUME ClientInv, NEW q \in QueueNames, NEW p \in Packet, Enqueue(q, p), Expects(q, p),
         waiting' = waiting \cup {<<c, BlockOf[p.addr]>> : c \in p.to_return},
         \A c \in Disciplined : c \in p.to_return => <<c, BlockOf[p.addr]>> \notin waiting
  PROVE  NothingExpected' /\ NoLostWaiter' /\ NoUnsolicitedAnswer' /\ AskedOnce'
<1> DEFINE Q == queues[q]
           R == Append(Q, p)
<1>1. /\ TypeOK /\ Q \in Seq(Packet) /\ DOMAIN Q = 1..Len(Q) /\ Len(Q) \in Nat
      /\ queues' = [queues EXCEPT ![q] = R] /\ UNCHANGED <<MSHR, inflight_writes>>
  BY QueueElements DEF ClientInv, MSHRInv, Enqueue
<1>2. \A c, b : /\ HasBearer(R, c, b) <=> HasBearer(Q, c, b) \/ Bears(p, c, b)
                /\ AtMostOneBearer(Q, c, b) /\ ~(HasBearer(Q, c, b) /\ Bears(p, c, b)) => AtMostOneBearer(R, c, b)
  <2> HIDE DEF R, Q
  <2>1. Q \in Seq(Packet)
    BY <1>1
  <2> QED BY <2>1, AppendBearer DEF R
<1>3. \A n \in DOMAIN R : R[n] = p \/ (n \in DOMAIN Q /\ R[n] = Q[n])
  BY <1>1, AppendProperties, LenProperties
<1> HIDE DEF R
<1>4. NothingExpected'
  <2>1. \A n \in DOMAIN R : Expects(q, R[n])
    BY <1>3, ExpectsHere
  <2>2. NothingWritten'
    BY <1>1 DEF ClientInv, NothingExpected, NothingWritten
  <2> QED BY <1>1, <2>1, <2>2, ExpectsNext
<1>5. /\ \A r \in QueueNames : queues'[r] = IF r = q THEN R ELSE queues[r]
      /\ \A r \in QueueNames : \A c, b : InQueue(r, c, b)' <=> InQueue(r, c, b) \/ (r = q /\ Bears(p, c, b))
      /\ \A c, b : InMisses(c, b)' <=> InMisses(c, b)
  <2>1. \A r \in QueueNames : \A c, b : InQueue(r, c, b)' <=> IF r = q THEN HasBearer(R, c, b) ELSE InQueue(r, c, b)
    BY <1>1, QueueReplaced
  <2>2. \A r \in QueueNames : \A c, b : InQueue(r, c, b)' <=> InQueue(r, c, b) \/ (r = q /\ Bears(p, c, b))
    BY <1>2, <2>1 DEF InQueue
  <2>3. \A c, b : InMisses(c, b)' <=> InMisses(c, b)
    BY <1>1 DEF InMisses
  <2> QED BY <1>1, <2>2, <2>3, QueueReplaced
<1>6. \A c, b : Carried(c, b)' <=> Carried(c, b) \/ Bears(p, c, b)
  BY <1>5, CarriedIs, CarriedIsNext
<1>7. NoLostWaiter'
  <2>1. SUFFICES ASSUME NEW w \in waiting' PROVE Carried(w[1], w[2])'
    BY DEF NoLostWaiter
  <2>2. CASE w \in waiting
    BY <1>6, <2>2 DEF ClientInv, NoLostWaiter
  <2>3. CASE w \notin waiting
    BY <1>6, <2>1, <2>3 DEF Bears
  <2> QED BY <2>2, <2>3
<1>8. NoUnsolicitedAnswer'
  BY <1>6 DEF ClientInv, NoUnsolicitedAnswer, Bears
<1>9. ASSUME NEW c \in Disciplined, NEW b \in Blocks PROVE InOnePlace(c, b)'
  <2>1. InOnePlace(c, b)
    BY DEF ClientInv, AskedOnce
  <2>2. Bears(p, c, b) => ~Carried(c, b)
    BY DEF ClientInv, NoUnsolicitedAnswer, Bears
  <2>3. Bears(p, c, b) => (\A r \in QueueNames : ~InQueue(r, c, b)) /\ ~InMisses(c, b)
    BY <2>2, CarriedIs
  <2>4. \A r \in QueueNames : AtMostOneBearer(queues'[r], c, b)
    <3>1. AtMostOneBearer(R, c, b)
      BY <1>2, <2>1, <2>3 DEF InOnePlace, InQueue
    <3> QED BY <1>5, <2>1, <3>1 DEF InOnePlace
  <2> QED BY <1>5, <2>1, <2>3, <2>4 DEF InOnePlace
<1> QED BY <1>4, <1>7, <1>8, <1>9 DEF AskedOnce

\* The n-th packet of a queue leaves it.
LEMMA LeavesQueue ==
  ASSUME ClientInv, NEW q \in QueueNames, NEW n \in DOMAIN queues[q], NEW R,
         IsWithout(R, queues[q], n), queues' = [queues EXCEPT ![q] = R], NothingWritten'
  PROVE  /\ NothingExpected'
         /\ \A c, b : \A r \in QueueNames :
              /\ InQueue(r, c, b) => InQueue(r, c, b)' \/ (r = q /\ Bears(queues[q][n], c, b))
              /\ InQueue(r, c, b)' => InQueue(r, c, b)
         /\ \A c \in Disciplined, b \in Blocks :
              /\ \A r \in QueueNames : AtMostOneBearer(queues[r], c, b)'
              /\ Bears(queues[q][n], c, b) => ~InMisses(c, b) /\ \A r \in QueueNames : ~InQueue(r, c, b)'
<1> DEFINE Q == queues[q]
<1>1. /\ TypeOK /\ Q \in Seq(Packet) /\ DOMAIN Q = 1..Len(Q) /\ Len(Q) \in Nat /\ n \in 1..Len(Q)
  BY QueueElements DEF ClientInv, MSHRInv
<1>2. \A c, b :
        /\ HasBearer(Q, c, b) => HasBearer(R, c, b) \/ Bears(Q[n], c, b)
        /\ HasBearer(R, c, b) => HasBearer(Q, c, b)
        /\ AtMostOneBearer(Q, c, b) => AtMostOneBearer(R, c, b)
        /\ AtMostOneBearer(Q, c, b) /\ Bears(Q[n], c, b) => ~HasBearer(R, c, b)
  <2> HIDE DEF Q
  <2>1. Q \in Seq(Packet) /\ n \in 1..Len(Q)
    BY <1>1
  <2>2. IsWithout(R, Q, n)
    BY DEF Q
  <2> QED BY <2>1, <2>2, WithoutBearer
<1>3. /\ \A r \in QueueNames : queues'[r] = IF r = q THEN R ELSE queues[r]
      /\ \A r \in QueueNames : \A c, b : InQueue(r, c, b)' <=> IF r = q THEN HasBearer(R, c, b) ELSE InQueue(r, c, b)
  BY <1>1, QueueReplaced
<1>4. NothingExpected'
  <2>1. \A l \in DOMAIN R : \E k \in DOMAIN Q : R[l] = Q[k]
    BY <1>1 DEF IsWithout
  <2>2. \A l \in DOMAIN R : Expects(q, R[l])
    BY <2>1, ExpectsHere
  <2> QED BY <2>2, ExpectsNext
<1>5. \A c, b : \A r \in QueueNames :
        /\ InQueue(r, c, b) => InQueue(r, c, b)' \/ (r = q /\ Bears(Q[n], c, b))
        /\ InQueue(r, c, b)' => InQueue(r, c, b)
  BY <1>2, <1>3 DEF InQueue
<1>6. ASSUME NEW c \in Disciplined, NEW b \in Blocks
      PROVE  /\ \A r \in QueueNames : AtMostOneBearer(queues[r], c, b)'
             /\ Bears(Q[n], c, b) => ~InMisses(c, b) /\ \A r \in QueueNames : ~InQueue(r, c, b)'
  <2>1. InOnePlace(c, b)
    BY DEF ClientInv, AskedOnce
  <2>2. \A r \in QueueNames : AtMostOneBearer(queues'[r], c, b)
    BY <1>2, <1>3, <2>1 DEF InOnePlace
  <2>3. Bears(Q[n], c, b) => InQueue(q, c, b)
    BY DEF InQueue, HasBearer
  <2>4. Bears(Q[n], c, b) => ~InMisses(c, b) /\ \A r \in QueueNames : ~InQueue(r, c, b)'
    BY <1>2, <1>3, <2>1, <2>3 DEF InOnePlace
  <2> QED BY <2>2, <2>4
<1> QED BY <1>4, <1>5, <1>6

\* It goes on to the MSHR, or nobody expects anything of it.
LEMMA GoesOn ==
  ASSUME ClientInv, NEW q \in QueueNames, NEW n \in DOMAIN queues[q], NEW R,
         IsWithout(R, queues[q], n), queues' = [queues EXCEPT ![q] = R], NothingWritten',
         UNCHANGED waiting,
         \A c, b : InMisses(c, b)' <=> InMisses(c, b) \/ Bears(queues[q][n], c, b)
  PROVE  NothingExpected' /\ NoLostWaiter' /\ NoUnsolicitedAnswer' /\ AskedOnce'
<1> DEFINE p == queues[q][n]
<1>1. /\ NothingExpected'
      /\ \A c, b : \A r \in QueueNames :
           /\ InQueue(r, c, b) => InQueue(r, c, b)' \/ (r = q /\ Bears(p, c, b))
           /\ InQueue(r, c, b)' => InQueue(r, c, b)
      /\ \A c \in Disciplined, b \in Blocks :
           /\ \A r \in QueueNames : AtMostOneBearer(queues[r], c, b)'
           /\ Bears(p, c, b) => ~InMisses(c, b) /\ \A r \in QueueNames : ~InQueue(r, c, b)'
  BY LeavesQueue
<1>2. \A c, b : Bears(p, c, b) => InQueue(q, c, b)
  BY DEF InQueue, HasBearer
<1> HIDE DEF p
<1>3. \A c, b : InMisses(c, b)' <=> InMisses(c, b) \/ Bears(p, c, b)
  BY DEF p
<1>4. \A c, b : Carried(c, b)' <=> Carried(c, b)
  BY <1>1, <1>2, <1>3, CarriedIs, CarriedIsNext
<1>5. NoLostWaiter' /\ NoUnsolicitedAnswer'
  BY <1>4, SameClients
<1>6. ASSUME NEW c \in Disciplined, NEW b \in Blocks PROVE InOnePlace(c, b)'
  <2>1. InOnePlace(c, b)
    BY DEF ClientInv, AskedOnce
  <2>2. \A r, t \in QueueNames : InQueue(r, c, b)' /\ InQueue(t, c, b)' => r = t
    BY <1>1, <2>1 DEF InOnePlace
  <2>3. \A r \in QueueNames : ~(InQueue(r, c, b)' /\ InMisses(c, b)')
    BY <1>1, <1>3, <2>1 DEF InOnePlace
  <2> QED BY <1>1, <2>2, <2>3 DEF InOnePlace
<1> QED BY <1>1, <1>5, <1>6 DEF AskedOnce

\* It is answered.
LEMMA IsAnswered ==
  ASSUME ClientInv, NEW q \in QueueNames, NEW n \in DOMAIN queues[q], NEW R,
         IsWithout(R, queues[q], n), queues' = [queues EXCEPT ![q] = R], NothingWritten',
         waiting' = Answered(queues[q][n].to_return, queues[q][n].addr), UNCHANGED MSHR
  PROVE  NothingExpected' /\ NoLostWaiter' /\ NoUnsolicitedAnswer' /\ AskedOnce'
<1> DEFINE p == queues[q][n]
<1>1. /\ NothingExpected'
      /\ \A c, b : \A r \in QueueNames :
           /\ InQueue(r, c, b) => InQueue(r, c, b)' \/ (r = q /\ Bears(p, c, b))
           /\ InQueue(r, c, b)' => InQueue(r, c, b)
      /\ \A c \in Disciplined, b \in Blocks :
           /\ \A r \in QueueNames : AtMostOneBearer(queues[r], c, b)'
           /\ Bears(p, c, b) => ~InMisses(c, b) /\ \A r \in QueueNames : ~InQueue(r, c, b)'
  BY LeavesQueue
<1>2. waiting' = Answered(p.to_return, p.addr)
  OBVIOUS
<1> HIDE DEF p
<1>3. \A c, b : InMisses(c, b)' <=> InMisses(c, b)
  BY DEF InMisses
<1>4. /\ \A c, b : Carried(c, b) => Carried(c, b)' \/ Bears(p, c, b)
      /\ \A c, b : Carried(c, b)' => Carried(c, b)
      /\ \A c \in Disciplined, b \in Blocks : Bears(p, c, b) => ~Carried(c, b)'
  BY <1>1, <1>3, CarriedIs, CarriedIsNext
<1>5. NoLostWaiter' /\ NoUnsolicitedAnswer'
  BY <1>2, <1>4, AnsweredClients
<1>6. ASSUME NEW c \in Disciplined, NEW b \in Blocks PROVE InOnePlace(c, b)'
  <2>1. InOnePlace(c, b)
    BY DEF ClientInv, AskedOnce
  <2>2. \A r, t \in QueueNames : InQueue(r, c, b)' /\ InQueue(t, c, b)' => r = t
    BY <1>1, <2>1 DEF InOnePlace
  <2>3. \A r \in QueueNames : ~(InQueue(r, c, b)' /\ InMisses(c, b)')
    BY <1>1, <1>3, <2>1 DEF InOnePlace
  <2> QED BY <1>1, <2>2, <2>3 DEF InOnePlace
<1> QED BY <1>1, <1>5, <1>6 DEF AskedOnce

\* A queue that bears the same requests, each as often.
LEMMA StaysInQueue ==
  ASSUME ClientInv, NEW q \in QueueNames, NEW R, queues' = [queues EXCEPT ![q] = R],
         \A n \in DOMAIN R : Expects(q, R[n]), NothingWritten', UNCHANGED <<MSHR, waiting>>,
         \A c, b : /\ HasBearer(R, c, b) <=> HasBearer(queues[q], c, b)
                   /\ AtMostOneBearer(queues[q], c, b) => AtMostOneBearer(R, c, b)
  PROVE  NothingExpected' /\ NoLostWaiter' /\ NoUnsolicitedAnswer' /\ AskedOnce'
<1>1. NothingExpected'
  BY ExpectsNext
<1>2. /\ \A r \in QueueNames : queues'[r] = IF r = q THEN R ELSE queues[r]
      /\ \A r \in QueueNames : \A c, b : InQueue(r, c, b)' <=> IF r = q THEN HasBearer(R, c, b) ELSE InQueue(r, c, b)
  BY QueueReplaced DEF ClientInv, MSHRInv
<1>3. /\ \A r \in QueueNames : \A c, b : InQueue(r, c, b)' <=> InQueue(r, c, b)
      /\ \A c, b : InMisses(c, b)' <=> InMisses(c, b)
  BY <1>2 DEF InQueue, InMisses
<1>4. \A c, b : Carried(c, b)' <=> Carried(c, b)
  BY <1>3, CarriedIs, CarriedIsNext
<1>5. NoLostWaiter' /\ NoUnsolicitedAnswer'
  BY <1>4, SameClients
<1>6. ASSUME NEW c \in Disciplined, NEW b \in Blocks PROVE InOnePlace(c, b)'
  <2>1. InOnePlace(c, b)
    BY DEF ClientInv, AskedOnce
  <2>2. \A r \in QueueNames : AtMostOneBearer(queues'[r], c, b)
    BY <1>2, <2>1 DEF InOnePlace
  <2> QED BY <1>3, <2>1, <2>2 DEF InOnePlace
<1> QED BY <1>1, <1>5, <1>6 DEF AskedOnce

\* An element joins an earlier one for its block.
LEMMA JoinBearer ==
  ASSUME NEW S, NEW Q \in Seq(S), NEW n \in 1..Len(Q), NEW m \in 1..(n - 1), NEW e \in S,
         SameBlock(e.addr, Q[m].addr), SameBlock(Q[m].addr, Q[n].addr),
         e.to_return = Q[m].to_return \cup Q[n].to_return,
         NEW R, IsWithout(R, [Q EXCEPT ![m] = e], n), NEW c, NEW b
  PROVE  /\ HasBearer(R, c, b) <=> HasBearer(Q, c, b)
         /\ AtMostOneBearer(Q, c, b) => AtMostOneBearer(R, c, b)
<1> DEFINE M == [Q EXCEPT ![m] = e]
           L == Len(Q)
           At(l) == IF l < n THEN l ELSE l + 1
<1>1. L \in Nat /\ DOMAIN Q = 1..L /\ n \in 1..L /\ m \in 1..L /\ m \in 1..(L - 1) /\ m < n
  BY LenProperties
<1>2. M \in Seq(S) /\ Len(M) = L /\ DOMAIN M = 1..L
  BY <1>1, ExceptSeq, LenProperties
<1>3. \A k \in 1..L : Bears(M[k], c, b) <=> Bears(Q[k], c, b) \/ (k = m /\ Bears(Q[n], c, b))
  BY <1>1 DEF Bears, SameBlock
<1>4. IsWithout(R, M, n)
  OBVIOUS
<1> HIDE DEF M
<1>5. /\ HasBearer(M, c, b) => HasBearer(R, c, b) \/ Bears(M[n], c, b)
      /\ HasBearer(R, c, b) => HasBearer(M, c, b)
      /\ AtMostOneBearer(M, c, b) => AtMostOneBearer(R, c, b)
  BY <1>1, <1>2, <1>4, WithoutBearer
<1>6. DOMAIN R = 1..(L - 1) /\ \A l \in 1..(L - 1) : R[l] = M[At(l)]
  BY <1>2, <1>4 DEF IsWithout
<1>7. R[m] = M[m]
  BY <1>1, <1>6
<1>8. \A l \in 1..(L - 1) : At(l) \in 1..L /\ At(l) # n /\ (At(l) = m => l = m)
  <2> HIDE DEF L
  <2> QED BY <1>1
<1> HIDE DEF L, At
<1>9. HasBearer(R, c, b) <=> HasBearer(Q, c, b)
  BY <1>1, <1>2, <1>3, <1>5, <1>6, <1>7 DEF HasBearer
<1>10. AtMostOneBearer(Q, c, b) => AtMostOneBearer(R, c, b)
  <2>1. CASE Bears(Q[n], c, b)
    <3>1. SUFFICES ASSUME AtMostOneBearer(Q, c, b), NEW l \in 1..(L - 1), Bears(R[l], c, b) PROVE l = m
      BY <1>6 DEF AtMostOneBearer
    <3>2. ~Bears(Q[At(l)], c, b)
      BY <1>1, <1>8, <2>1, <3>1 DEF AtMostOneBearer
    <3> QED BY <1>3, <1>6, <1>8, <3>1, <3>2
  <2>2. CASE ~Bears(Q[n], c, b)
    <3>1. AtMostOneBearer(Q, c, b) => AtMostOneBearer(M, c, b)
      BY <1>1, <1>2, <1>3, <2>2 DEF AtMostOneBearer
    <3> QED BY <1>5, <3>1
  <2> QED BY <2>1, <2>2
<1> QED BY <1>9, <1>10

-----------------------------------------------------------------------------
(* The invariant, action by action.                                        *)

LEMMA EnvironmentClients ==
  ClientInv /\ Environment => NothingExpected' /\ NoLostWaiter' /\ NoUnsolicitedAnswer' /\ AskedOnce'
<1> SUFFICES ASSUME ClientInv, NEW a \in Addrs,
                    \/ \E c \in Clients, q \in {"RQ", "PQ", "PTWQ"} : Request(c, q, a)
                    \/ Write(a)
                    \/ \E fill \in BOOLEAN : PrefetchLine(a, fill)
             PROVE  NothingExpected' /\ NoLostWaiter' /\ NoUnsolicitedAnswer' /\ AskedOnce'
  BY DEF Environment
<1>1. ASSUME NEW c \in Clients, NEW q \in {"RQ", "PQ", "PTWQ"}, Request(c, q, a)
      PROVE  NothingExpected' /\ NoLostWaiter' /\ NoUnsolicitedAnswer' /\ AskedOnce'
  <2> DEFINE type == IF q = "PQ" THEN "PREFETCH" ELSE "LOAD"
             p == MakePacket(a, type, {c}, TRUE, FALSE)
  <2>1. p \in Packet
    <3>1. type \in Types /\ {c} \in SUBSET Clients
      BY DEF Types
    <3> QED BY <3>1, MakePacketType
  <2>2. p.addr = a /\ p.to_return = {c} /\ p.fill_this_level = TRUE
    BY DEF MakePacket
  <2>3. Enqueue(q, p) /\ waiting' = waiting \cup {<<c, BlockOf[a]>>}
        /\ (c \in Disciplined => <<c, BlockOf[a]>> \notin waiting)
    BY <1>1 DEF Request
  <2> HIDE DEF p
  <2>4. Expects(q, p) /\ q \in QueueNames
    BY <2>2 DEF Expects, QueueNames
  <2>5. waiting' = waiting \cup {<<d, BlockOf[p.addr]>> : d \in p.to_return}
    BY <2>2, <2>3
  <2>6. \A d \in Disciplined : d \in p.to_return => <<d, BlockOf[p.addr]>> \notin waiting
    BY <2>2, <2>3
  <2> QED BY <2>1, <2>3, <2>4, <2>5, <2>6, EnqueueClients
<1>2. ASSUME NEW q \in QueueNames, NEW p \in Packet, Enqueue(q, p), p.to_return = {}, UNCHANGED waiting
      PROVE  NothingExpected' /\ NoLostWaiter' /\ NoUnsolicitedAnswer' /\ AskedOnce'
  <2>1. Expects(q, p)
    BY <1>2 DEF Expects
  <2>2. waiting' = waiting \cup {<<d, BlockOf[p.addr]>> : d \in p.to_return}
    BY <1>2
  <2> QED BY <1>2, <2>1, <2>2, EnqueueClients
<1>3. CASE Write(a)
  <2> DEFINE p == MakePacket(a, "WRITE", {}, TRUE, FALSE)
  <2>1. p \in Packet /\ p.to_return = {} /\ "WQ" \in QueueNames
    BY MakePacketType DEF Types, MakePacket, QueueNames
  <2>2. Enqueue("WQ", p) /\ UNCHANGED waiting
    BY <1>3 DEF Write
  <2> HIDE DEF p
  <2> QED BY <2>1, <2>2, <1>2
<1>4. ASSUME NEW fill \in BOOLEAN, PrefetchLine(a, fill)
      PROVE  NothingExpected' /\ NoLostWaiter' /\ NoUnsolicitedAnswer' /\ AskedOnce'
  <2> DEFINE p == MakePacket(a, "PREFETCH", {}, fill, TRUE)
  <2>1. p \in Packet /\ p.to_return = {} /\ "PQ" \in QueueNames
    BY MakePacketType DEF Types, MakePacket, QueueNames
  <2>2. Enqueue("PQ", p) /\ UNCHANGED waiting
    BY <1>4 DEF PrefetchLine
  <2> HIDE DEF p
  <2> QED BY <2>1, <2>2, <1>2
<1> QED BY <1>1, <1>3, <1>4

LEMMA CheckCollisionClients ==
  ASSUME ClientInv, NEW q \in QueueNames, CheckCollision(q)
  PROVE  NothingExpected' /\ NoLostWaiter' /\ NoUnsolicitedAnswer' /\ AskedOnce'
<1> DEFINE Q == queues[q]
<1>1. PICK n \in DOMAIN Q :
         \/ /\ queues' = [queues EXCEPT ![q] = RemoveNth(@, n)]
            /\ waiting' = Answered(Q[n].to_return, Q[n].addr)
         \/ /\ \E m \in 1..(n - 1) :
                 /\ Collides(q, n - 1, q = "WQ" /\ match_offset_bits, Q[n].addr, m)
                 /\ LET merged == [Q EXCEPT ![m] = MergePackets(Q[n], @)]
                    IN  queues' = [queues EXCEPT ![q] = RemoveNth(merged, n)]
            /\ UNCHANGED waiting
         \/ /\ queues' = [queues EXCEPT ![q][n].forward_checked = TRUE]
            /\ UNCHANGED waiting
  BY Zenon DEF CheckCollision
<1>2. /\ Q \in Seq(Packet) /\ Len(Q) \in Nat /\ DOMAIN Q = 1..Len(Q)
      /\ \A k \in DOMAIN Q : Q[k] \in Packet
      /\ NothingWritten' /\ UNCHANGED MSHR
  BY QueueElements DEF ClientInv, MSHRInv, NothingExpected, NothingWritten, CheckCollision
<1>3. CASE queues' = [queues EXCEPT ![q] = RemoveNth(@, n)] /\ waiting' = Answered(Q[n].to_return, Q[n].addr)
  <2>1. IsWithout(RemoveNth(Q, n), Q, n)
    BY <1>2, RemoveNthIsWithout
  <2>2. queues' = [queues EXCEPT ![q] = RemoveNth(Q, n)]
    BY <1>3
  <2> QED BY <1>2, <1>3, <2>1, <2>2, IsAnswered
<1>4. ASSUME NEW m \in 1..(n - 1), UNCHANGED waiting,
             Collides(q, n - 1, q = "WQ" /\ match_offset_bits, Q[n].addr, m),
             LET merged == [Q EXCEPT ![m] = MergePackets(Q[n], @)]
             IN  queues' = [queues EXCEPT ![q] = RemoveNth(merged, n)]
      PROVE  NothingExpected' /\ NoLostWaiter' /\ NoUnsolicitedAnswer' /\ AskedOnce'
  <2> DEFINE e == MergePackets(Q[n], Q[m])
             M == [Q EXCEPT ![m] = e]
             R == RemoveNth(M, n)
  <2>1. m \in DOMAIN Q /\ m \in 1..Len(Q) /\ n \in 1..Len(Q)
    BY <1>2
  <2>2. SameBlock(Q[m].addr, Q[n].addr)
    BY <1>4 DEF Collides, SameBlock
  <2>3. /\ e \in Packet /\ e.addr = Q[m].addr
        /\ e.to_return = Q[m].to_return \cup Q[n].to_return
        /\ e.fill_this_level = (Q[m].fill_this_level \/ Q[n].fill_this_level)
    <3>1. Q[n] \in Packet /\ Q[m] \in Packet
      BY <1>2, <2>1
    <3> QED BY <3>1 DEF MergePackets, Packet
  <2>4. queues' = [queues EXCEPT ![q] = R]
    BY <1>4
  <2> HIDE DEF e
  <2>5. M \in Seq(Packet) /\ Len(M) = Len(Q) /\ \A k \in 1..Len(Q) : M[k] = IF k = m THEN e ELSE Q[k]
    BY <1>2, <2>1, <2>3, ExceptSeq
  <2>6. IsWithout(R, M, n)
    <3> HIDE DEF M
    <3> QED BY <2>1, <2>5, RemoveNthIsWithout
  <2>7. \A c, b : /\ HasBearer(R, c, b) <=> HasBearer(Q, c, b)
                  /\ AtMostOneBearer(Q, c, b) => AtMostOneBearer(R, c, b)
    <3> HIDE DEF R, Q
    <3>1. SameBlock(e.addr, Q[m].addr)
      BY <2>3 DEF SameBlock
    <3>2. Q \in Seq(Packet)
      BY <1>2
    <3> QED BY <2>1, <2>2, <2>3, <2>6, <3>1, <3>2, JoinBearer
  <2>8. \A k \in DOMAIN R : Expects(q, R[k])
    <3>1. \A k \in DOMAIN R : \E l \in DOMAIN Q : R[k] = M[l]
      <4> HIDE DEF Q, R, M
      <4>1. Len(M) \in Nat /\ n \in 1..Len(M) /\ DOMAIN Q = 1..Len(M)
        BY <1>2, <2>5
      <4> QED BY <2>6, <4>1 DEF IsWithout
    <3>2. Expects(q, e)
      BY <2>1, <2>3, ExpectsHere DEF Expects
    <3> HIDE DEF R, M
    <3> QED BY <1>2, <2>5, <3>1, <3>2, ExpectsHere
  <2> HIDE DEF R
  <2> QED BY <1>2, <1>4, <2>4, <2>7, <2>8, StaysInQueue
<1>5. CASE queues' = [queues EXCEPT ![q][n].forward_checked = TRUE] /\ UNCHANGED waiting
  <2> DEFINE e == [Q[n] EXCEPT !.forward_checked = TRUE]
             R == [Q EXCEPT ![n] = e]
  <2>1. e.addr = Q[n].addr /\ e.to_return = Q[n].to_return /\ e.fill_this_level = Q[n].fill_this_level
    BY <1>2 DEF Packet
  <2>2. queues' = [queues EXCEPT ![q] = R]
    BY <1>5
  <2> HIDE DEF e
  <2>3. DOMAIN R = DOMAIN Q /\ \A k \in DOMAIN Q : R[k] = IF k = n THEN e ELSE Q[k]
    OBVIOUS
  <2> HIDE DEF R
  <2>4. \A k \in DOMAIN R : Expects(q, R[k])
    BY <2>1, <2>3, ExpectsHere DEF Expects
  <2>5. \A c, b, k : k \in DOMAIN Q => (Bears(R[k], c, b) <=> Bears(Q[k], c, b))
    BY <2>1, <2>3 DEF Bears
  <2>6. \A c, b : /\ HasBearer(R, c, b) <=> HasBearer(Q, c, b)
                  /\ AtMostOneBearer(Q, c, b) => AtMostOneBearer(R, c, b)
    BY <2>3, <2>5 DEF HasBearer, AtMostOneBearer
  <2> QED BY <1>2, <1>5, <2>2, <2>4, <2>6, StaysInQueue
<1> QED BY <1>1, <1>3, <1>4, <1>5

\* The front of a queue leaves it.
LEMMA FrontLeaves ==
  ASSUME ClientInv, NEW q \in QueueNames, queues[q] # <<>>, Dequeue(q)
  PROVE  /\ 1 \in DOMAIN queues[q] /\ Head(queues[q]) = queues[q][1] /\ Head(queues[q]) \in Packet
         /\ IsWithout(Tail(queues[q]), queues[q], 1)
         /\ queues' = [queues EXCEPT ![q] = Tail(queues[q])]
<1>1. /\ queues[q] \in Seq(Packet) /\ DOMAIN queues[q] = 1..Len(queues[q])
      /\ Head(queues[q]) \in Packet
  BY QueueElements, FrontType DEF ClientInv, MSHRInv
<1> QED BY <1>1, TailIsWithout DEF Dequeue

LEMMA HitClients ==
  ASSUME ClientInv, NEW q \in QueueNames, Hit(q)
  PROVE  NothingExpected' /\ NoLostWaiter' /\ NoUnsolicitedAnswer' /\ AskedOnce'
<1>1. /\ queues[q] # <<>> /\ Dequeue(q)
      /\ waiting' = Answered(Head(queues[q]).to_return, Head(queues[q]).addr)
      /\ UNCHANGED <<MSHR, inflight_writes>>
  BY DEF Hit
<1>2. NothingWritten'
  BY <1>1 DEF ClientInv, NothingExpected, NothingWritten
<1> QED BY <1>1, <1>2, FrontLeaves, IsAnswered

LEMMA MissMergeClients ==
  ASSUME ClientInv, NEW q \in QueueNames, MissMerge(q)
  PROVE  NothingExpected' /\ NoLostWaiter' /\ NoUnsolicitedAnswer' /\ AskedOnce'
<1> DEFINE p == Head(queues[q])
<1>1. PICK n \in DOMAIN MSHR :
        /\ InMSHR(p.addr, n)
        /\ LET all == MSHR[n].to_return \cup p.to_return
           IN  MSHR' = [MSHR EXCEPT ![n] =
                          IF MSHR[n].type = "PREFETCH" /\ p.type # "PREFETCH"
                          THEN EntryFor(p, all, MSHR[n].returned)
                          ELSE [MSHR[n] EXCEPT !.to_return = all]]
  BY DEF MissMerge
<1>2. /\ queues[q] # <<>> /\ Dequeue(q) /\ UNCHANGED <<waiting, inflight_writes>>
  BY DEF MissMerge
<1>3. /\ NothingWritten' /\ p \in Packet
      /\ 1 \in DOMAIN queues[q] /\ p = queues[q][1]
  BY <1>2, FrontLeaves DEF ClientInv, NothingExpected, NothingWritten
<1> DEFINE all == MSHR[n].to_return \cup p.to_return
           e == IF MSHR[n].type = "PREFETCH" /\ p.type # "PREFETCH"
                THEN EntryFor(p, all, MSHR[n].returned)
                ELSE [MSHR[n] EXCEPT !.to_return = all]
<1>4. /\ MSHR \in Seq(MSHREntry) /\ n \in 1..Len(MSHR) /\ MSHR[n] \in MSHREntry
      /\ SameBlock(MSHR[n].addr, p.addr)
  BY <1>1, MSHRElements DEF ClientInv, MSHRInv, InMSHR
<1>5. e \in MSHREntry /\ SameBlock(e.addr, MSHR[n].addr) /\ e.to_return = MSHR[n].to_return \cup p.to_return
  <2>1. all \in SUBSET Clients /\ MSHR[n].returned \in BOOLEAN
    BY <1>3, <1>4 DEF Packet, MSHREntry
  <2>2. CASE MSHR[n].type = "PREFETCH" /\ p.type # "PREFETCH"
    <3>1. e = EntryFor(p, all, MSHR[n].returned)
      BY <2>2
    <3>2. e \in MSHREntry
      BY <1>3, <2>1, <3>1, EntryForType
    <3>3. e.addr = p.addr /\ e.to_return = all
      BY <3>1 DEF EntryFor
    <3> QED BY <1>4, <3>2, <3>3 DEF SameBlock
  <2>3. CASE ~(MSHR[n].type = "PREFETCH" /\ p.type # "PREFETCH")
    <3>1. e = [MSHR[n] EXCEPT !.to_return = all]
      BY <2>3
    <3> HIDE DEF e
    <3> QED BY <1>4, <2>1, <3>1 DEF MSHREntry, SameBlock
  <2> QED BY <2>2, <2>3
<1>6. MSHR' = [MSHR EXCEPT ![n] = e]
  BY <1>1
<1> HIDE DEF e, p
<1>7. \A c, b : InMisses(c, b)' <=> InMisses(c, b) \/ Bears(p, c, b)
  <2>1. \A c, b : HasBearer([MSHR EXCEPT ![n] = e], c, b) <=> HasBearer(MSHR, c, b) \/ Bears(p, c, b)
    BY <1>3, <1>4, <1>5, TakeOverBearer
  <2> QED BY <1>6, <2>1 DEF InMisses
<1> QED BY <1>2, <1>3, <1>7, FrontLeaves, GoesOn DEF p

LEMMA MissAllocateClients ==
  ASSUME ClientInv, NEW q \in QueueNames, MissAllocate(q)
  PROVE  NothingExpected' /\ NoLostWaiter' /\ NoUnsolicitedAnswer' /\ AskedOnce'
<1> DEFINE p == Head(queues[q])
           e == EntryFor(p, p.to_return, FALSE)
<1>1. /\ queues[q] # <<>> /\ Dequeue(q) /\ UNCHANGED <<waiting, inflight_writes>>
      /\ \/ p.fill_this_level /\ MSHR' = Append(MSHR, e)
         \/ ~p.fill_this_level /\ UNCHANGED MSHR
  BY DEF MissAllocate
<1>2. /\ NothingWritten' /\ p \in Packet
      /\ 1 \in DOMAIN queues[q] /\ p = queues[q][1]
  BY <1>1, FrontLeaves DEF ClientInv, NothingExpected, NothingWritten
<1>3. e \in MSHREntry /\ e.addr = p.addr /\ e.to_return = p.to_return
  <2>1. e \in MSHREntry
    BY <1>2, EntryForType DEF Packet
  <2> QED BY <2>1 DEF EntryFor
<1>4. ~p.fill_this_level => p.to_return = {}
  BY <1>2 DEF ClientInv, NothingExpected
<1>5. MSHR \in Seq(MSHREntry)
  BY DEF ClientInv, MSHRInv, TypeOK
<1> HIDE DEF e, p
<1>6. \A c, b : InMisses(c, b)' <=> InMisses(c, b) \/ Bears(p, c, b)
  <2>1. CASE p.fill_this_level /\ MSHR' = Append(MSHR, e)
    <3>1. \A c, b : HasBearer(Append(MSHR, e), c, b) <=> HasBearer(MSHR, c, b) \/ Bears(e, c, b)
      BY <1>3, <1>5, AppendBearer
    <3> QED BY <1>3, <2>1, <3>1 DEF InMisses, Bears
  <2>2. CASE ~p.fill_this_level /\ UNCHANGED MSHR
    BY <1>4, <2>2 DEF InMisses, Bears
  <2> QED BY <1>1, <2>1, <2>2
<1> QED BY <1>1, <1>2, <1>6, FrontLeaves, GoesOn DEF p

LEMMA WriteMissClients ==
  ClientInv /\ WriteMiss => NothingExpected' /\ NoLostWaiter' /\ NoUnsolicitedAnswer' /\ AskedOnce'
<1> SUFFICES ASSUME ClientInv, WriteMiss
             PROVE  NothingExpected' /\ NoLostWaiter' /\ NoUnsolicitedAnswer' /\ AskedOnce'
  OBVIOUS
<1> DEFINE p == Head(queues["WQ"])
<1>1. /\ queues["WQ"] # <<>> /\ Dequeue("WQ") /\ UNCHANGED <<waiting, MSHR>>
      /\ inflight_writes' = Append(inflight_writes, p) /\ "WQ" \in QueueNames
  BY DEF WriteMiss, QueueNames
<1>2. 1 \in DOMAIN queues["WQ"] /\ p = queues["WQ"][1] /\ p \in Packet
  BY <1>1, FrontLeaves
<1>3. p.to_return = {}
  BY <1>2 DEF ClientInv, NothingExpected
<1>4. NothingWritten'
  <2>1. inflight_writes \in Seq(Packet) /\ \A n \in DOMAIN inflight_writes : inflight_writes[n].to_return = {}
    BY DEF ClientInv, MSHRInv, TypeOK, NothingExpected, NothingWritten
  <2> HIDE DEF p
  <2>2. \A n \in DOMAIN inflight_writes' :
          inflight_writes'[n] = p \/ (n \in DOMAIN inflight_writes /\ inflight_writes'[n] = inflight_writes[n])
    BY <1>1, <1>2, <2>1, AppendProperties, LenProperties
  <2> QED BY <1>3, <2>1, <2>2 DEF NothingWritten
<1>5. \A c, b : InMisses(c, b)' <=> InMisses(c, b) \/ Bears(p, c, b)
  BY <1>1, <1>3 DEF InMisses, Bears
<1> QED BY <1>1, <1>2, <1>4, <1>5, FrontLeaves, GoesOn

\* The MSHR alone changes, and its entries bear what they bore.
LEMMA ReturnDataClients ==
  ASSUME ClientInv, NEW b \in Blocks, ReturnData(b)
  PROVE  NothingExpected' /\ NoLostWaiter' /\ NoUnsolicitedAnswer' /\ AskedOnce'
<1>1. PICK n, k \in DOMAIN MSHR : MSHR' = SwapIn(n, k, [MSHR[n] EXCEPT !.returned = TRUE])
  BY DEF ReturnData
<1> DEFINE e == [MSHR[n] EXCEPT !.returned = TRUE]
<1>2. /\ TypeOK /\ DOMAIN MSHR = 1..Len(MSHR) /\ MSHR[n] \in MSHREntry
  BY MSHRElements DEF ClientInv, MSHRInv
<1>3. e \in MSHREntry /\ e.addr = MSHR[n].addr /\ e.to_return = MSHR[n].to_return
  BY <1>2 DEF MSHREntry
<1>4. MSHR' = SwapIn(n, k, e)
  BY <1>1
<1> HIDE DEF e
<1>5. IsSwapped(MSHR', n, k, e)
  BY <1>2, <1>3, <1>4, SwapInProperties
<1>6. /\ DOMAIN MSHR' = DOMAIN MSHR
      /\ \A l \in DOMAIN MSHR : MSHR'[l] = IF l = k THEN e ELSE IF l = n THEN MSHR[k] ELSE MSHR[l]
  BY <1>2, <1>5, LenProperties DEF IsSwapped
<1>7. \A c, d : InMisses(c, d)' <=> InMisses(c, d)
  BY <1>3, <1>6 DEF InMisses, HasBearer, Bears
<1>8. UNCHANGED <<queues, inflight_writes, waiting>>
  BY DEF ReturnData
<1>9. /\ \A q \in QueueNames : \A c, d : InQueue(q, c, d)' <=> InQueue(q, c, d)
      /\ \A q \in QueueNames : \A c, d : AtMostOneBearer(queues[q], c, d)' <=> AtMostOneBearer(queues[q], c, d)
      /\ NothingExpected'
  BY <1>8 DEF InQueue, HasBearer, AtMostOneBearer, ClientInv, NothingExpected, NothingWritten
<1>10. \A c, d : Carried(c, d)' <=> Carried(c, d)
  BY <1>7, <1>9, CarriedIs, CarriedIsNext
<1>11. NoLostWaiter' /\ NoUnsolicitedAnswer'
  BY <1>8, <1>10, SameClients
<1>12. AskedOnce'
  BY <1>7, <1>9 DEF ClientInv, AskedOnce, InOnePlace
<1> QED BY <1>9, <1>11, <1>12

LEMMA FillMissClients ==
  ClientInv /\ FillMiss => NothingExpected' /\ NoLostWaiter' /\ NoUnsolicitedAnswer' /\ AskedOnce'
<1> SUFFICES ASSUME ClientInv, FillMiss
             PROVE  NothingExpected' /\ NoLostWaiter' /\ NoUnsolicitedAnswer' /\ AskedOnce'
  OBVIOUS
<1> DEFINE e == Head(MSHR)
<1>1. /\ MSHR # <<>> /\ MSHR' = Tail(MSHR) /\ waiting' = Answered(e.to_return, e.addr)
      /\ UNCHANGED <<queues, inflight_writes>>
  BY DEF FillMiss, FillBlock, FillAnswers
<1>2. MSHR \in Seq(MSHREntry) /\ DOMAIN MSHR = 1..Len(MSHR)
  BY MSHRElements DEF ClientInv, MSHRInv
<1>3. IsWithout(MSHR', MSHR, 1) /\ 1 \in 1..Len(MSHR) /\ e = MSHR[1]
  BY <1>1, <1>2, TailIsWithout
<1> HIDE DEF e
<1>4. \A c, b : /\ HasBearer(MSHR, c, b) => HasBearer(MSHR', c, b) \/ Bears(e, c, b)
                /\ HasBearer(MSHR', c, b) => HasBearer(MSHR, c, b)
                /\ AtMostOneBearer(MSHR, c, b) /\ Bears(e, c, b) => ~HasBearer(MSHR', c, b)
  BY <1>2, <1>3, WithoutBearer
<1>5. \A c, b : AtMostOneBearer(MSHR, c, b)
  BY DEF ClientInv, MSHRInv, OneMissPerBlock, SameBlock, AtMostOneBearer, Bears
<1>6. /\ \A c, b : InMisses(c, b) => InMisses(c, b)' \/ Bears(e, c, b)
      /\ \A c, b : InMisses(c, b)' => InMisses(c, b)
      /\ \A c, b : Bears(e, c, b) => InMisses(c, b) /\ ~InMisses(c, b)'
  <2>1. \A c, b : Bears(e, c, b) => HasBearer(MSHR, c, b)
    BY <1>2, <1>3 DEF HasBearer
  <2> QED BY <1>4, <1>5, <2>1 DEF InMisses
<1>7. /\ \A q \in QueueNames : \A c, d : InQueue(q, c, d)' <=> InQueue(q, c, d)
      /\ \A q \in QueueNames : \A c, d : AtMostOneBearer(queues[q], c, d)' <=> AtMostOneBearer(queues[q], c, d)
      /\ NothingExpected'
  BY <1>1 DEF InQueue, HasBearer, AtMostOneBearer, ClientInv, NothingExpected, NothingWritten
<1>8. ASSUME NEW c \in Disciplined, NEW b \in Blocks
      PROVE  InOnePlace(c, b)' /\ (Bears(e, c, b) => ~Carried(c, b)')
  <2>1. InOnePlace(c, b)
    BY DEF ClientInv, AskedOnce
  <2>2. InOnePlace(c, b)'
    BY <1>6, <1>7, <2>1 DEF InOnePlace
  <2>3. Bears(e, c, b) => ~Carried(c, b)'
    BY <1>6, <1>7, <2>1, CarriedIsNext DEF InOnePlace
  <2> QED BY <2>2, <2>3
<1>9. /\ \A c, b : Carried(c, b) => Carried(c, b)' \/ Bears(e, c, b)
      /\ \A c, b : Carried(c, b)' => Carried(c, b)
  BY <1>6, <1>7, CarriedIs, CarriedIsNext
<1>10. NoLostWaiter' /\ NoUnsolicitedAnswer'
  BY <1>1, <1>8, <1>9, AnsweredClients
<1> QED BY <1>7, <1>8, <1>10 DEF AskedOnce

LEMMA FillWriteClients ==
  ClientInv /\ FillWrite => NothingExpected' /\ NoLostWaiter' /\ NoUnsolicitedAnswer' /\ AskedOnce'
<1> SUFFICES ASSUME ClientInv, FillWrite
             PROVE  NothingExpected' /\ NoLostWaiter' /\ NoUnsolicitedAnswer' /\ AskedOnce'
  OBVIOUS
<1> DEFINE e == Head(inflight_writes)
<1>1. /\ inflight_writes # <<>> /\ inflight_writes' = Tail(inflight_writes)
      /\ waiting' = Answered(e.to_return, e.addr)
      /\ UNCHANGED <<queues, MSHR>>
  BY DEF FillWrite, FillBlock, FillAnswers
<1>2. /\ inflight_writes \in Seq(Packet)
      /\ \A n \in DOMAIN inflight_writes : inflight_writes[n].to_return = {}
  BY DEF ClientInv, MSHRInv, TypeOK, NothingExpected, NothingWritten
<1>3. /\ IsWithout(inflight_writes', inflight_writes, 1) /\ 1 \in 1..Len(inflight_writes)
      /\ e = inflight_writes[1] /\ DOMAIN inflight_writes = 1..Len(inflight_writes)
      /\ Len(inflight_writes) \in Nat
  BY <1>1, <1>2, TailIsWithout, LenProperties
<1> HIDE DEF e
<1>4. UNCHANGED waiting
  BY <1>1, <1>2, <1>3 DEF Answered
<1>5. NothingWritten'
  <2>1. \A l \in DOMAIN inflight_writes' : \E k \in DOMAIN inflight_writes : inflight_writes'[l] = inflight_writes[k]
    BY <1>3 DEF IsWithout
  <2> QED BY <1>2, <2>1 DEF NothingWritten
<1>6. NothingExpected'
  BY <1>1, <1>5 DEF ClientInv, NothingExpected
<1> QED BY <1>1, <1>4, <1>6 DEF ClientInv, NoLostWaiter, NoUnsolicitedAnswer, AskedOnce, InOnePlace,
           Carried, InQueue, InMisses, HasBearer, AtMostOneBearer

LEMMA InitClients == Init => ClientInv
<1> SUFFICES ASSUME Init PROVE ClientInv
  OBVIOUS
<1>1. /\ \A q \in QueueNames : DOMAIN queues[q] = {}
      /\ DOMAIN MSHR = {} /\ DOMAIN inflight_writes = {} /\ waiting = {}
      /\ "WQ" \in QueueNames
  BY DEF Init, QueueNames
<1>2. NothingExpected /\ NoLostWaiter
  BY <1>1 DEF NothingExpected, NothingWritten, NoLostWaiter
<1>3. \A c, b : ~InMisses(c, b) /\ \A q \in QueueNames : ~InQueue(q, c, b) /\ AtMostOneBearer(queues[q], c, b)
  BY <1>1 DEF InMisses, InQueue, HasBearer, AtMostOneBearer
<1>4. NoUnsolicitedAnswer /\ AskedOnce
  BY <1>3, CarriedIs DEF NoUnsolicitedAnswer, AskedOnce, InOnePlace
<1> QED BY <1>2, <1>4, InitInv DEF ClientInv

\* ClientInv is inductive.
LEMMA NextClients == ClientInv /\ [Next]_vars => ClientInv'
<1> SUFFICES ASSUME ClientInv, [Next]_vars
             PROVE  NothingExpected' /\ NoLostWaiter' /\ NoUnsolicitedAnswer' /\ AskedOnce'
  BY NextInv DEF ClientInv
<1>1. CASE Environment
  BY <1>1, EnvironmentClients
<1>2. ASSUME NEW q \in QueueNames, CheckCollision(q) \/ TagCheck(q)
      PROVE  NothingExpected' /\ NoLostWaiter' /\ NoUnsolicitedAnswer' /\ AskedOnce'
  BY <1>2, CheckCollisionClients, HitClients, MissMergeClients, MissAllocateClients DEF TagCheck
<1>3. CASE WriteMiss
  BY <1>3, WriteMissClients
<1>4. CASE FillMiss
  BY <1>4, FillMissClients
<1>5. CASE FillWrite
  BY <1>5, FillWriteClients
<1>6. ASSUME NEW b \in Blocks, ReturnData(b)
      PROVE  NothingExpected' /\ NoLostWaiter' /\ NoUnsolicitedAnswer' /\ AskedOnce'
  BY <1>6, ReturnDataClients
<1>7. CASE UNCHANGED vars
  BY <1>7 DEF vars, ClientInv, NothingExpected, NothingWritten, NoLostWaiter, NoUnsolicitedAnswer,
     AskedOnce, InOnePlace, Carried, InQueue, InMisses, HasBearer, AtMostOneBearer
<1> QED BY <1>1, <1>2, <1>3, <1>4, <1>5, <1>6, <1>7 DEF Next, Serve

LEMMA ClientInvariant == Spec => []ClientInv
BY InitClients, NextClients, PTL DEF Spec

\* Whatever check_collision merges and handle_miss takes over, a producer that
\* waits is named in a request that is on its way.
THEOREM NobodyIsForgotten == Spec => []NoLostWaiter
BY ClientInvariant, PTL DEF ClientInv

\* A producer that waits for its answers is owed one only while it waits, so none
\* is answered twice.
THEOREM NobodyIsAnsweredTwice == Spec => []NoUnsolicitedAnswer
BY ClientInvariant, PTL DEF ClientInv

-----------------------------------------------------------------------------
(* Copies of a block in an L1.                                             *)

\* At the L1s a store that misses goes to the MSHR, never to the delayed writes.
NoDelayedWrites == match_offset_bits => inflight_writes = <<>>

Copied(s, w, b) == block[s][w].valid /\ BlockOf[block[s][w].addr] = b

\* A block is in its set, once, and has no miss in flight.
Single ==
  \A b : /\ \A s \in Sets, w \in Ways : Copied(s, w, b) => s = SetOf[b]
         /\ \A s \in Sets, v, w \in Ways : Copied(s, v, b) /\ Copied(s, w, b) => v = w
         /\ \A s \in Sets, w \in Ways : Copied(s, w, b) =>
              \A n \in DOMAIN MSHR : BlockOf[MSHR[n].addr] # b

CopyInv == MSHRInv /\ NoDelayedWrites /\ (match_offset_bits => Single)

\* No new copy and no new miss.
LEMMA NoNewCopy ==
  ASSUME Single,
         \A s \in Sets, w \in Ways : \A b : Copied(s, w, b)' => Copied(s, w, b),
         \A n \in DOMAIN MSHR' : \E k \in DOMAIN MSHR : BlockOf[MSHR'[n].addr] = BlockOf[MSHR[k].addr]
  PROVE  Single'
BY DEF Single

LEMMA HitCopies ==
  ASSUME MSHRInv, NEW q \in QueueNames, Hit(q), Single
  PROVE  Single'
<1> DEFINE p == Head(queues[q])
           t == SetOf[BlockOf[p.addr]]
<1>1. PICK u \in Ways :
        block' = [block EXCEPT ![t][u].dirty = (p.type = "WRITE"), ![t][u].prefetch = FALSE]
  BY DEF Hit
<1>2. p.addr \in Addrs /\ t \in Sets
  BY FrontType DEF MSHRInv, Hit, Packet, Sets, Blocks
<1> HIDE DEF p, t
<1> DEFINE new == [block[t][u] EXCEPT !.dirty = (p.type = "WRITE"), !.prefetch = FALSE]
<1>3. block \in [Sets -> [Ways -> Block \cup {Invalid}]]
  BY DEF MSHRInv, TypeOK
<1>4. block' = [block EXCEPT ![t] = [block[t] EXCEPT ![u] = new]]
  BY <1>1, <1>2, <1>3
<1>5. new.valid = block[t][u].valid /\ (block[t][u].valid => new.addr = block[t][u].addr)
  <2>1. block[t][u] \in Block \cup {Invalid}
    BY <1>2, <1>3
  <2>2. CASE block[t][u] \in Block
    BY <2>2 DEF Block
  <2>3. CASE block[t][u] = Invalid
    BY <2>3 DEF Invalid
  <2> QED BY <2>1, <2>2, <2>3
<1> HIDE DEF new
<1>6. \A s \in Sets, w \in Ways : block'[s][w] = IF s = t /\ w = u THEN new ELSE block[s][w]
  BY <1>2, <1>3, <1>4
<1>7. \A s \in Sets, w \in Ways : \A b : Copied(s, w, b)' => Copied(s, w, b)
  BY <1>5, <1>6 DEF Copied
<1>8. UNCHANGED MSHR
  BY DEF Hit
<1> QED BY <1>7, <1>8, NoNewCopy

LEMMA MissMergeCopies ==
  ASSUME MSHRInv, NEW q \in QueueNames, MissMerge(q), Single
  PROVE  Single'
<1> DEFINE p == Head(queues[q])
<1>1. PICK n \in DOMAIN MSHR :
        /\ InMSHR(p.addr, n)
        /\ LET all == MSHR[n].to_return \cup p.to_return
           IN  MSHR' = [MSHR EXCEPT ![n] =
                          IF MSHR[n].type = "PREFETCH" /\ p.type # "PREFETCH"
                          THEN EntryFor(p, all, MSHR[n].returned)
                          ELSE [MSHR[n] EXCEPT !.to_return = all]]
  BY DEF MissMerge
<1>2. MSHR[n] \in MSHREntry /\ BlockOf[MSHR[n].addr] = BlockOf[p.addr]
  BY <1>1, MSHRElements DEF MSHRInv, InMSHR, SameBlock
<1>3. DOMAIN MSHR' = DOMAIN MSHR /\ \A k \in DOMAIN MSHR : k # n => MSHR'[k] = MSHR[k]
  BY <1>1
<1>4. BlockOf[MSHR'[n].addr] = BlockOf[MSHR[n].addr]
  BY <1>1, <1>2 DEF EntryFor, MSHREntry
<1>5. UNCHANGED block
  BY DEF MissMerge
<1>6. \A s \in Sets, w \in Ways : \A b : Copied(s, w, b)' => Copied(s, w, b)
  BY <1>5 DEF Copied
<1> QED BY <1>3, <1>4, <1>6, NoNewCopy

LEMMA MissAllocateCopies ==
  ASSUME MSHRInv, NEW q \in QueueNames, MissAllocate(q), Single
  PROVE  Single'
<1> DEFINE p == Head(queues[q])
           e == EntryFor(p, p.to_return, FALSE)
<1>1. /\ Misses(p.addr) /\ UNCHANGED block
      /\ MSHR' = Append(MSHR, e) \/ MSHR' = MSHR
  BY DEF MissAllocate
<1>2. \A s \in Sets, w \in Ways : \A b : Copied(s, w, b)' <=> Copied(s, w, b)
  BY <1>1 DEF Copied
<1>3. CASE MSHR' = MSHR
  BY <1>2, <1>3, NoNewCopy
<1>4. CASE MSHR' = Append(MSHR, e)
  <2>1. p \in Packet /\ MSHR \in Seq(MSHREntry)
    BY FrontType DEF MSHRInv, TypeOK, MissAllocate
  <2>2. e \in MSHREntry /\ e.addr = p.addr
    <3>1. e \in MSHREntry
      BY <2>1, EntryForType DEF Packet
    <3> QED BY <3>1 DEF EntryFor
  <2> HIDE DEF e, p
  <2>3. \A n \in DOMAIN MSHR' : (n \in DOMAIN MSHR /\ MSHR'[n] = MSHR[n]) \/ MSHR'[n] = e
    BY <1>4, <2>1, <2>2, AppendProperties, LenProperties
  <2>4. SetOf[BlockOf[p.addr]] \in Sets
    BY <2>1 DEF Packet, Sets, Blocks
  <2>5. \A w \in Ways : ~Copied(SetOf[BlockOf[p.addr]], w, BlockOf[p.addr])
    <3>1. SUFFICES ASSUME NEW w \in Ways, Copied(SetOf[BlockOf[p.addr]], w, BlockOf[p.addr]) PROVE FALSE
      OBVIOUS
    <3>2. \A v \in Ways : Copied(SetOf[BlockOf[p.addr]], v, BlockOf[p.addr]) => v = w
      BY <2>4, <3>1 DEF Single
    <3>3. \A v \in Ways : v < w => v # w
      BY GeometryAssumption DEF Ways
    <3>4. Holds(p.addr, w)
      BY <3>1, <3>2, <3>3 DEF Holds, Copied, SameBlock
    <3> QED BY <1>1, <3>4 DEF Misses
  <2> QED BY <1>2, <2>2, <2>3, <2>5 DEF Single
<1> QED BY <1>1, <1>3, <1>4

\* A fill brings the block of the first miss, of which there was no copy.
LEMMA FillMissCopies ==
  ASSUME MSHRInv, FillMiss, Single
  PROVE  Single'
<1> DEFINE e == Head(MSHR)
           t == SetOf[BlockOf[e.addr]]
           new == [valid |-> TRUE, addr |-> e.addr, dirty |-> e.type = "WRITE",
                   prefetch |-> e.prefetch_from_this]
<1>1. /\ MSHR # <<>> /\ MSHR' = Tail(MSHR)
      /\ \E u \in Ways : block' = [block EXCEPT ![t][u] = new]
  BY DEF FillMiss, FillBlock
<1>2. /\ MSHR \in Seq(MSHREntry) /\ DOMAIN MSHR = 1..Len(MSHR) /\ Len(MSHR) \in Nat
      /\ \A n \in DOMAIN MSHR : MSHR[n] \in MSHREntry
  BY MSHRElements DEF MSHRInv
<1>3. IsWithout(MSHR', MSHR, 1) /\ 1 \in 1..Len(MSHR) /\ e = MSHR[1]
  BY <1>1, <1>2, TailIsWithout
<1>4. PICK u \in Ways : block' = [block EXCEPT ![t][u] = new]
  BY <1>1
<1>5. new.valid = TRUE /\ new.addr = e.addr
  OBVIOUS
<1>6. t \in Sets
  BY <1>2, <1>3 DEF MSHREntry, Sets, Blocks
<1> HIDE DEF e, new
<1>7. \A s \in Sets, w \in Ways : block'[s][w] = IF s = t /\ w = u THEN new ELSE block[s][w]
  BY <1>4, <1>6 DEF MSHRInv, TypeOK
<1>8. \A s \in Sets, w \in Ways : \A b :
        Copied(s, w, b)' <=> IF s = t /\ w = u THEN b = BlockOf[e.addr] ELSE Copied(s, w, b)
  BY <1>5, <1>7 DEF Copied
<1>9. \A n \in DOMAIN MSHR' : \E k \in DOMAIN MSHR : k # 1 /\ MSHR'[n] = MSHR[k]
  <2>1. DOMAIN MSHR' = 1..(Len(MSHR) - 1) /\ \A l \in 1..(Len(MSHR) - 1) : MSHR'[l] = MSHR[IF l < 1 THEN l ELSE l + 1]
    BY <1>3 DEF IsWithout
  <2> DEFINE L == Len(MSHR)
  <2>2. L \in Nat /\ DOMAIN MSHR = 1..L
    BY <1>2
  <2> HIDE DEF L
  <2>3. \A l \in 1..(L - 1) : ~(l < 1) /\ l + 1 \in DOMAIN MSHR /\ l + 1 # 1
    BY <2>2
  <2> QED BY <2>1, <2>3 DEF L
<1>10. \A n \in DOMAIN MSHR' : BlockOf[MSHR'[n].addr] # BlockOf[e.addr]
  BY <1>2, <1>3, <1>9 DEF MSHRInv, OneMissPerBlock, SameBlock
<1>11. \A s \in Sets, w \in Ways : ~Copied(s, w, BlockOf[e.addr])
  BY <1>2, <1>3 DEF Single
<1>12. SUFFICES ASSUME NEW b, NEW s \in Sets, NEW w \in Ways, Copied(s, w, b)'
       PROVE  /\ s = SetOf[b]
              /\ \A v \in Ways : Copied(s, v, b)' => v = w
              /\ \A n \in DOMAIN MSHR' : BlockOf[MSHR'[n].addr] # b
  BY DEF Single
<1>13. CASE s = t /\ w = u
  <2>1. b = BlockOf[e.addr]
    BY <1>8, <1>12, <1>13
  <2>2. \A v \in Ways : Copied(s, v, b)' => v = w
    BY <1>8, <1>11, <1>13, <2>1
  <2> QED BY <1>10, <1>13, <2>1, <2>2
<1>14. CASE ~(s = t /\ w = u)
  <2>1. Copied(s, w, b)
    BY <1>8, <1>12, <1>14
  <2>2. b # BlockOf[e.addr]
    BY <1>11, <2>1
  <2>3. \A v \in Ways : Copied(s, v, b)' => v = w
    BY <1>8, <2>1, <2>2 DEF Single
  <2>4. \A n \in DOMAIN MSHR' : BlockOf[MSHR'[n].addr] # b
    BY <1>9, <2>1 DEF Single
  <2> QED BY <2>1, <2>3, <2>4 DEF Single
<1> QED BY <1>13, <1>14

LEMMA ReturnDataCopies ==
  ASSUME MSHRInv, NEW b \in Blocks, ReturnData(b), Single
  PROVE  Single'
<1>1. PICK n, k \in DOMAIN MSHR : MSHR' = SwapIn(n, k, [MSHR[n] EXCEPT !.returned = TRUE])
  BY DEF ReturnData
<1> DEFINE e == [MSHR[n] EXCEPT !.returned = TRUE]
<1>2. /\ TypeOK /\ DOMAIN MSHR = 1..Len(MSHR) /\ MSHR[n] \in MSHREntry
  BY MSHRElements DEF MSHRInv
<1>3. e \in MSHREntry /\ e.addr = MSHR[n].addr
  BY <1>2 DEF MSHREntry
<1>4. MSHR' = SwapIn(n, k, e)
  BY <1>1
<1> HIDE DEF e
<1>5. IsSwapped(MSHR', n, k, e)
  BY <1>2, <1>3, <1>4, SwapInProperties
<1>6. /\ DOMAIN MSHR' = DOMAIN MSHR
      /\ \A l \in DOMAIN MSHR : MSHR'[l] = IF l = k THEN e ELSE IF l = n THEN MSHR[k] ELSE MSHR[l]
  BY <1>2, <1>5, LenProperties DEF IsSwapped
<1>7. \A l \in DOMAIN MSHR' : \E j \in DOMAIN MSHR : BlockOf[MSHR'[l].addr] = BlockOf[MSHR[j].addr]
  BY <1>3, <1>6
<1>8. UNCHANGED block
  BY DEF ReturnData
<1>9. \A s \in Sets, w \in Ways : \A c : Copied(s, w, c)' => Copied(s, w, c)
  BY <1>8 DEF Copied
<1> QED BY <1>7, <1>9, NoNewCopy

LEMMA InitCopies == Init => CopyInv
<1> SUFFICES ASSUME Init PROVE CopyInv
  OBVIOUS
<1>1. \A s \in Sets, w \in Ways : ~block[s][w].valid
  BY DEF Init, Invalid
<1> QED BY <1>1, InitInv DEF CopyInv, NoDelayedWrites, Single, Copied, Init

\* CopyInv is inductive.
LEMMA NextCopies == CopyInv /\ [Next]_vars => CopyInv'
<1> SUFFICES ASSUME CopyInv, [Next]_vars, match_offset_bits
             PROVE  inflight_writes' = <<>> /\ Single'
  BY NextInv DEF CopyInv, NoDelayedWrites
<1>1. MSHRInv /\ inflight_writes = <<>> /\ Single
  BY DEF CopyInv, NoDelayedWrites
<1>2. CASE UNCHANGED <<MSHR, inflight_writes, block>>
  BY <1>1, <1>2 DEF Single, Copied
<1>3. CASE Environment
  BY <1>2, <1>3 DEF Environment, Request, Write, PrefetchLine, Enqueue
<1>4. ASSUME NEW q \in QueueNames, CheckCollision(q) \/ TagCheck(q)
      PROVE  inflight_writes' = <<>> /\ Single'
  <2>1. CASE CheckCollision(q)
    BY <1>2, <2>1 DEF CheckCollision
  <2>2. CASE Hit(q)
    BY <1>1, <2>2, HitCopies DEF Hit
  <2>3. CASE MissMerge(q)
    BY <1>1, <2>3, MissMergeCopies DEF MissMerge
  <2>4. CASE MissAllocate(q)
    BY <1>1, <2>4, MissAllocateCopies DEF MissAllocate
  <2> QED BY <1>4, <2>1, <2>2, <2>3, <2>4 DEF TagCheck
<1>5. CASE WriteMiss \/ FillWrite
  BY <1>1, <1>5 DEF WriteMiss, FillWrite
<1>6. CASE FillMiss
  BY <1>1, <1>6, FillMissCopies DEF FillMiss
<1>7. ASSUME NEW b \in Blocks, ReturnData(b)
      PROVE  inflight_writes' = <<>> /\ Single'
  BY <1>1, <1>7, ReturnDataCopies DEF ReturnData
<1>8. CASE UNCHANGED vars
  BY <1>2, <1>8 DEF vars
<1> QED BY <1>3, <1>4, <1>5, <1>6, <1>7, <1>8 DEF Next, Serve

LEMMA SingleIsOne == CopyInv => OneCopyPerBlock
BY DEF CopyInv, Single, Copied, OneCopyPerBlock, SameBlock

LEMMA CopyInvariant == Spec => []CopyInv
BY InitCopies, NextCopies, PTL DEF Spec

\* An L1 never holds a block twice: what a fill replaces, and what a store writes to,
\* is the only copy.
THEOREM OneCopy == Spec => []OneCopyPerBlock
BY CopyInvariant, SingleIsOne, PTL

\* No miss of an L1 is in flight for a block it holds, which is why no fill brings a
\* second copy.
CachedIsNotMissed ==
  match_offset_bits =>
    \A s \in Sets, w \in Ways, n \in DOMAIN MSHR :
      block[s][w].valid => ~SameBlock(MSHR[n].addr, block[s][w].addr)

THEOREM NoMissOnCached == Spec => []CachedIsNotMissed
<1>1. CopyInv => CachedIsNotMissed
  BY DEF CopyInv, Single, Copied, CachedIsNotMissed, SameBlock
<1> QED BY <1>1, CopyInvariant, PTL
=============================================================================
