-------------------------------- MODULE Cache --------------------------------
(***************************************************************************)
(* One cache of the hierarchy (class CACHE, src/src/cache.cc) with its     *)
(* request queues (NonTranslatingQueues, src/src/cache_queues.cc).  The    *)
(* producers above it and the level below are the environment: producers   *)
(* add requests while a queue has room, the level below answers every      *)
(* request that carries a return address, in any order.                    *)
(*                                                                         *)
(* CACHE::operate serves prefixes of the MSHR, of the delayed writes and   *)
(* of the queues, bounded by MAX_FILL and MAX_TAG; one action is one       *)
(* element served, so the budgets and latencies only say how many actions  *)
(* one cycle takes.  Of event_cycle the MSHR keeps whether it is still the *)
(* maximal value ("returned" is FALSE).  LOAD stands for LOAD, RFO and     *)
(* TRANSLATION, which the cache treats alike.                              *)
(***************************************************************************)
EXTENDS Integers, Sequences, FiniteSets

CONSTANTS
  Clients,             \* producers that can be named in to_return
  Disciplined,         \* those that wait for an answer before asking again for a block
  Addrs,               \* word addresses
  BlockOf,             \* [Addrs -> block], address >> OFFSET_BITS
  SetOf,               \* [block -> set index]
  NUM_WAY, MSHR_SIZE,
  QueueSize,           \* capacity of each queue
  match_offset_bits,   \* TRUE at the L1s: stores are looked up like reads
  MaxRequests          \* bound: requests the environment makes

QueueNames == {"WQ", "PTWQ", "RQ", "PQ"}
Blocks == {BlockOf[a] : a \in Addrs}
Sets == {SetOf[b] : b \in Blocks}
Ways == 1..NUM_WAY

ASSUME ClientsAssumption == Disciplined \subseteq Clients
ASSUME GeometryAssumption ==
  /\ DOMAIN BlockOf = Addrs
  /\ Blocks \subseteq DOMAIN SetOf
  /\ NUM_WAY \in Nat \ {0}
  /\ MSHR_SIZE \in Nat \ {0}
  /\ QueueSize \in [QueueNames -> Nat]
  /\ match_offset_bits \in BOOLEAN
  /\ MaxRequests \in Nat

VARIABLES
  queues,           \* WQ, PTWQ, RQ and PQ, front first
  MSHR,             \* the outstanding misses, front first
  inflight_writes,  \* writes that missed and wait to be filled (not at the L1s)
  block,            \* per set and way, a block or Invalid
  lower,            \* per block, the answers the level below owes this cache
  waiting,          \* history: <<client, block>> asked for and not answered yet
  requests          \* how many requests have been made

vars == <<queues, MSHR, inflight_writes, block, lower, waiting, requests>>

Types == {"LOAD", "PREFETCH", "WRITE"}
Packet == [addr : Addrs, type : Types, to_return : SUBSET Clients,
           fill_this_level : BOOLEAN, prefetch_from_this : BOOLEAN, forward_checked : BOOLEAN]
MSHREntry == [addr : Addrs, type : Types, to_return : SUBSET Clients,
              prefetch_from_this : BOOLEAN, returned : BOOLEAN]
Invalid == [valid |-> FALSE]
Block == [valid : {TRUE}, addr : Addrs, dirty : BOOLEAN, prefetch : BOOLEAN]

SameBlock(a, b) == BlockOf[a] = BlockOf[b]

Init ==
  /\ queues = [q \in QueueNames |-> <<>>]
  /\ MSHR = <<>>
  /\ inflight_writes = <<>>
  /\ block = [s \in Sets |-> [w \in Ways |-> Invalid]]
  /\ lower = [b \in Blocks |-> 0]
  /\ waiting = {}
  /\ requests = 0

\* Fault: a packet that is forwarded or merged stays in its queue.
FaultRemoveNth(seq, n) == seq

\* seq without its n-th element
RemoveNth(seq, n) == SubSeq(seq, 1, n - 1) \o SubSeq(seq, n + 1, Len(seq))

\* ret->return_data for every producer named in to_return
Answered(to_return, a) == waiting \ {<<c, BlockOf[a]>> : c \in to_return}

-----------------------------------------------------------------------------
(* Requests: add_rq, add_wq, add_pq, add_ptwq and prefetch_line.           *)

\* do_add_queue: a full queue refuses the packet.
Enqueue(q, p) ==
  /\ requests < MaxRequests
  /\ requests' = requests + 1
  /\ Len(queues[q]) < QueueSize[q]
  /\ queues' = [queues EXCEPT ![q] = Append(@, p)]
  /\ UNCHANGED <<MSHR, inflight_writes, block, lower>>

MakePacket(a, type, to_return, fill, own) ==
  [addr |-> a, type |-> type, to_return |-> to_return, fill_this_level |-> fill,
   prefetch_from_this |-> own, forward_checked |-> FALSE]

\* A producer reads a block, walks a page table through it, or prefetches it.
Request(c, q, a) ==
  /\ c \in Disciplined => <<c, BlockOf[a]>> \notin waiting
  /\ Enqueue(q, MakePacket(a, IF q = "PQ" THEN "PREFETCH" ELSE "LOAD", {c}, TRUE, FALSE))
  /\ waiting' = waiting \cup {<<c, BlockOf[a]>>}

\* Stores and writebacks expect no answer.
Write(a) ==
  /\ Enqueue("WQ", MakePacket(a, "WRITE", {}, TRUE, FALSE))
  /\ UNCHANGED waiting

\* The cache's own prefetcher, or the core for the alternate path.
PrefetchLine(a, fill) ==
  /\ Enqueue("PQ", MakePacket(a, "PREFETCH", {}, fill, TRUE))
  /\ UNCHANGED waiting

-----------------------------------------------------------------------------
(* NonTranslatingQueues::check_collision                                   *)

FirstUnchecked(q, n) ==
  /\ n \in DOMAIN queues[q]
  /\ ~queues[q][n].forward_checked
  /\ \A k \in 1..(n - 1) : queues[q][k].forward_checked

\* The first m in 1..limit whose packet in q collides with address a.
Collides(q, limit, full_address, a, m) ==
  LET Eq(k) == IF full_address THEN queues[q][k].addr = a
               ELSE SameBlock(queues[q][k].addr, a)
  IN  m \in 1..limit /\ Eq(m) /\ \A k \in 1..(m - 1) : ~Eq(k)

\* Reads look for a write to forward from, then for a read to merge with; writes
\* look for a write to merge with.  Writes are compared by full address at the L1s.
ForwardsFromWQ(q, a) ==
  q # "WQ" /\ \E m \in DOMAIN queues["WQ"] :
                Collides("WQ", Len(queues["WQ"]), match_offset_bits, a, m)

\* Fault: a merged packet's waiting producers are dropped.
FaultMergePackets(source, destination) == destination

MergePackets(source, destination) ==
  [destination EXCEPT !.to_return = @ \cup source.to_return,
                      !.fill_this_level = @ \/ source.fill_this_level]

CheckCollision(q) ==
  /\ q \in {"WQ", "RQ", "PQ"}
  /\ \E n \in DOMAIN queues[q] :
       /\ FirstUnchecked(q, n)
       /\ LET p == queues[q][n]
              MergesInto(m) == Collides(q, n - 1, q = "WQ" /\ match_offset_bits, p.addr, m)
          IN  \/ /\ ForwardsFromWQ(q, p.addr)
                 /\ queues' = [queues EXCEPT ![q] = RemoveNth(@, n)]
                 /\ waiting' = Answered(p.to_return, p.addr)
              \/ /\ ~ForwardsFromWQ(q, p.addr)
                 /\ \E m \in 1..(n - 1) :
                      /\ MergesInto(m)
                      /\ LET merged == [queues[q] EXCEPT ![m] = MergePackets(p, @)]
                         IN  queues' = [queues EXCEPT ![q] = RemoveNth(merged, n)]
                 /\ UNCHANGED waiting
              \/ /\ ~ForwardsFromWQ(q, p.addr)
                 /\ \A m \in 1..(n - 1) : ~MergesInto(m)
                 /\ queues' = [queues EXCEPT ![q][n].forward_checked = TRUE]
                 /\ UNCHANGED waiting
  /\ UNCHANGED <<MSHR, inflight_writes, block, lower, requests>>

-----------------------------------------------------------------------------
(* Tag checks: try_hit, handle_miss and handle_write on the queue fronts.  *)

\* Fault: the tag check compares words, as the collisions of writes do at the L1s.
FaultHolds(a, w) ==
  LET set == block[SetOf[BlockOf[a]]]
      Eq(v) == set[v].valid /\ set[v].addr = a
  IN  Eq(w) /\ \A v \in Ways : v < w => ~Eq(v)

\* In its set, way w is the first that holds the block of a.
Holds(a, w) ==
  LET set == block[SetOf[BlockOf[a]]]
      Eq(v) == set[v].valid /\ SameBlock(set[v].addr, a)
  IN  Eq(w) /\ \A v \in Ways : v < w => ~Eq(v)

Misses(a) == \A w \in Ways : ~Holds(a, w)

Dequeue(q) == queues' = [queues EXCEPT ![q] = Tail(@)]

\* try_hit: the dirty bit is overwritten, not accumulated.
Hit(q) ==
  /\ queues[q] # <<>>
  /\ LET p == Head(queues[q])
         s == SetOf[BlockOf[p.addr]]
     IN  /\ \E w \in Ways :
              /\ Holds(p.addr, w)
              /\ block' = [block EXCEPT ![s][w].dirty = (p.type = "WRITE"),
                                        ![s][w].prefetch = FALSE]
         /\ waiting' = Answered(p.to_return, p.addr)
  /\ Dequeue(q)
  /\ UNCHANGED <<MSHR, inflight_writes, lower, requests>>

\* Fault: prefetches in flight are not looked for.
FaultInMSHR(a, n) ==
  n \in DOMAIN MSHR /\ SameBlock(MSHR[n].addr, a) /\ MSHR[n].type # "PREFETCH"

\* The first MSHR entry for the block of a is number n.
InMSHR(a, n) ==
  /\ n \in DOMAIN MSHR
  /\ SameBlock(MSHR[n].addr, a)
  /\ \A k \in 1..(n - 1) : ~SameBlock(MSHR[k].addr, a)

\* Fault: a demand miss that takes over a prefetch waits for a new answer.
FaultRestarts(p, to_return, returned) ==
  [addr |-> p.addr, type |-> p.type, to_return |-> to_return,
   prefetch_from_this |-> p.prefetch_from_this, returned |-> FALSE]

EntryFor(p, to_return, returned) ==
  [addr |-> p.addr, type |-> p.type, to_return |-> to_return,
   prefetch_from_this |-> p.prefetch_from_this, returned |-> returned]

\* A queue whose misses go to the MSHR.
ReadLike(q) == q # "WQ" \/ match_offset_bits

\* handle_miss, the block already in flight: the entry gains the producers, and
\* a demand takes a prefetch over, keeping its event_cycle.
MissMerge(q) ==
  /\ queues[q] # <<>>
  /\ ReadLike(q)
  /\ LET p == Head(queues[q])
     IN  /\ Misses(p.addr)
         /\ \E n \in DOMAIN MSHR :
              /\ InMSHR(p.addr, n)
              /\ LET m == MSHR[n]
                     all == m.to_return \cup p.to_return
                 IN  MSHR' = [MSHR EXCEPT ![n] =
                                IF m.type = "PREFETCH" /\ p.type # "PREFETCH"
                                THEN EntryFor(p, all, m.returned)
                                ELSE [m EXCEPT !.to_return = all]]
  /\ Dequeue(q)
  /\ UNCHANGED <<inflight_writes, block, lower, waiting, requests>>

MSHRHasRoom == Len(MSHR) < MSHR_SIZE

\* handle_miss, a new miss, the level below taking the request.  One that is not
\* to fill this level is passed on without a return address and forgotten.
MissAllocate(q) ==
  /\ queues[q] # <<>>
  /\ ReadLike(q)
  /\ MSHRHasRoom
  /\ LET p == Head(queues[q])
         b == BlockOf[p.addr]
     IN  /\ Misses(p.addr)
         /\ \A n \in DOMAIN MSHR : ~InMSHR(p.addr, n)
         /\ \/ /\ p.fill_this_level
               /\ MSHR' = Append(MSHR, EntryFor(p, p.to_return, FALSE))
               /\ lower' = [lower EXCEPT ![b] = @ + 1]
            \/ /\ ~p.fill_this_level
               /\ UNCHANGED <<MSHR, lower>>
  /\ Dequeue(q)
  /\ UNCHANGED <<inflight_writes, block, waiting, requests>>

\* handle_write: below the L1s a write that misses becomes a delayed fill.
WriteMiss ==
  /\ ~match_offset_bits
  /\ queues["WQ"] # <<>>
  /\ LET p == Head(queues["WQ"])
     IN  /\ Misses(p.addr)
         /\ inflight_writes' = Append(inflight_writes, p)
  /\ Dequeue("WQ")
  /\ UNCHANGED <<MSHR, block, lower, waiting, requests>>

-----------------------------------------------------------------------------
(* Answers of the level below, and fills.                                  *)

Unreturned(n) == n \in DOMAIN MSHR /\ ~MSHR[n].returned

\* Fault: a returned entry stays where it is.
FaultSwapIn(n, k, entry) == [MSHR EXCEPT ![n] = entry]

\* std::iter_swap of the returned entry n with the first unreturned one, k.
SwapIn(n, k, entry) == [MSHR EXCEPT ![n] = MSHR[k], ![k] = entry]

\* CACHE::return_data
ReturnData(b) ==
  /\ lower[b] > 0
  /\ lower' = [lower EXCEPT ![b] = @ - 1]
  /\ \E n, k \in DOMAIN MSHR :
       /\ BlockOf[MSHR[n].addr] = b
       /\ \A l \in 1..(n - 1) : BlockOf[MSHR[l].addr] # b
       /\ Unreturned(k)
       /\ \A l \in 1..(k - 1) : ~Unreturned(l)
       /\ MSHR' = SwapIn(n, k, [MSHR[n] EXCEPT !.returned = TRUE])
  /\ UNCHANGED <<queues, inflight_writes, block, waiting, requests>>

\* The way a fill of address a goes to: the first invalid one, or a victim.  A
\* dirty victim is replaced only if the level below takes the writeback.
FillWay(a, w) ==
  LET set == block[SetOf[BlockOf[a]]]
  IN  /\ w \in Ways
      /\ \/ ~set[w].valid /\ \A v \in Ways : v < w => set[v].valid
         \/ \A v \in Ways : set[v].valid

\* Fault: a fill wakes nobody.
FaultFillAnswers(e) == waiting

FillAnswers(e) == Answered(e.to_return, e.addr)

\* handle_fill of e
FillBlock(e) ==
  /\ \E w \in Ways :
       /\ FillWay(e.addr, w)
       /\ block' = [block EXCEPT ![SetOf[BlockOf[e.addr]]][w] =
                      [valid |-> TRUE, addr |-> e.addr, dirty |-> e.type = "WRITE",
                       prefetch |-> e.prefetch_from_this]]
  /\ waiting' = FillAnswers(e)

FillMiss ==
  /\ MSHR # <<>>
  /\ Head(MSHR).returned
  /\ FillBlock(Head(MSHR))
  /\ MSHR' = Tail(MSHR)
  /\ UNCHANGED <<queues, inflight_writes, lower, requests>>

FillWrite ==
  /\ inflight_writes # <<>>
  /\ FillBlock(Head(inflight_writes))
  /\ inflight_writes' = Tail(inflight_writes)
  /\ UNCHANGED <<queues, MSHR, lower, requests>>

-----------------------------------------------------------------------------
TagCheck(q) == Hit(q) \/ MissMerge(q) \/ MissAllocate(q)

Serve ==
  \/ \E q \in QueueNames : CheckCollision(q) \/ TagCheck(q)
  \/ WriteMiss
  \/ FillMiss
  \/ FillWrite
  \/ \E b \in Blocks : ReturnData(b)

Environment ==
  \E a \in Addrs :
    \/ \E c \in Clients, q \in {"RQ", "PQ", "PTWQ"} : Request(c, q, a)
    \/ Write(a)
    \/ \E fill \in BOOLEAN : PrefetchLine(a, fill)

Next == Environment \/ Serve

Spec == Init /\ [][Next]_vars

\* The cache and its queues operate in every cycle, and the level below answers
\* and eventually takes requests and writebacks.
FairSpec == Spec /\ WF_vars(Serve)

-----------------------------------------------------------------------------
(* Properties.                                                             *)

TypeOK ==
  /\ queues \in [QueueNames -> Seq(Packet)]
  /\ \A q \in QueueNames : Len(queues[q]) <= QueueSize[q]
  /\ MSHR \in Seq(MSHREntry) /\ Len(MSHR) <= MSHR_SIZE
  /\ inflight_writes \in Seq(Packet)
  /\ block \in [Sets -> [Ways -> Block \cup {Invalid}]]
  /\ lower \in [Blocks -> Nat]
  /\ waiting \subseteq Clients \X Blocks
  /\ requests \in 0..MaxRequests

\* The MSHR and the level below agree: each unreturned entry, and only it, is
\* owed one answer.  So return_data always finds the entry it asserts, and no
\* miss waits for an answer that was never asked for.
EveryAnswerHasItsMiss ==
  \A b \in Blocks :
    lower[b] = Cardinality({n \in DOMAIN MSHR : Unreturned(n) /\ BlockOf[MSHR[n].addr] = b})

\* Towards the level below the cache is itself a disciplined producer: it never
\* asks again for a block it has not been answered for.
AsksOncePerBlock == \A b \in Blocks : lower[b] <= 1

\* A block has at most one miss in flight, whatever queue the requests come from.
OneMissPerBlock ==
  \A m, n \in DOMAIN MSHR : SameBlock(MSHR[m].addr, MSHR[n].addr) => m = n

\* "Order this entry after previously-returned entries, but before non-returned
\* entries": operate serves a prefix, so a returned entry behind an unreturned
\* one would be held up by it.
ReturnedFirst ==
  \A m, n \in DOMAIN MSHR : m < n /\ MSHR[n].returned => MSHR[m].returned

\* The producers owed an answer for a block b are exactly those named in some
\* request on its way: nobody waits for ever because a merge or a take-over
\* dropped it, and a producer that asks once is never answered twice.
Carried(c, b) ==
  \/ \E q \in QueueNames : \E n \in DOMAIN queues[q] :
       BlockOf[queues[q][n].addr] = b /\ c \in queues[q][n].to_return
  \/ \E n \in DOMAIN MSHR : BlockOf[MSHR[n].addr] = b /\ c \in MSHR[n].to_return

NoLostWaiter == \A w \in waiting : Carried(w[1], w[2])

NoUnsolicitedAnswer ==
  \A c \in Disciplined, b \in Blocks : Carried(c, b) => <<c, b>> \in waiting

\* At the L1s no two ways hold one block: whatever queue, prefetch or take-over a miss
\* came from, and however long it took, no other fill has brought its block meanwhile.
OneCopyPerBlock ==
  match_offset_bits =>
    \A s \in Sets, v, w \in Ways :
      /\ block[s][v].valid /\ block[s][w].valid
      /\ SameBlock(block[s][v].addr, block[s][w].addr)
      => v = w

\* Every request for a block is answered.
EveryRequestAnswered ==
  \A c \in Clients, b \in Blocks : <<c, b>> \in waiting ~> <<c, b>> \notin waiting
=============================================================================
