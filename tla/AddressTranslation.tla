-------------------------- MODULE AddressTranslation --------------------------
(***************************************************************************)
(* Address translation end to end: the queues of a virtually addressed     *)
(* cache, the TLBs, the page table walker and the virtual memory.  The two *)
(* levels of TLB are caches (Cache says how each behaves): here they are   *)
(* one that asks once per page, may forget any page, and answers all that  *)
(* wait for a page at once.                                                *)
(***************************************************************************)
EXTENDS PageTableWalker, TranslatingQueues

CONSTANT MaxEvictions     \* bound: how often the TLBs forget a page

VARIABLES
  tlb,           \* [VPages -> page or NoPage]
  evictions      \* how many pages they have forgotten

vars == <<vmem_vars, ptw_vars, queue_vars, tlb, evictions>>

ASSUME PagesAssumption == TranslatedPages \subseteq VPages /\ MaxEvictions \in Nat

Init == PtwInit /\ QueuesInit /\ tlb = [v \in VPages |-> NoPage] /\ evictions = 0

QueuesOnly == UNCHANGED <<vmem_vars, ptw_vars, tlb, evictions>>
WalkerOnly == UNCHANGED <<queue_vars, tlb, evictions>>

Request(q, i, a) == AddQueue(q, i, a) /\ QueuesOnly
Collisions(q) == CheckCollision(q) /\ QueuesOnly
Issue(q) == (\E n \in DOMAIN queues[q] : IssueTranslation(q, n)) /\ QueuesOnly
Misses(q) == (\E k \in DOMAIN queues[q] : DetectMisses(q, k)) /\ QueuesOnly
Take(q) == TakeFront(q) /\ QueuesOnly

\* try_hit of a TLB, and its answer to the queues.
TlbHit(v) ==
  /\ tlb[v] # NoPage
  /\ ReturnTranslation(v, tlb[v])
  /\ UNCHANGED <<vmem_vars, ptw_vars, tlb, evictions>>

\* handle_miss: the page is not being walked for yet.
TlbMiss(v) ==
  /\ v \in translating
  /\ tlb[v] = NoPage
  /\ AddRq(v)
  /\ WalkerOnly

\* The walk returns, the TLB is filled and answers.
TlbFill(v) ==
  /\ FinishWalk(v)
  /\ tlb' = [tlb EXCEPT ![v] = MSHR[v].data]
  /\ ReturnTranslation(v, MSHR[v].data)
  /\ UNCHANGED evictions

TlbEvict(v) ==
  /\ tlb[v] # NoPage
  /\ tlb' = [tlb EXCEPT ![v] = NoPage]
  /\ evictions < MaxEvictions
  /\ evictions' = evictions + 1
  /\ UNCHANGED <<vmem_vars, ptw_vars, queue_vars>>

Start == Construct /\ WalkerOnly
Read == HandleRead /\ WalkerOnly
WalkReturn(v) == MSHR[v] # NoWalk /\ ReturnData(MSHR[v].addr) /\ WalkerOnly
Visit(v) == VisitWalk(v) /\ WalkerOnly
Elapse(v) == PenaltyElapses(v) /\ WalkerOnly
Fill(v) == HandleFill(v) /\ WalkerOnly

Next ==
  \/ \E q \in QueueNames, i \in Ids, a \in VAddrs : Request(q, i, a)
  \/ \E q \in QueueNames : Collisions(q) \/ Issue(q) \/ Misses(q) \/ Take(q)
  \/ \E v \in VPages : TlbHit(v) \/ TlbMiss(v) \/ TlbFill(v) \/ TlbEvict(v)
  \/ Start
  \/ Read
  \/ \E v \in VPages : WalkReturn(v) \/ Visit(v) \/ Elapse(v) \/ Fill(v)

Spec == Init /\ [][Next]_vars

\* Every handler runs in every cycle over all of its queue, the cache below
\* answers, penalties pass, and TLBs and the cache take what is ready.
Fairness ==
  /\ WF_vars(Start)
  /\ WF_vars(Read)
  /\ \A v \in VPages :
       /\ WF_vars(WalkReturn(v) \/ Visit(v) \/ Elapse(v) \/ Fill(v) \/ TlbFill(v))
       /\ WF_vars(TlbHit(v) \/ TlbMiss(v))
  /\ \A q \in QueueNames : WF_vars(Collisions(q)) /\ WF_vars(Issue(q)) /\ WF_vars(Take(q))

FairSpec == Spec /\ Fairness

-----------------------------------------------------------------------------
(* Properties.                                                             *)

\* What the TLBs and the packets hold is the mapping virtual memory has now.
TranslationsAreCurrent ==
  /\ \A v \in VPages : tlb[v] # NoPage => tlb[v] = vpage_to_ppage_map[v]
  /\ \A p \in Queued : p.is_translated /\ HasAddress(p) => p.page = vpage_to_ppage_map[Page(p)]

\* Every request leaves the queues for the cache, or with another request for its
\* block, although those whose translation is missing are moved behind younger ones.
EveryRequestTranslated == \A i \in Ids : requested[i] # Idle ~> requested[i] = Idle
=============================================================================
