--------------------------- MODULE PageTableWalker ---------------------------
(***************************************************************************)
(* The page table walker (src/src/ptw.cc) over the virtual memory.  The    *)
(* second-level TLB above asks for a page again only when it has been      *)
(* answered (AsksOncePerBlock of Cache), so the MSHR is a function from     *)
(* pages to walks; std::sort leaves entries of equal event_cycle in any     *)
(* order, and of the order by time what matters is that entries are filled  *)
(* after their event_cycle.  The cache below answers every block it is      *)
(* asked for, in any order.                                                 *)
(***************************************************************************)
EXTENDS VirtualMemory, Sequences

CONSTANTS
  LEVELS,           \* std::size(pscl); walks start at this level at most
  KeyOf,            \* [1..(LEVELS + 1) -> [VPages -> key]], vaddr >> shamt(level)
  RootKey,          \* the key of vaddr 0
  LineOf,           \* [0..LEVELS -> [VPages -> line]], the block of get_offset(vaddr, level)
  RQ_SIZE,
  PSCL_SIZE         \* entries per paging-structure cache, LRU abstracted to any victim

Levels == 1..LEVELS
TableAt(l, v) == <<l, KeyOf[l][v]>>
Root == <<LEVELS + 1, RootKey>>

ASSUME WalkerAssumption ==
  /\ LEVELS \in Nat \ {0}
  /\ DOMAIN KeyOf = 1..(LEVELS + 1)
  /\ DOMAIN LineOf = 0..LEVELS
  /\ Root \in Tables
  /\ \A l \in Levels, v \in VPages : TableAt(l, v) \in Tables
  /\ RQ_SIZE \in Nat \ {0}
  /\ PSCL_SIZE \in Nat \ {0}

VARIABLES
  RQ,           \* pages to walk for, front first
  MSHR,         \* [VPages -> walk or NoWalk]
  pscl,         \* per level, entries [tag, data]
  lower,        \* the blocks the cache below owes an answer for
  returning     \* the pages return_data has still to visit

ptw_vars == <<RQ, MSHR, pscl, lower, returning>>

NoWalk == [state |-> "none"]
Lines == UNION {{LineOf[l][v] : v \in VPages} : l \in 0..LEVELS}
Block == [page : PPages, piece : 0..(PIECES - 1), line : Lines]

\* What the MSHR may hold: an answered walk has the page, or where the entry of the
\* next table lies.
IsWalk(w) ==
  \/ w \in [state : {"asked"}, level : 0..LEVELS, addr : Block]
  \/ w \in [state : {"penalty", "ready"}, level : {0}, addr : Block, data : PPages]
  \/ w \in [state : {"penalty", "ready"}, level : Levels, addr : Block, data : Block]

PtwInit ==
  /\ VmemInit
  /\ RQ = <<>>
  /\ MSHR = [v \in VPages |-> NoWalk]
  /\ pscl = [l \in Levels |-> {}]
  /\ lower = {}
  /\ returning = {}

\* The constructor asks for the root table (CR3_addr).
Construct ==
  /\ TableFaults(Root)
  /\ GetPtePa(Root)
  /\ UNCHANGED ptw_vars

Operating == ~TableFaults(Root) /\ returning = {}

\* add_rq, its assertion being the discipline of the TLB.
AddRq(v) ==
  /\ Operating
  /\ MSHR[v] = NoWalk
  /\ \A n \in DOMAIN RQ : RQ[n] # v
  /\ Len(RQ) < RQ_SIZE
  /\ RQ' = Append(RQ, v)
  /\ UNCHANGED <<MSHR, pscl, lower, returning, vmem_vars>>

\* Fault: a walk that has been answered keeps others from asking.
FaultInFlight(b) == \E v \in VPages : MSHR[v] # NoWalk /\ MSHR[v].addr = b

\* An entry for block b that has not been answered.
InFlight(b) == \E v \in VPages : MSHR[v].state = "asked" /\ MSHR[v].addr = b

\* step_translation, when the cache below has room for what it is asked.
StepTranslation(v, addr, level) ==
  /\ MSHR' = [MSHR EXCEPT ![v] = [state |-> "asked", level |-> level, addr |-> addr]]
  /\ lower' = IF InFlight(addr) THEN lower ELSE lower \cup {addr}

\* The entry of the cache of level l that matches page v.  It is tagged one level
\* above the table it points to.
PsclHits(l, v) == {e \in pscl[l] : e.tag = KeyOf[l + 1][v]}

\* splice_bits drops the piece of an address found in CR3 or in a pscl.
Spliced(data, level, v) == [page |-> data.page, piece |-> 0, line |-> LineOf[level][v]]

\* Where the walk for v may start: after the lowest level that hits, or at the root.
WalkInit(v, addr, level) ==
  \/ \E l \in Levels : \E e \in PsclHits(l, v) :
       /\ \A k \in 1..(l - 1) : PsclHits(k, v) = {}
       /\ level = l - 1
       /\ addr = Spliced(e.data, l - 1, v)
  \/ /\ \A l \in Levels : PsclHits(l, v) = {}
     /\ level = LEVELS
     /\ addr = Spliced([page |-> page_table[Root][1]], LEVELS, v)

\* handle_read
HandleRead ==
  /\ Operating
  /\ RQ # <<>>
  /\ \E level \in 0..LEVELS, addr \in Block :
       /\ WalkInit(Head(RQ), addr, level)
       /\ StepTranslation(Head(RQ), addr, level)
  /\ RQ' = Tail(RQ)
  /\ UNCHANGED <<pscl, returning, vmem_vars>>

\* A block of level l, or the page at level 0, comes back: return_data visits
\* every entry for that block, those that were answered before too.
ReturnData(b) ==
  /\ Operating
  /\ b \in lower
  /\ lower' = lower \ {b}
  /\ returning' = {v \in VPages : MSHR[v] # NoWalk /\ MSHR[v].addr = b}
  /\ UNCHANGED <<RQ, MSHR, pscl, vmem_vars>>

Returned(v, data, faults) ==
  [state |-> IF faults THEN "penalty" ELSE "ready",
   level |-> MSHR[v].level, addr |-> MSHR[v].addr, data |-> data]

\* One iteration of its loop, which asks the virtual memory what the block holds.
VisitWalk(v) ==
  /\ v \in returning
  /\ returning' = returning \ {v}
  /\ LET l == MSHR[v].level
     IN  \/ /\ l = 0
            /\ VaToPa(v)
            /\ MSHR' = [MSHR EXCEPT ![v] = Returned(v, vpage_to_ppage_map'[v], Faults(v))]
         \/ /\ l # 0
            /\ GetPtePa(TableAt(l, v))
            /\ LET table == page_table'[TableAt(l, v)]
                   entry == [page |-> table[1], piece |-> table[2], line |-> LineOf[l][v]]
               IN  MSHR' = [MSHR EXCEPT ![v] = Returned(v, entry, TableFaults(TableAt(l, v)))]
  /\ UNCHANGED <<RQ, pscl, lower>>

\* event_cycle passes for a walk that paid a page fault.
PenaltyElapses(v) ==
  /\ Operating
  /\ MSHR[v].state = "penalty"
  /\ MSHR' = [MSHR EXCEPT ![v].state = "ready"]
  /\ UNCHANGED <<RQ, pscl, lower, returning, vmem_vars>>

\* pscl.at(level).fill: an entry with the tag is replaced, else any when full.
PsclFill(l, e) ==
  LET others == {d \in pscl[l] : d.tag # e.tag}
  IN  \/ /\ Cardinality(others) < PSCL_SIZE
         /\ pscl' = [pscl EXCEPT ![l] = others \cup {e}]
      \/ /\ Cardinality(others) = PSCL_SIZE
         /\ \E victim \in others : pscl' = [pscl EXCEPT ![l] = (others \ {victim}) \cup {e}]

\* handle_fill above the last level
HandleFill(v) ==
  /\ Operating
  /\ MSHR[v].state = "ready"
  /\ MSHR[v].level # 0
  /\ LET l == MSHR[v].level
     IN  /\ PsclFill(l, [tag |-> KeyOf[l + 1][v], data |-> MSHR[v].data])
         /\ StepTranslation(v, MSHR[v].data, l - 1)
  /\ UNCHANGED <<RQ, returning, vmem_vars>>

\* handle_fill at the last level: the walk is over, and its TLB gets the page.
FinishWalk(v) ==
  /\ Operating
  /\ MSHR[v].state = "ready"
  /\ MSHR[v].level = 0
  /\ MSHR' = [MSHR EXCEPT ![v] = NoWalk]
  /\ UNCHANGED <<RQ, pscl, lower, returning, vmem_vars>>

Walking(v) == MSHR[v] # NoWalk \/ \E n \in DOMAIN RQ : RQ[n] = v

-----------------------------------------------------------------------------
(* Properties.                                                             *)

PtwTypeOK ==
  /\ RQ \in Seq(VPages) /\ Len(RQ) <= RQ_SIZE
  /\ DOMAIN MSHR = VPages /\ \A v \in VPages : MSHR[v] = NoWalk \/ IsWalk(MSHR[v])
  /\ \A l \in Levels : \A e \in pscl[l] : e.data \in Block
  /\ lower \subseteq Block
  /\ returning \subseteq VPages

\* The cache below owes one answer for each block that an unanswered walk is at,
\* and no other: step_translation relies on the answer another walk asked for, and
\* must not rely on one that has come.
EveryAnswerHasItsWalk ==
  lower = {MSHR[v].addr : v \in {w \in VPages : MSHR[w].state = "asked" /\ w \notin returning}}

=============================================================================
