-------------------------- MODULE TranslatingQueues --------------------------
(***************************************************************************)
(* The request queues of a cache that is addressed virtually from above    *)
(* (CACHE::TranslatingQueues, src/src/cache_queues.cc): packets come with a *)
(* virtual address, are sent to a TLB, and wait behind the others until    *)
(* their page is known.  The cache proper (Cache) is only the one who      *)
(* takes the front away; the TLB is the environment.                       *)
(*                                                                         *)
(* An address is a block: its page and which block of the page it is.      *)
(* Virtual and physical pages are numbers of one kind, as in the code: a   *)
(* virtual page may have the number of a physical one, its own or another  *)
(* page's.  The word within a block, which only tells writes apart, is     *)
(* left to Cache.                                                          *)
(* Of event_cycle one bit remains, whether it is maximal ("late").         *)
(* TranslatingQueues::operate first checks collisions, then issues, then   *)
(* looks for misses, so the last two find packets that have been checked.   *)
(***************************************************************************)
EXTENDS Integers, Sequences, FiniteSets

CONSTANTS
  VAddrs,           \* virtual blocks
  PageOf,           \* [VAddrs -> virtual page number]
  OffsetOf,         \* [VAddrs -> block within the page]
  Ids,              \* names of requests in flight
  QueueSize         \* capacity of each queue

Idle == "idle"      \* not an address
QueueNames == DOMAIN QueueSize
TranslatedPages == {PageOf[a] : a \in VAddrs}

ASSUME QueuesAssumption ==
  /\ PageOf \in [VAddrs -> Nat \ {0}]
  /\ DOMAIN OffsetOf = VAddrs
  /\ "WQ" \in QueueNames /\ QueueNames \subseteq {"WQ", "RQ", "PQ"}
  /\ QueueSize \in [QueueNames -> Nat]

\* A page and a block of it are one address.
ASSUME AddressAssumption ==
  /\ \A a, b \in VAddrs : PageOf[a] = PageOf[b] /\ OffsetOf[a] = OffsetOf[b] => a = b
  /\ Idle \notin VAddrs

VARIABLES
  queues,        \* WQ, RQ and PQ, front first
  translating,   \* pages the TLB has been asked for and not answered
  requested      \* history: the address each outstanding request asked for, or Idle

queue_vars == <<queues, translating, requested>>

\* page and vaddr's offset are the address field; issued is translate_issued; ids are the requests that wait for the packet, to_return of the code.
Packet == [ids : SUBSET Ids, vaddr : VAddrs, page : Nat, issued : BOOLEAN,
           is_translated : BOOLEAN, late : BOOLEAN, forward_checked : BOOLEAN]

QueuesInit ==
  /\ queues = [q \in QueueNames |-> <<>>]
  /\ translating = {}
  /\ requested = [i \in Ids |-> Idle]

Page(p) == PageOf[p.vaddr]

\* The address field holds the virtual address at first, 0 once sent for translation,
\* then the physical address.
HasAddress(p) == p.page # 0

\* eq_addr: an address of 0 is not valid and matches nothing.
SameAddress(p, d) ==
  /\ HasAddress(d)
  /\ d.page = p.page
  /\ OffsetOf[d.vaddr] = OffsetOf[p.vaddr]

\* The requests ids get block a; one that asked for another block is not served by it.
Answer(ids, a) ==
  requested' = [i \in Ids |-> IF i \in ids /\ requested[i] = a THEN Idle ELSE requested[i]]

Without(seq, n) == SubSeq(seq, 1, n - 1) \o SubSeq(seq, n + 1, Len(seq))

-----------------------------------------------------------------------------
(* do_add_queue: a packet goes ahead of the translation misses.  The next  *)
(* check_collision starts at the first unchecked packet and runs to the    *)
(* end, so it checks those behind the new one again.                       *)

Unchecked(seq) == [n \in DOMAIN seq |-> [seq[n] EXCEPT !.forward_checked = FALSE]]

\* The last position ahead of the first late packet of seq.
InsertAfter(seq, n) ==
  /\ n \in 0..Len(seq)
  /\ \A k \in 1..n : ~seq[k].late
  /\ n < Len(seq) => seq[n + 1].late

AddQueue(q, i, a) ==
  /\ requested[i] = Idle
  /\ Len(queues[q]) < QueueSize[q]
  /\ \E n \in 0..Len(queues[q]) :
       /\ InsertAfter(queues[q], n)
       /\ LET new == [ids |-> {i}, vaddr |-> a, page |-> PageOf[a], issued |-> FALSE,
                      is_translated |-> FALSE, late |-> FALSE, forward_checked |-> FALSE]
              seq == queues[q]
          IN  queues' = [queues EXCEPT ![q] = SubSeq(seq, 1, n) \o <<new>> \o
                                              Unchecked(SubSeq(seq, n + 1, Len(seq)))]
  /\ requested' = [requested EXCEPT ![i] = a]
  /\ UNCHANGED translating

-----------------------------------------------------------------------------
(* check_collision                                                         *)

FirstUnchecked(q, n) ==
  /\ n \in DOMAIN queues[q]
  /\ ~queues[q][n].forward_checked
  /\ \A k \in 1..(n - 1) : queues[q][k].forward_checked

\* Fault: packets that are not translated yet are compared like the others.
FaultBothTranslated(p, d) == TRUE

BothTranslated(p, d) == p.is_translated /\ d.is_translated

\* do_collision_for: the first of seq with the address of p is number m, and both
\* are translated.
Collides(p, seq, m) ==
  /\ m \in DOMAIN seq
  /\ SameAddress(p, seq[m])
  /\ \A k \in 1..(m - 1) : ~SameAddress(p, seq[k])
  /\ BothTranslated(p, seq[m])

ForwardsFromWQ(q, p) == q # "WQ" /\ \E m \in DOMAIN queues["WQ"] : Collides(p, queues["WQ"], m)

CheckCollision(q) ==
  /\ \E n \in DOMAIN queues[q] :
       /\ FirstUnchecked(q, n)
       /\ LET p == queues[q][n]
              older == SubSeq(queues[q], 1, n - 1)
          IN  \/ /\ q # "WQ"
                 /\ queues' = [queues EXCEPT ![q] = Without(@, n)]
                 /\ \E m \in DOMAIN queues["WQ"] :
                      /\ Collides(p, queues["WQ"], m)
                      /\ Answer(p.ids, queues["WQ"][m].vaddr)
              \/ /\ ~ForwardsFromWQ(q, p)
                 /\ \E m \in 1..(n - 1) :
                      /\ Collides(p, older, m)
                      /\ LET merged == [queues[q] EXCEPT ![m].ids = @ \cup p.ids]
                         IN  queues' = [queues EXCEPT ![q] = Without(merged, n)]
                 /\ UNCHANGED requested
              \/ /\ ~ForwardsFromWQ(q, p)
                 /\ \A m \in 1..(n - 1) : ~Collides(p, older, m)
                 /\ queues' = [queues EXCEPT ![q][n].forward_checked = TRUE]
                 /\ UNCHANGED requested
  /\ UNCHANGED translating

-----------------------------------------------------------------------------
(* Translation                                                             *)

\* do_issue_translation, the TLB taking the request of a packet that never asked.  The
\* code finds it by address = v_address, so one that another's answer has translated
\* already is sent again if its two pages have one number.
IssueTranslation(q, n) ==
  /\ queues[q][n].forward_checked
  /\ ~queues[q][n].issued
  /\ queues[q][n].page = Page(queues[q][n])
  /\ queues' = [queues EXCEPT ![q][n].issued = TRUE, ![q][n].page = 0]
  /\ translating' = translating \cup {Page(queues[q][n])}
  /\ UNCHANGED requested

\* do_detect_misses: a prefix of packets whose latency has passed and which have no
\* address (any such prefix, as latencies vary) is moved to the back.
DetectMisses(q, k) ==
  /\ \A n \in 1..k : LET p == queues[q][n]
                     IN  p.forward_checked /\ ~HasAddress(p) /\ ~p.late
  /\ LET missed == [n \in 1..k |-> [queues[q][n] EXCEPT !.late = TRUE]]
     IN  queues' = [queues EXCEPT ![q] = SubSeq(@, k + 1, Len(@)) \o missed]
  /\ UNCHANGED <<translating, requested>>

\* Fault: the packet keeps the maximal event_cycle it was given as a miss.
FaultTranslated(p, ppage) == [p EXCEPT !.page = ppage, !.is_translated = TRUE]

\* Fault: packets that were moved to the back are passed by.
FaultSkipsMisses(p, ppage) ==
  IF p.late THEN p ELSE [p EXCEPT !.page = ppage, !.is_translated = TRUE]

Translated(p, ppage) == [p EXCEPT !.page = ppage, !.is_translated = TRUE, !.late = FALSE]

\* return_data: every packet of the page, issued or not, gets its address.
ReturnTranslation(v, ppage) ==
  /\ v \in translating
  /\ translating' = translating \ {v}
  /\ queues' = [q \in QueueNames |-> [n \in DOMAIN queues[q] |->
                  IF Page(queues[q][n]) = v THEN Translated(queues[q][n], ppage)
                  ELSE queues[q][n]]]
  /\ UNCHANGED requested

\* is_ready: the cache takes a packet from the front once it has its address.
TakeFront(q) ==
  /\ queues[q] # <<>>
  /\ HasAddress(Head(queues[q]))
  /\ Head(queues[q]).is_translated
  /\ ~Head(queues[q]).late
  /\ queues' = [queues EXCEPT ![q] = Tail(@)]
  /\ Answer(Head(queues[q]).ids, Head(queues[q]).vaddr)
  /\ UNCHANGED translating

-----------------------------------------------------------------------------
(* Properties.                                                             *)

QueuesTypeOK ==
  /\ queues \in [QueueNames -> Seq(Packet)]
  /\ \A q \in QueueNames : Len(queues[q]) <= QueueSize[q]
  /\ translating \subseteq TranslatedPages
  /\ requested \in [Ids -> VAddrs \cup {Idle}]

Queued == UNION {{queues[q][n] : n \in DOMAIN queues[q]} : q \in QueueNames}

\* A packet without an address has its page in translation: one answer serves all
\* packets of its page, also those that did not ask or asked again, and none is
\* passed by.
UntranslatedIsComing == \A p \in Queued : ~HasAddress(p) => Page(p) \in translating

\* A request is only merged with requests for its own virtual block and only answered
\* with that block, although the address field of an older packet may hold the same
\* number for another block: a virtual page X waiting to be sent beside a physical
\* page X.  An outstanding request is in the queues.
RequestsKeepTheirBlock ==
  /\ \A p \in Queued : \A i \in p.ids : requested[i] = p.vaddr
  /\ \A i \in Ids : requested[i] # Idle => \E p \in Queued : i \in p.ids
=============================================================================
