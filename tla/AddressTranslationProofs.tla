------------------------ MODULE AddressTranslationProofs ------------------------
(***************************************************************************)
(* Theorems about AddressTranslation and the virtual memory under it, for  *)
(* every pool, set of pages and tree of page tables, any number of tables  *)
(* in a page, every set of requests and every queue.  Pages are handed out *)
(* in increasing order: all that have been handed out lie below            *)
(* next_ppage, all tables that have been placed before next_pte_page.  The *)
(* walker's invariant says what a walk holds and what the cache below      *)
(* owes; the queues' invariant says of each packet, whatever its place,    *)
(* what is true of it (Good), and that a request is in one packet          *)
(* (RequestInv).                                                           *)
(***************************************************************************)
EXTENDS AddressTranslation, SequenceTheorems, FiniteSetTheorems, TLAPS

-----------------------------------------------------------------------------
(* The virtual memory.                                                     *)

\* Piece p lies before piece q.
Before(p, q) == p[1] < q[1] \/ (p[1] = q[1] /\ p[2] < q[2])

HandedOut ==
  /\ \A v \in VPages : vpage_to_ppage_map[v] < next_ppage
  /\ next_pte_page[1] < next_ppage
  /\ \A v \in VPages : vpage_to_ppage_map[v] # NoPage => vpage_to_ppage_map[v] # next_pte_page[1]
  /\ \A t \in Tables : page_table[t] # NoPiece => Before(page_table[t], next_pte_page)

\* The inductive invariant.
VmemInv == VmemTypeOK /\ HandedOut /\ PagesDisjoint

USE DEF NoPage, NoPiece, PPages, Pieces

LEMMA VmemInvInit == VmemInit => VmemInv
BY PoolAssumption DEF VmemInit, VmemInv, VmemTypeOK, HandedOut, PagesDisjoint, Before

LEMMA VaToPaInv == ASSUME VmemInv, NEW v \in VPages, VaToPa(v) PROVE VmemInv'
<1> USE PoolAssumption
<1>1. CASE ~Faults(v)
  BY <1>1 DEF VaToPa, VmemInv, VmemTypeOK, HandedOut, PagesDisjoint, Before
<1>2. CASE Faults(v)
  <2>1. /\ vpage_to_ppage_map' = [vpage_to_ppage_map EXCEPT ![v] = next_ppage]
        /\ next_ppage' = next_ppage + 1
        /\ next_ppage < LAST_PPAGE
        /\ UNCHANGED <<next_pte_page, page_table>>
    BY <1>2 DEF VaToPa, Popped, Available
  <2>2. VmemTypeOK'
    BY <2>1 DEF VmemInv, VmemTypeOK
  <2>3. HandedOut'
    BY <2>1 DEF VmemInv, VmemTypeOK, HandedOut, Before
  <2>4. PagesDisjoint'
    BY <2>1 DEF VmemInv, VmemTypeOK, HandedOut, PagesDisjoint, Before
  <2> QED BY <2>2, <2>3, <2>4 DEF VmemInv
<1> QED BY <1>1, <1>2

\* The one thing get_pte_pa does: it places t at a piece behind all tables, on a page
\* without data, and takes the next piece.
LEMMA PlaceTableInv ==
  ASSUME VmemInv, NEW t \in Tables, NEW piece \in Pieces, NEW front \in Nat,
         PlaceTable(t, piece, front), UNCHANGED vpage_to_ppage_map,
         front <= LAST_PPAGE, next_ppage <= front, piece[1] < front,
         \A v \in VPages : vpage_to_ppage_map[v] # piece[1],
         \A s \in Tables : page_table[s] # NoPiece => Before(page_table[s], piece)
  PROVE  VmemInv'
<1> USE PoolAssumption
<1>1. page_table' = [page_table EXCEPT ![t] = piece]
  BY DEF PlaceTable
<1>2. /\ piece[1] \in FIRST_PPAGE..(LAST_PPAGE - 1)
      /\ piece[2] \in 0..(PIECES - 1)
      /\ piece = <<piece[1], piece[2]>>
  OBVIOUS
<1>3. /\ next_pte_page' \in Pieces
      /\ next_ppage' \in FIRST_PPAGE..LAST_PPAGE
      /\ Before(piece, next_pte_page')
      /\ next_pte_page'[1] < next_ppage'
      /\ next_ppage <= next_ppage'
      /\ next_pte_page'[1] = piece[1] \/ next_pte_page'[1] = front
  <2>1. CASE IsFull(piece)
    BY <1>2, <2>1 DEF PlaceTable, Available, Before, VmemInv, VmemTypeOK
  <2>2. CASE ~IsFull(piece)
    BY <1>2, <2>2 DEF PlaceTable, IsFull, Before, VmemInv, VmemTypeOK
  <2> QED BY <2>1, <2>2
<1>4. VmemTypeOK'
  BY <1>1, <1>3 DEF VmemInv, VmemTypeOK
<1>5. \A s \in Tables : page_table'[s] # NoPiece => Before(page_table'[s], next_pte_page')
  <2> TAKE s \in Tables
  <2>1. CASE s = t
    BY <1>1, <1>3, <2>1 DEF VmemInv, VmemTypeOK
  <2>2. CASE s # t
    <3> HAVE page_table'[s] # NoPiece
    <3>1. page_table'[s] = page_table[s] /\ page_table[s] \in Pieces
      BY <1>1, <2>2 DEF VmemInv, VmemTypeOK
    <3>2. Before(page_table[s], piece)
      BY <3>1
    <3> QED BY <1>2, <1>3, <3>1, <3>2 DEF Before
  <2> QED BY <2>1, <2>2
<1>6. HandedOut'
  BY <1>3, <1>5 DEF VmemInv, VmemTypeOK, HandedOut
<1>7. PagesDisjoint'
  BY <1>1, <1>2 DEF VmemInv, VmemTypeOK, PagesDisjoint, Before
<1> QED BY <1>4, <1>6, <1>7 DEF VmemInv

LEMMA GetPtePaInv == ASSUME VmemInv, NEW t \in Tables, GetPtePa(t) PROVE VmemInv'
<1> USE PoolAssumption
<1>1. CASE TakeFirst /\ PlaceTable(t, <<next_ppage, 0>>, next_ppage + 1)
  <2>1. /\ <<next_ppage, 0>> \in Pieces
        /\ next_ppage + 1 \in Nat /\ next_ppage + 1 <= LAST_PPAGE
    BY <1>1 DEF TakeFirst, Available, VmemInv, VmemTypeOK
  <2>2. \A v \in VPages : vpage_to_ppage_map[v] # next_ppage
    BY DEF VmemInv, VmemTypeOK, HandedOut
  <2>3. \A s \in Tables : page_table[s] = NoPiece
    BY <1>1 DEF TakeFirst, VmemInv, VmemTypeOK, HandedOut, Before
  <2>4. next_ppage \in Nat
    BY DEF VmemInv, VmemTypeOK
  <2> QED BY <1>1, <2>1, <2>2, <2>3, <2>4, PlaceTableInv DEF GetPtePa
<1>2. CASE next_pte_page # NoPiece /\ TableFaults(t) /\ PlaceTable(t, next_pte_page, next_ppage)
  <2>1. /\ next_pte_page \in Pieces /\ next_ppage \in Nat /\ next_ppage <= LAST_PPAGE
        /\ next_pte_page[1] < next_ppage
    BY <1>2 DEF VmemInv, VmemTypeOK, HandedOut
  <2>2. \A v \in VPages : vpage_to_ppage_map[v] # next_pte_page[1]
    BY <2>1 DEF VmemInv, VmemTypeOK, HandedOut
  <2>3. \A s \in Tables : page_table[s] # NoPiece => Before(page_table[s], next_pte_page)
    BY DEF VmemInv, HandedOut
  <2> QED BY <1>2, <2>1, <2>2, <2>3, PlaceTableInv DEF GetPtePa
<1>3. CASE UNCHANGED vmem_vars
  BY <1>3 DEF vmem_vars, VmemInv, VmemTypeOK, HandedOut, PagesDisjoint
<1> QED BY <1>1, <1>2, <1>3 DEF GetPtePa, vmem_vars

LEMMA VmemInvNext == VmemInv /\ [VmemNext]_vmem_vars => VmemInv'
<1> SUFFICES ASSUME VmemInv, [VmemNext]_vmem_vars PROVE VmemInv'
  OBVIOUS
<1>1. ASSUME NEW v \in VPages, VaToPa(v) PROVE VmemInv'
  BY <1>1, VaToPaInv
<1>2. ASSUME NEW t \in Tables, GetPtePa(t) PROVE VmemInv'
  BY <1>2, GetPtePaInv
<1>3. CASE UNCHANGED vmem_vars
  BY <1>3 DEF vmem_vars, VmemInv, VmemTypeOK, HandedOut, PagesDisjoint
<1> QED BY <1>1, <1>2, <1>3 DEF VmemNext

LEMMA VmemInvariant == VmemSpec => []VmemInv
BY VmemInvInit, VmemInvNext, PTL DEF VmemSpec

\* Every page number handed out exists, and every table is inside its page.
THEOREM VmemTypeCorrect == VmemSpec => []VmemTypeOK
BY VmemInvariant, PTL DEF VmemInv

\* va_to_pa and get_pte_pa share one pool and never hand out the same memory twice.
THEOREM Disjoint == VmemSpec => []PagesDisjoint
BY VmemInvariant, PTL DEF VmemInv

LEMMA StableStep ==
  ASSUME VmemInv, [VmemNext]_vmem_vars
  PROVE  /\ \A v \in VPages : vpage_to_ppage_map[v] # NoPage =>
              vpage_to_ppage_map'[v] = vpage_to_ppage_map[v]
         /\ \A t \in Tables : page_table[t] # NoPiece => page_table'[t] = page_table[t]
<1>1. ASSUME NEW v \in VPages, VaToPa(v)
      PROVE  /\ UNCHANGED page_table
             /\ \A w \in VPages : vpage_to_ppage_map[w] # NoPage =>
                  vpage_to_ppage_map'[w] = vpage_to_ppage_map[w]
  BY <1>1 DEF VaToPa, Faults, VmemInv, VmemTypeOK
<1>2. ASSUME NEW t \in Tables, GetPtePa(t)
      PROVE  /\ UNCHANGED vpage_to_ppage_map
             /\ \A s \in Tables : page_table[s] # NoPiece => page_table'[s] = page_table[s]
  <2>1. CASE TakeFirst
    <3>1. \A s \in Tables : page_table[s] = NoPiece
      BY <2>1, PoolAssumption DEF TakeFirst, VmemInv, VmemTypeOK, HandedOut, Before
    <3> QED BY <1>2, <3>1 DEF GetPtePa
  <2>2. CASE ~TakeFirst
    BY <1>2, <2>2 DEF GetPtePa, PlaceTable, TableFaults, VmemInv, VmemTypeOK
  <2> QED BY <2>1, <2>2
<1>3. CASE UNCHANGED vmem_vars
  BY <1>3 DEF vmem_vars
<1> QED BY <1>1, <1>2, <1>3 DEF VmemNext

\* The page or the table that was asked for has a place.
LEMMA VaToPaResult ==
  ASSUME VmemInv, NEW v \in VPages, VaToPa(v)
  PROVE  vpage_to_ppage_map'[v] \in PPages
BY PoolAssumption DEF VmemInv, VmemTypeOK, VaToPa, Faults, Available

LEMMA GetPtePaResult ==
  ASSUME VmemInv, NEW t \in Tables, GetPtePa(t)
  PROVE  page_table'[t] \in Pieces
<1> USE PoolAssumption
<1>1. CASE TakeFirst /\ PlaceTable(t, <<next_ppage, 0>>, next_ppage + 1)
  BY <1>1 DEF TakeFirst, PlaceTable, Available, VmemInv, VmemTypeOK
<1>2. CASE next_pte_page # NoPiece /\ TableFaults(t) /\ PlaceTable(t, next_pte_page, next_ppage)
  BY <1>2 DEF PlaceTable, VmemInv, VmemTypeOK
<1>3. CASE ~TableFaults(t) /\ UNCHANGED page_table
  BY <1>3 DEF TableFaults, VmemInv, VmemTypeOK
<1> QED BY <1>1, <1>2, <1>3 DEF GetPtePa

\* No mapping changes once it is made: in every step of va_to_pa and get_pte_pa.
THEOREM Stable == VmemSpec => MappingsStable
<1>1. VmemInv /\ [VmemNext]_vmem_vars =>
        [/\ \A v \in VPages : vpage_to_ppage_map[v] # NoPage =>
              vpage_to_ppage_map'[v] = vpage_to_ppage_map[v]
         /\ \A t \in Tables : page_table[t] # NoPiece => page_table'[t] = page_table[t]]_vmem_vars
  BY StableStep
<1> QED BY <1>1, VmemInvariant, PTL DEF VmemSpec, MappingsStable

-----------------------------------------------------------------------------
(* What the pool gives away.                                               *)

Mapped == {v \in VPages : vpage_to_ppage_map[v] # NoPage}
Placed == {t \in Tables : page_table[t] # NoPiece}

\* Every page taken from the pool is that of one virtual page, or full of tables, or
\* the one the next table lies in: k pages are full.
PagesAccounted ==
  \/ /\ next_pte_page = NoPiece
     /\ Placed = {}
     /\ next_ppage = FIRST_PPAGE + Cardinality(Mapped)
  \/ /\ next_pte_page # NoPiece
     /\ \E k \in Nat : /\ Cardinality(Placed) = PIECES * k + next_pte_page[2]
                       /\ next_ppage = FIRST_PPAGE + Cardinality(Mapped) + k + 1

LEMMA CountsAreFinite ==
  /\ IsFiniteSet(Mapped) /\ Cardinality(Mapped) \in Nat /\ Cardinality(Mapped) <= Cardinality(VPages)
  /\ IsFiniteSet(Placed) /\ Cardinality(Placed) \in Nat /\ Cardinality(Placed) <= Cardinality(Tables)
<1>1. Mapped \in SUBSET VPages /\ Placed \in SUBSET Tables
  BY DEF Mapped, Placed
<1>2. /\ IsFiniteSet(Mapped) /\ Cardinality(Mapped) <= Cardinality(VPages)
      /\ IsFiniteSet(Placed) /\ Cardinality(Placed) <= Cardinality(Tables)
  BY <1>1, SpaceAssumption, FS_Subset
<1> QED BY <1>2, FS_CardinalityType

LEMMA PagesAccountedInit == VmemInit => PagesAccounted
<1> SUFFICES ASSUME VmemInit PROVE PagesAccounted
  OBVIOUS
<1>1. Mapped = {} /\ Placed = {}
  BY DEF VmemInit, Mapped, Placed
<1>2. Cardinality(Mapped) = 0
  BY <1>1, FS_EmptySet
<1> QED BY <1>1, <1>2, PoolAssumption DEF VmemInit, PagesAccounted

\* One virtual page more, one page less in the pool.
LEMMA VaToPaAccounted ==
  ASSUME VmemInv, PagesAccounted, NEW v \in VPages, VaToPa(v) PROVE PagesAccounted'
<1> USE PoolAssumption
<1>1. Placed' = Placed /\ UNCHANGED next_pte_page
  BY DEF VaToPa, Placed
<1>2. CASE ~Faults(v)
  <2>1. Mapped' = Mapped /\ UNCHANGED next_ppage
    BY <1>2 DEF VaToPa, Mapped
  <2> QED BY <1>1, <2>1 DEF PagesAccounted
<1>3. CASE Faults(v)
  <2>1. /\ vpage_to_ppage_map' = [vpage_to_ppage_map EXCEPT ![v] = next_ppage]
        /\ next_ppage' = next_ppage + 1
    BY <1>3 DEF VaToPa, Popped
  <2>2. v \notin Mapped /\ Mapped' = Mapped \cup {v}
    BY <1>3, <2>1 DEF Faults, Mapped, VmemInv, VmemTypeOK
  <2>3. Cardinality(Mapped') = Cardinality(Mapped) + 1
    BY <2>2, CountsAreFinite, FS_AddElement
  <2> HIDE DEF Mapped, Placed
  <2> QED BY <1>1, <2>1, <2>3, CountsAreFinite DEF PagesAccounted
<1> QED BY <1>2, <1>3

\* One table more: the next piece of the page, or the page is full and one less in the pool.
LEMMA PlaceTableAccounted ==
  ASSUME VmemInv, NEW t \in Tables, NEW piece \in Pieces, NEW front \in Nat,
         PlaceTable(t, piece, front), UNCHANGED vpage_to_ppage_map, TableFaults(t),
         NEW k \in Nat, Cardinality(Placed) = PIECES * k + piece[2],
         front = FIRST_PPAGE + Cardinality(Mapped) + k + 1
  PROVE  PagesAccounted'
<1> USE PoolAssumption
<1>1. Mapped' = Mapped
  BY DEF Mapped
<1>2. /\ piece[2] \in 0..(PIECES - 1)
      /\ piece \in PPages \X (0..(PIECES - 1))
      /\ piece # NoPiece
  OBVIOUS
<1>3. t \notin Placed /\ Placed' = Placed \cup {t}
  BY <1>2 DEF PlaceTable, TableFaults, Placed, VmemInv, VmemTypeOK
<1>4. Cardinality(Placed') = PIECES * k + piece[2] + 1
  <2>1. Cardinality(Placed') = Cardinality(Placed) + 1
    BY <1>3, CountsAreFinite, FS_AddElement
  <2> QED BY <2>1
<1>5. PIECES * (k + 1) = PIECES * k + PIECES /\ PIECES * k \in Nat
  OBVIOUS
<1>6. CASE IsFull(piece)
  <2>1. next_pte_page' = <<front, 0>> /\ next_ppage' = front + 1
    BY <1>6 DEF PlaceTable
  <2>2. front # 0 /\ next_pte_page' # NoPiece /\ next_pte_page'[2] = 0
    BY <2>1, CountsAreFinite
  <2>3. Cardinality(Placed') = PIECES * (k + 1) + 0
    BY <1>2, <1>4, <1>5, <1>6 DEF IsFull
  <2>4. next_ppage' = FIRST_PPAGE + Cardinality(Mapped') + (k + 1) + 1
    BY <1>1, <2>1, CountsAreFinite
  <2> QED BY <2>2, <2>3, <2>4 DEF PagesAccounted
<1>7. CASE ~IsFull(piece)
  <2>1. next_pte_page' = <<piece[1], piece[2] + 1>> /\ next_ppage' = front
    BY <1>7 DEF PlaceTable
  <2>2. next_pte_page' # NoPiece /\ next_pte_page'[2] = piece[2] + 1
    BY <1>2, <2>1
  <2>3. Cardinality(Placed') = PIECES * k + next_pte_page'[2]
    BY <1>2, <1>4, <1>5, <2>2
  <2> QED BY <1>1, <2>1, <2>2, <2>3 DEF PagesAccounted
<1> QED BY <1>6, <1>7

LEMMA GetPtePaAccounted ==
  ASSUME VmemInv, PagesAccounted, NEW t \in Tables, GetPtePa(t) PROVE PagesAccounted'
<1> USE PoolAssumption
<1>1. CASE TakeFirst /\ PlaceTable(t, <<next_ppage, 0>>, next_ppage + 1)
  <2>1. <<next_ppage, 0>> \in Pieces /\ next_ppage + 1 \in Nat
    BY <1>1 DEF TakeFirst, Available, VmemInv, VmemTypeOK
  <2>2. Placed = {} /\ next_ppage = FIRST_PPAGE + Cardinality(Mapped)
    BY <1>1 DEF TakeFirst, PagesAccounted
  <2>3. TableFaults(t)
    BY <2>2 DEF Placed, TableFaults
  <2>4. Cardinality(Placed) = PIECES * 0 + <<next_ppage, 0>>[2]
    BY <2>2, FS_EmptySet
  <2>5. next_ppage + 1 = FIRST_PPAGE + Cardinality(Mapped) + 0 + 1
    BY <2>2, CountsAreFinite
  <2> DEFINE zero == 0
             first == <<next_ppage, 0>>
             front == next_ppage + 1
  <2>6. /\ zero \in Nat /\ first \in Pieces /\ front \in Nat
        /\ PlaceTable(t, first, front) /\ UNCHANGED vpage_to_ppage_map
        /\ Cardinality(Placed) = PIECES * zero + first[2]
        /\ front = FIRST_PPAGE + Cardinality(Mapped) + zero + 1
    BY <1>1, <2>1, <2>4, <2>5 DEF GetPtePa
  <2> HIDE DEF zero, first, front
  <2> QED BY <2>3, <2>6, PlaceTableAccounted
<1>2. CASE next_pte_page # NoPiece /\ TableFaults(t) /\ PlaceTable(t, next_pte_page, next_ppage)
  <2>1. next_pte_page \in Pieces /\ next_ppage \in Nat /\ UNCHANGED vpage_to_ppage_map
    BY <1>2 DEF VmemInv, VmemTypeOK, GetPtePa
  <2>2. PICK k \in Nat : /\ Cardinality(Placed) = PIECES * k + next_pte_page[2]
                         /\ next_ppage = FIRST_PPAGE + Cardinality(Mapped) + k + 1
    BY <1>2 DEF PagesAccounted
  <2> QED BY <1>2, <2>1, <2>2, PlaceTableAccounted
<1>3. CASE UNCHANGED vmem_vars
  BY <1>3 DEF vmem_vars, PagesAccounted, Mapped, Placed
<1> QED BY <1>1, <1>2, <1>3 DEF GetPtePa, vmem_vars

LEMMA PagesAccountedNext ==
  VmemInv /\ PagesAccounted /\ [VmemNext]_vmem_vars => PagesAccounted'
<1> SUFFICES ASSUME VmemInv, PagesAccounted, [VmemNext]_vmem_vars PROVE PagesAccounted'
  OBVIOUS
<1>1. ASSUME NEW v \in VPages, VaToPa(v) PROVE PagesAccounted'
  BY <1>1, VaToPaAccounted
<1>2. ASSUME NEW t \in Tables, GetPtePa(t) PROVE PagesAccounted'
  BY <1>2, GetPtePaAccounted
<1>3. CASE UNCHANGED vmem_vars
  BY <1>3 DEF vmem_vars, PagesAccounted, Mapped, Placed
<1> QED BY <1>1, <1>2, <1>3 DEF VmemNext

\* As many pages of tables are full as the tables can fill.
LEMMA EnoughWhenAccounted == VmemInv /\ PagesAccounted => EnoughMemory
<1> SUFFICES ASSUME VmemInv, PagesAccounted, FIRST_PPAGE + PagesNeeded < LAST_PPAGE
             PROVE  next_ppage < LAST_PPAGE
  BY DEF EnoughMemory, Available
<1> DEFINE all == Cardinality(VPages)
           tables == Cardinality(Tables)
<1>1. all \in Nat /\ tables \in Nat
  BY SpaceAssumption, FS_CardinalityType
<1>2. tables \div PIECES \in Nat
  BY <1>1, PoolAssumption
<1>3. FIRST_PPAGE + (all + tables \div PIECES + 1) < LAST_PPAGE
  BY DEF PagesNeeded
<1>4. next_ppage <= FIRST_PPAGE + all + tables \div PIECES + 1
  <2>1. CASE next_ppage = FIRST_PPAGE + Cardinality(Mapped)
    BY <1>1, <1>2, <2>1, CountsAreFinite, PoolAssumption
  <2>2. ASSUME NEW k \in Nat, Cardinality(Placed) = PIECES * k + next_pte_page[2],
               next_ppage = FIRST_PPAGE + Cardinality(Mapped) + k + 1,
               next_pte_page # NoPiece
        PROVE  next_ppage <= FIRST_PPAGE + all + tables \div PIECES + 1
    <3>1. next_pte_page[2] \in Nat
      BY <2>2, PoolAssumption DEF VmemInv, VmemTypeOK
    <3>2. PIECES * k <= tables
      <4>1. PIECES * k \in Nat
        BY PoolAssumption
      <4> QED BY <1>1, <2>2, <3>1, <4>1, CountsAreFinite
    <3>3. k <= tables \div PIECES
      <4> HIDE DEF tables
      <4> QED BY <1>1, <3>2, PoolAssumption
    <3> QED BY <1>1, <1>2, <2>2, <3>3, CountsAreFinite, PoolAssumption
  <2> QED BY <2>1, <2>2 DEF PagesAccounted
<1> QED BY <1>1, <1>2, <1>3, <1>4, PoolAssumption DEF VmemInv, VmemTypeOK

\* The pool leaks nothing: of one page more than all virtual pages and all tables can
\* need, the assertion of ppage_front never fails.
THEOREM MemorySuffices == VmemSpec => []EnoughMemory
<1>1. VmemSpec => []PagesAccounted
  BY PagesAccountedInit, PagesAccountedNext, VmemInvariant, PTL DEF VmemSpec
<1> QED BY <1>1, EnoughWhenAccounted, VmemInvariant, PTL

-----------------------------------------------------------------------------
(* The walker.                                                             *)

\* What a walk has been told is still so.
WalksAreCurrent ==
  \A v \in VPages : MSHR[v].state \in {"penalty", "ready"} /\ MSHR[v].level = 0 =>
    MSHR[v].data = vpage_to_ppage_map[v]

\* The second-level TLB asks for a page once.
OneWalkPerPage ==
  \A n \in DOMAIN RQ : /\ MSHR[RQ[n]] = NoWalk
                       /\ \A m \in DOMAIN RQ : RQ[m] = RQ[n] => m = n

WalkTypeOK ==
  /\ RQ \in Seq(VPages)
  /\ MSHR = [v \in VPages |-> MSHR[v]]
  /\ \A v \in VPages : MSHR[v] = NoWalk \/ IsWalk(MSHR[v])
  /\ returning \subseteq VPages
  /\ \A v \in returning : MSHR[v] # NoWalk

\* The inductive invariant of the walker over the virtual memory.
WalkInv == VmemInv /\ WalkTypeOK /\ OneWalkPerPage /\ WalksAreCurrent /\ EveryAnswerHasItsWalk

-----------------------------------------------------------------------------
(* The virtual memory under the walker.                                    *)

\* Each step of the walker is a step of the virtual memory, or none.
WalkerActions ==
  \/ Construct
  \/ HandleRead
  \/ \E v \in VPages : \/ AddRq(v) \/ (MSHR[v] # NoWalk /\ ReturnData(MSHR[v].addr))
                       \/ VisitWalk(v) \/ PenaltyElapses(v) \/ HandleFill(v) \/ FinishWalk(v)

LEMMA VisitMemory ==
  ASSUME WalkTypeOK, NEW v \in VPages, VisitWalk(v)
  PROVE  \/ MSHR[v].level = 0 /\ VaToPa(v)
         \/ /\ MSHR[v].level \in Levels
            /\ TableAt(MSHR[v].level, v) \in Tables
            /\ GetPtePa(TableAt(MSHR[v].level, v))
<1>1. IsWalk(MSHR[v])
  BY DEF VisitWalk, WalkTypeOK
<1>2. MSHR[v].level = 0 \/ MSHR[v].level \in Levels
  BY <1>1, WalkerAssumption DEF IsWalk, Levels
<1> QED BY <1>2, WalkerAssumption DEF VisitWalk

LEMMA WalkerMemory == WalkTypeOK /\ WalkerActions => [VmemNext]_vmem_vars
<1> SUFFICES ASSUME WalkTypeOK, WalkerActions PROVE [VmemNext]_vmem_vars
  OBVIOUS
<1>1. CASE Construct
  BY <1>1, WalkerAssumption DEF Construct, VmemNext
<1>2. ASSUME NEW v \in VPages, VisitWalk(v) PROVE VmemNext
  BY <1>2, VisitMemory DEF VmemNext
<1>3. CASE UNCHANGED vmem_vars
  BY <1>3
<1> QED BY <1>1, <1>2, <1>3
        DEF WalkerActions, HandleRead, AddRq, ReturnData, PenaltyElapses, HandleFill, FinishWalk

-----------------------------------------------------------------------------
(* The walker.                                                             *)

\* What is said of walks and of what is owed survives a step of the memory alone.
LEMMA UnchangedWalks ==
  ASSUME WalkInv, [VmemNext]_vmem_vars, UNCHANGED ptw_vars
  PROVE  WalkInv'
<1>1. VmemInv'
  BY VmemInvNext DEF WalkInv
<1>2. WalksAreCurrent'
  <2>1. ASSUME NEW v \in VPages, MSHR[v].state \in {"penalty", "ready"}, MSHR[v].level = 0
        PROVE  vpage_to_ppage_map[v] # NoPage
    <3>1. MSHR[v].data \in PPages
      BY <2>1 DEF WalkInv, WalkTypeOK, IsWalk, NoWalk, Levels
    <3> QED BY <2>1, <3>1, PoolAssumption DEF WalkInv, WalksAreCurrent, PPages, NoPage
  <2> QED BY <2>1, StableStep DEF WalkInv, WalksAreCurrent, ptw_vars
<1> QED BY <1>1, <1>2 DEF WalkInv, ptw_vars, WalkTypeOK, OneWalkPerPage, EveryAnswerHasItsWalk

LEMMA AddRqInv == ASSUME WalkInv, NEW v \in VPages, AddRq(v) PROVE WalkInv'
<1>1. /\ RQ' = Append(RQ, v)
      /\ UNCHANGED <<MSHR, pscl, lower, returning, vmem_vars>>
      /\ MSHR[v] = NoWalk
      /\ \A n \in DOMAIN RQ : RQ[n] # v
  BY DEF AddRq
<1>2. RQ \in Seq(VPages)
  BY DEF WalkInv, WalkTypeOK
<1>3. WalkTypeOK'
  BY <1>1, <1>2, AppendProperties DEF WalkInv, WalkTypeOK
<1>4. OneWalkPerPage'
  <2>1. /\ Len(RQ) \in Nat /\ DOMAIN RQ = 1..Len(RQ) /\ DOMAIN RQ' = 1..(Len(RQ) + 1)
        /\ \A i \in 1..Len(RQ) : RQ'[i] = RQ[i]
        /\ RQ'[Len(RQ) + 1] = v
    BY <1>1, <1>2
  <2> QED BY <1>1, <2>1 DEF WalkInv, OneWalkPerPage
<1> QED BY <1>1, <1>3, <1>4 DEF WalkInv, WalksAreCurrent, EveryAnswerHasItsWalk, vmem_vars,
          VmemInv, VmemTypeOK, HandedOut, PagesDisjoint

LEMMA HandleReadInv == ASSUME WalkInv, HandleRead PROVE WalkInv'
<1> DEFINE v == Head(RQ)
<1>1. PICK level \in 0..LEVELS, addr \in Block : StepTranslation(v, addr, level)
  BY DEF HandleRead
<1>2. /\ RQ \in Seq(VPages) /\ RQ # <<>> /\ RQ' = Tail(RQ) /\ returning = {}
      /\ UNCHANGED <<pscl, returning, vmem_vars>>
  BY DEF HandleRead, Operating, WalkInv, WalkTypeOK
<1>3. /\ v \in VPages /\ v = RQ[1] /\ Tail(RQ) \in Seq(VPages) /\ Len(RQ) \in Nat \ {0}
      /\ DOMAIN RQ = 1..Len(RQ) /\ DOMAIN RQ' = 1..(Len(RQ) - 1)
      /\ \A i \in 1..(Len(RQ) - 1) : RQ'[i] = RQ[i + 1]
  BY <1>2
<1>4. /\ MSHR[v] = NoWalk
      /\ \A i \in 1..(Len(RQ) - 1) : RQ'[i] # v /\ MSHR[RQ'[i]] = NoWalk
      /\ \A i, j \in 1..(Len(RQ) - 1) : RQ'[i] = RQ'[j] => i = j
  <2>1. MSHR[v] = NoWalk /\ \A i \in 1..(Len(RQ) - 1) : MSHR[RQ[i + 1]] = NoWalk
    BY <1>3 DEF WalkInv, OneWalkPerPage
  <2>2. \A i, j \in 1..Len(RQ) : RQ[i] = RQ[j] => i = j
    BY <1>3 DEF WalkInv, OneWalkPerPage
  <2> HIDE DEF v
  <2> QED BY <1>3, <2>1, <2>2
<1>5. MSHR' = [MSHR EXCEPT ![v] = [state |-> "asked", level |-> level, addr |-> addr]]
  BY <1>1 DEF StepTranslation
<1> HIDE DEF v
<1>6. /\ MSHR' = [w \in VPages |-> MSHR'[w]]
      /\ MSHR'[v] = [state |-> "asked", level |-> level, addr |-> addr]
      /\ \A w \in VPages \ {v} : MSHR'[w] = MSHR[w]
  BY <1>3, <1>5 DEF WalkInv, WalkTypeOK
<1>7. WalkTypeOK'
  BY <1>2, <1>3, <1>6 DEF WalkInv, WalkTypeOK, IsWalk
<1>8. OneWalkPerPage'
  <2>1. \A i \in 1..(Len(RQ) - 1) : RQ'[i] \in VPages \ {v}
    <3>1. \A i \in 1..(Len(RQ) - 1) : RQ'[i] \in VPages
      BY <1>2, <1>3
    <3> QED BY <1>4, <3>1
  <2> QED BY <1>3, <1>4, <1>6, <2>1 DEF WalkInv, OneWalkPerPage
<1>9. WalksAreCurrent'
  BY <1>2, <1>6 DEF WalkInv, WalksAreCurrent, vmem_vars
<1>10. EveryAnswerHasItsWalk'
  <2>1. lower = {MSHR[w].addr : w \in {u \in VPages : MSHR[u].state = "asked"}}
    BY <1>2 DEF WalkInv, EveryAnswerHasItsWalk
  <2>2. lower' = lower \cup {addr}
    BY <1>1, <2>1 DEF StepTranslation, InFlight
  <2>3. MSHR[v].state # "asked"
    BY <1>4 DEF NoWalk
  <2>4. {MSHR'[w].addr : w \in {u \in VPages : MSHR'[u].state = "asked"}} = lower \cup {addr}
    BY <1>3, <1>6, <2>1, <2>3
  <2> QED BY <1>2, <2>2, <2>4 DEF EveryAnswerHasItsWalk
<1>11. VmemInv'
  BY <1>2 DEF WalkInv, vmem_vars, VmemInv, VmemTypeOK, HandedOut, PagesDisjoint
<1> QED BY <1>7, <1>8, <1>9, <1>10, <1>11 DEF WalkInv

LEMMA ReturnDataInv ==
  ASSUME WalkInv, NEW b, Operating, ReturnData(b)
  PROVE  WalkInv'
<1>1. /\ returning = {}
      /\ lower' = lower \ {b}
      /\ returning' = {v \in VPages : MSHR[v] # NoWalk /\ MSHR[v].addr = b}
      /\ UNCHANGED <<RQ, MSHR, pscl, vmem_vars>>
  BY DEF ReturnData, Operating
<1>2. WalkTypeOK' /\ OneWalkPerPage' /\ WalksAreCurrent'
  BY <1>1 DEF WalkInv, WalkTypeOK, OneWalkPerPage, WalksAreCurrent, vmem_vars
<1>3. EveryAnswerHasItsWalk'
  BY <1>1 DEF WalkInv, EveryAnswerHasItsWalk, NoWalk
<1>4. VmemInv'
  BY <1>1 DEF WalkInv, vmem_vars, VmemInv, VmemTypeOK, HandedOut, PagesDisjoint
<1> QED BY <1>2, <1>3, <1>4 DEF WalkInv

\* One walk of page v is answered: what return_data does for each that waits.
LEMMA VisitWalkInv == ASSUME WalkInv, NEW v \in VPages, VisitWalk(v) PROVE WalkInv'
<1>1. /\ v \in returning /\ returning' = returning \ {v}
      /\ UNCHANGED <<RQ, pscl, lower>>
      /\ IsWalk(MSHR[v])
  BY DEF VisitWalk, WalkInv, WalkTypeOK
<1>2. [VmemNext]_vmem_vars
  BY VisitMemory DEF WalkInv, VmemNext
<1>3. VmemInv'
  BY <1>2, VmemInvNext DEF WalkInv
<1>4. PICK data : /\ \/ MSHR[v].level = 0 /\ data = vpage_to_ppage_map'[v] /\ data \in PPages
                     \/ MSHR[v].level \in Levels /\ data \in Block
                  /\ \E faults \in BOOLEAN :
                       MSHR' = [MSHR EXCEPT ![v] = Returned(v, data, faults)]
  <2>1. CASE MSHR[v].level = 0 /\ VaToPa(v)
    <3>1. vpage_to_ppage_map'[v] \in PPages
      BY <2>1, VaToPaResult DEF WalkInv
    <3>2. MSHR' = [MSHR EXCEPT ![v] = Returned(v, vpage_to_ppage_map'[v], Faults(v))]
      BY <2>1 DEF VisitWalk
    <3>3. Faults(v) \in BOOLEAN
      BY DEF Faults
    <3> QED BY <2>1, <3>1, <3>2, <3>3
  <2>2. CASE /\ MSHR[v].level \in Levels
             /\ TableAt(MSHR[v].level, v) \in Tables
             /\ GetPtePa(TableAt(MSHR[v].level, v))
    <3> DEFINE l == MSHR[v].level
               table == page_table'[TableAt(l, v)]
               entry == [page |-> table[1], piece |-> table[2], line |-> LineOf[l][v]]
    <3>1. table \in Pieces
      BY <2>2, GetPtePaResult DEF WalkInv
    <3>2. LineOf[l][v] \in Lines
      BY <2>2, WalkerAssumption DEF Lines, Levels
    <3>3. entry \in Block
      BY <3>1, <3>2 DEF Block, Pieces
    <3>4. l # 0
      BY <2>2, WalkerAssumption DEF Levels
    <3>5. MSHR' = [MSHR EXCEPT ![v] = Returned(v, entry, TableFaults(TableAt(l, v)))]
      BY <3>4 DEF VisitWalk
    <3>6. TableFaults(TableAt(l, v)) \in BOOLEAN
      BY DEF TableFaults
    <3> QED BY <2>2, <3>3, <3>5, <3>6
  <2> QED BY <2>1, <2>2, VisitMemory DEF WalkInv
<1>5. PICK faults \in BOOLEAN : MSHR' = [MSHR EXCEPT ![v] = Returned(v, data, faults)]
  BY <1>4
<1>6. /\ MSHR' = [w \in VPages |-> MSHR'[w]]
      /\ MSHR'[v] = Returned(v, data, faults)
      /\ \A w \in VPages \ {v} : MSHR'[w] = MSHR[w]
  BY <1>5 DEF WalkInv, WalkTypeOK
<1>7. IsWalk(MSHR'[v]) /\ MSHR'[v] # NoWalk /\ MSHR'[v].state \in {"penalty", "ready"}
  BY <1>1, <1>4, <1>6, WalkerAssumption DEF IsWalk, Returned, NoWalk, Levels
<1>8. WalkTypeOK'
  BY <1>1, <1>6, <1>7 DEF WalkInv, WalkTypeOK
<1>9. OneWalkPerPage'
  <2>1. \A n \in DOMAIN RQ : RQ[n] \in VPages \ {v}
    <3>1. RQ \in Seq(VPages) /\ DOMAIN RQ = 1..Len(RQ)
      BY LenProperties DEF WalkInv, WalkTypeOK
    <3>2. \A n \in DOMAIN RQ : RQ[n] \in VPages
      BY <3>1, ElementOfSeq
    <3>3. MSHR[v] # NoWalk /\ \A n \in DOMAIN RQ : MSHR[RQ[n]] = NoWalk
      BY <1>1 DEF WalkInv, WalkTypeOK, OneWalkPerPage
    <3> QED BY <3>2, <3>3
  <2> QED BY <1>1, <1>6, <2>1 DEF WalkInv, OneWalkPerPage
<1>10. WalksAreCurrent'
  <2> SUFFICES ASSUME NEW w \in VPages, MSHR'[w].state \in {"penalty", "ready"}, MSHR'[w].level = 0
               PROVE  MSHR'[w].data = vpage_to_ppage_map'[w]
    BY DEF WalksAreCurrent
  <2>1. CASE w = v
    BY <1>4, <1>6, <2>1, WalkerAssumption DEF Returned, Levels
  <2>2. CASE w # v
    <3>1. MSHR[w].data = vpage_to_ppage_map[w]
      BY <1>6, <2>2 DEF WalkInv, WalksAreCurrent
    <3>2. MSHR[w].data \in PPages
      BY <1>6, <2>2 DEF WalkInv, WalkTypeOK, IsWalk, NoWalk, Levels
    <3>3. vpage_to_ppage_map[w] # NoPage
      BY <3>1, <3>2, PoolAssumption DEF PPages, NoPage
    <3> QED BY <1>2, <1>6, <2>2, <3>1, <3>3, StableStep DEF WalkInv
  <2> QED BY <2>1, <2>2
<1>11. EveryAnswerHasItsWalk'
  <2>1. {w \in VPages : MSHR'[w].state = "asked" /\ w \notin returning'}
          = {w \in VPages : MSHR[w].state = "asked" /\ w \notin returning}
    BY <1>1, <1>6, <1>7
  <2> QED BY <1>1, <1>6, <1>7, <2>1 DEF WalkInv, EveryAnswerHasItsWalk
<1> QED BY <1>3, <1>8, <1>9, <1>10, <1>11 DEF WalkInv

\* A walk in the MSHR is not in RQ.
LEMMA WalkNotQueued ==
  ASSUME WalkInv, NEW v \in VPages, MSHR[v] # NoWalk
  PROVE  \A n \in DOMAIN RQ : RQ[n] \in VPages \ {v}
<1>1. RQ \in Seq(VPages) /\ DOMAIN RQ = 1..Len(RQ)
  BY LenProperties DEF WalkInv, WalkTypeOK
<1>2. \A n \in DOMAIN RQ : RQ[n] \in VPages
  BY <1>1, ElementOfSeq
<1>3. \A n \in DOMAIN RQ : MSHR[RQ[n]] = NoWalk
  BY DEF WalkInv, OneWalkPerPage
<1> QED BY <1>2, <1>3

LEMMA PenaltyElapsesInv == ASSUME WalkInv, NEW v \in VPages, PenaltyElapses(v) PROVE WalkInv'
<1>1. /\ MSHR' = [MSHR EXCEPT ![v].state = "ready"]
      /\ MSHR[v].state = "penalty"
      /\ MSHR[v] # NoWalk /\ IsWalk(MSHR[v])
      /\ UNCHANGED <<RQ, pscl, lower, returning, vmem_vars>>
  BY DEF PenaltyElapses, WalkInv, WalkTypeOK, NoWalk
<1>2. /\ MSHR' = [w \in VPages |-> MSHR'[w]]
      /\ MSHR'[v] = [MSHR[v] EXCEPT !.state = "ready"]
      /\ \A w \in VPages \ {v} : MSHR'[w] = MSHR[w]
  BY <1>1 DEF WalkInv, WalkTypeOK
<1>3. /\ IsWalk(MSHR'[v]) /\ MSHR'[v].state = "ready" /\ MSHR'[v] # NoWalk
      /\ MSHR'[v].level = MSHR[v].level /\ MSHR'[v].data = MSHR[v].data
  BY <1>1, <1>2 DEF IsWalk, NoWalk
<1>4. WalkTypeOK'
  BY <1>1, <1>2, <1>3 DEF WalkInv, WalkTypeOK
<1>5. OneWalkPerPage'
  BY <1>1, <1>2, WalkNotQueued DEF WalkInv, OneWalkPerPage
<1>6. WalksAreCurrent'
  BY <1>1, <1>2, <1>3 DEF WalkInv, WalksAreCurrent, vmem_vars
<1>7. EveryAnswerHasItsWalk'
  <2>1. {w \in VPages : MSHR'[w].state = "asked" /\ w \notin returning'}
          = {w \in VPages : MSHR[w].state = "asked" /\ w \notin returning}
    BY <1>1, <1>2, <1>3
  <2> QED BY <1>1, <1>2, <1>3, <2>1 DEF WalkInv, EveryAnswerHasItsWalk
<1>8. VmemInv'
  BY <1>1 DEF WalkInv, vmem_vars, VmemInv, VmemTypeOK, HandedOut, PagesDisjoint
<1> QED BY <1>4, <1>5, <1>6, <1>7, <1>8 DEF WalkInv

\* The walk goes on: it asks the cache below for a block of the next level, or waits
\* for the answer another walk has asked for.
LEMMA HandleFillInv == ASSUME WalkInv, NEW v \in VPages, HandleFill(v) PROVE WalkInv'
<1> DEFINE addr == MSHR[v].data
           level == MSHR[v].level - 1
<1>1. /\ StepTranslation(v, addr, level)
      /\ MSHR[v].state = "ready" /\ MSHR[v].level # 0
      /\ MSHR[v] # NoWalk /\ IsWalk(MSHR[v])
      /\ returning = {}
      /\ UNCHANGED <<RQ, returning, vmem_vars>>
  BY DEF HandleFill, Operating, WalkInv, WalkTypeOK, NoWalk
<1>2. addr \in Block /\ level \in 0..LEVELS
  BY <1>1, WalkerAssumption DEF IsWalk, Levels
<1> HIDE DEF addr, level
<1>3. MSHR' = [MSHR EXCEPT ![v] = [state |-> "asked", level |-> level, addr |-> addr]]
  BY <1>1 DEF StepTranslation
<1>4. /\ MSHR' = [w \in VPages |-> MSHR'[w]]
      /\ MSHR'[v] = [state |-> "asked", level |-> level, addr |-> addr]
      /\ \A w \in VPages \ {v} : MSHR'[w] = MSHR[w]
  BY <1>3 DEF WalkInv, WalkTypeOK
<1>5. IsWalk(MSHR'[v])
  BY <1>2, <1>4 DEF IsWalk
<1>6. WalkTypeOK'
  BY <1>1, <1>4, <1>5 DEF WalkInv, WalkTypeOK
<1>7. OneWalkPerPage'
  BY <1>1, <1>4, WalkNotQueued DEF WalkInv, OneWalkPerPage
<1>8. WalksAreCurrent'
  BY <1>1, <1>4 DEF WalkInv, WalksAreCurrent, vmem_vars
<1>9. EveryAnswerHasItsWalk'
  <2>1. lower = {MSHR[w].addr : w \in {u \in VPages : MSHR[u].state = "asked"}}
    BY <1>1 DEF WalkInv, EveryAnswerHasItsWalk
  <2>2. lower' = lower \cup {addr}
    BY <1>1, <2>1 DEF StepTranslation, InFlight
  <2>3. {MSHR'[w].addr : w \in {u \in VPages : MSHR'[u].state = "asked"}} = lower \cup {addr}
    BY <1>1, <1>4, <2>1
  <2> QED BY <1>1, <2>2, <2>3 DEF EveryAnswerHasItsWalk
<1>10. VmemInv'
  BY <1>1 DEF WalkInv, vmem_vars, VmemInv, VmemTypeOK, HandedOut, PagesDisjoint
<1> QED BY <1>6, <1>7, <1>8, <1>9, <1>10 DEF WalkInv

LEMMA FinishWalkInv == ASSUME WalkInv, NEW v \in VPages, FinishWalk(v) PROVE WalkInv'
<1>1. /\ MSHR' = [MSHR EXCEPT ![v] = NoWalk]
      /\ MSHR[v].state = "ready" /\ MSHR[v] # NoWalk
      /\ returning = {}
      /\ UNCHANGED <<RQ, pscl, lower, returning, vmem_vars>>
  BY DEF FinishWalk, Operating, NoWalk
<1>2. /\ MSHR' = [w \in VPages |-> MSHR'[w]]
      /\ MSHR'[v] = NoWalk
      /\ \A w \in VPages \ {v} : MSHR'[w] = MSHR[w]
  BY <1>1 DEF WalkInv, WalkTypeOK
<1>3. WalkTypeOK'
  BY <1>1, <1>2 DEF WalkInv, WalkTypeOK
<1>4. OneWalkPerPage'
  BY <1>1, <1>2, WalkNotQueued DEF WalkInv, OneWalkPerPage
<1>5. WalksAreCurrent'
  BY <1>1, <1>2 DEF WalkInv, WalksAreCurrent, vmem_vars, NoWalk
<1>6. EveryAnswerHasItsWalk'
  <2>1. {w \in VPages : MSHR'[w].state = "asked" /\ w \notin returning'}
          = {w \in VPages : MSHR[w].state = "asked" /\ w \notin returning}
    BY <1>1, <1>2 DEF NoWalk
  <2> QED BY <1>1, <1>2, <2>1 DEF WalkInv, EveryAnswerHasItsWalk
<1>7. VmemInv'
  BY <1>1 DEF WalkInv, vmem_vars, VmemInv, VmemTypeOK, HandedOut, PagesDisjoint
<1> QED BY <1>3, <1>4, <1>5, <1>6, <1>7 DEF WalkInv

LEMMA WalkInvInit == PtwInit => WalkInv
<1> SUFFICES ASSUME PtwInit PROVE WalkInv
  OBVIOUS
<1>1. VmemInv
  BY VmemInvInit DEF PtwInit
<1>2. WalkTypeOK /\ OneWalkPerPage
  BY EmptySeq DEF PtwInit, WalkTypeOK, OneWalkPerPage
<1>3. WalksAreCurrent /\ EveryAnswerHasItsWalk
  BY DEF PtwInit, WalksAreCurrent, EveryAnswerHasItsWalk, NoWalk
<1> QED BY <1>1, <1>2, <1>3 DEF WalkInv

LEMMA WalkInvNext == ASSUME WalkInv, WalkerActions PROVE WalkInv'
<1>1. CASE Construct
  BY <1>1, WalkerMemory, UnchangedWalks DEF Construct, WalkInv
<1>2. CASE HandleRead
  BY <1>2, HandleReadInv
<1>3. ASSUME NEW v \in VPages, AddRq(v) PROVE WalkInv'
  BY <1>3, AddRqInv
<1>4. ASSUME NEW v \in VPages, ReturnData(MSHR[v].addr) PROVE WalkInv'
  BY <1>4, ReturnDataInv DEF ReturnData
<1>5. ASSUME NEW v \in VPages, VisitWalk(v) PROVE WalkInv'
  BY <1>5, VisitWalkInv
<1>6. ASSUME NEW v \in VPages, PenaltyElapses(v) PROVE WalkInv'
  BY <1>6, PenaltyElapsesInv
<1>7. ASSUME NEW v \in VPages, HandleFill(v) PROVE WalkInv'
  BY <1>7, HandleFillInv
<1>8. ASSUME NEW v \in VPages, FinishWalk(v) PROVE WalkInv'
  BY <1>8, FinishWalkInv
<1> QED BY <1>1, <1>2, <1>3, <1>4, <1>5, <1>6, <1>7, <1>8 DEF WalkerActions

-----------------------------------------------------------------------------
(* The queues.                                                             *)

\* What is true of every packet: once translated its address is the one its page has,
\* and if it has none, the TLB has been asked.
Good ==
  {p \in Packet : /\ p.is_translated /\ HasAddress(p) => p.page = vpage_to_ppage_map[Page(p)]
                  /\ ~HasAddress(p) => Page(p) \in translating}

QueueInv == queues \in [QueueNames -> Seq(Good)]

TlbInv ==
  /\ translating \subseteq VPages
  /\ tlb \in [VPages -> PPages \cup {NoPage}]
  /\ \A v \in VPages : tlb[v] # NoPage => tlb[v] = vpage_to_ppage_map[v]

LEMMA PageInVPages == ASSUME NEW p \in Packet PROVE Page(p) \in VPages
BY PagesAssumption DEF Page, Packet, TranslatedPages

LEMMA GoodPackets ==
  ASSUME NEW p \in Good
  PROVE  /\ \A b \in BOOLEAN : /\ [p EXCEPT !.forward_checked = b] \in Good
                              /\ [p EXCEPT !.late = b] \in Good
         /\ \A ids \in SUBSET Ids : [p EXCEPT !.ids = ids] \in Good
BY DEF Good, Packet, HasAddress, Page

LEMMA FunctionIsSeq ==
  ASSUME NEW S, NEW n \in Nat, NEW f \in [1..n -> S]
  PROVE  f \in Seq(S)
OBVIOUS

\* A part of a sequence, and a sequence without one element.
LEMMA PartOfSeq ==
  ASSUME NEW S, NEW seq \in Seq(S), NEW m \in 1..(Len(seq) + 1), NEW n \in 0..Len(seq)
  PROVE  SubSeq(seq, m, n) \in Seq(S)
<1>1. Len(seq) \in Nat
  BY LenProperties
<1>2. \A i \in m..n : seq[i] \in S
  BY <1>1, ElementOfSeq
<1> QED BY <1>1, <1>2, SubSeqProperties

LEMMA WithoutIsSeq ==
  ASSUME NEW S, NEW seq \in Seq(S), NEW n \in DOMAIN seq
  PROVE  Without(seq, n) \in Seq(S)
<1>1. DOMAIN seq = 1..Len(seq) /\ Len(seq) \in Nat
  BY LenProperties
<1>2. SubSeq(seq, 1, n - 1) \in Seq(S) /\ SubSeq(seq, n + 1, Len(seq)) \in Seq(S)
  BY <1>1, PartOfSeq
<1> QED BY <1>2, ConcatProperties DEF Without

LEMMA OneQueue ==
  ASSUME QueueInv, NEW q \in QueueNames, NEW new \in Seq(Good),
         queues' = [queues EXCEPT ![q] = new], UNCHANGED <<translating, vpage_to_ppage_map>>
  PROVE  QueueInv'
<1>1. Good' = Good
  BY DEF Good
<1> QED BY <1>1 DEF QueueInv

LEMMA AddQueueInv ==
  ASSUME QueueInv, UNCHANGED vmem_vars,
         NEW q \in QueueNames, NEW i \in Ids, NEW a \in VAddrs, AddQueue(q, i, a)
  PROVE  QueueInv'
<1> DEFINE new == [ids |-> {i}, vaddr |-> a, page |-> PageOf[a], issued |-> FALSE,
                   is_translated |-> FALSE, late |-> FALSE, forward_checked |-> FALSE]
           seq == queues[q]
<1>1. PICK n \in 0..Len(seq) :
        queues' = [queues EXCEPT ![q] = SubSeq(seq, 1, n) \o <<new>> \o
                                          Unchecked(SubSeq(seq, n + 1, Len(seq)))]
  BY DEF AddQueue
<1>2. new \in Good
  BY QueuesAssumption DEF Good, Packet, HasAddress
<1>3. seq \in Seq(Good)
  BY DEF QueueInv
<1> HIDE DEF new, seq
<1>4. SubSeq(seq, 1, n) \in Seq(Good) /\ SubSeq(seq, n + 1, Len(seq)) \in Seq(Good)
  <2>1. Len(seq) \in Nat
    BY <1>3, LenProperties
  <2> QED BY <1>3, <2>1, PartOfSeq
<1>5. Unchecked(SubSeq(seq, n + 1, Len(seq))) \in Seq(Good)
  <2> DEFINE rest == SubSeq(seq, n + 1, Len(seq))
  <2>1. DOMAIN rest = 1..Len(rest) /\ Len(rest) \in Nat
    BY <1>4, LenProperties
  <2>2. \A k \in 1..Len(rest) : [rest[k] EXCEPT !.forward_checked = FALSE] \in Good
    BY <1>4, ElementOfSeq, GoodPackets
  <2>3. Unchecked(rest) \in [1..Len(rest) -> Good]
    BY <2>1, <2>2 DEF Unchecked
  <2> QED BY <2>1, <2>3, FunctionIsSeq
<1>6. <<new>> \in Seq(Good)
  BY <1>2
<1>7. SubSeq(seq, 1, n) \o <<new>> \o Unchecked(SubSeq(seq, n + 1, Len(seq))) \in Seq(Good)
  BY <1>4, <1>5, <1>6, ConcatProperties
<1> QED BY <1>1, <1>7, OneQueue DEF AddQueue, vmem_vars

LEMMA CheckCollisionInv ==
  ASSUME QueueInv, UNCHANGED vmem_vars, NEW q \in QueueNames, CheckCollision(q)
  PROVE  QueueInv'
<1> DEFINE seq == queues[q]
<1>1. seq \in Seq(Good) /\ DOMAIN seq = 1..Len(seq) /\ Len(seq) \in Nat
  BY LenProperties DEF QueueInv
<1>2. \A k \in DOMAIN seq : seq[k] \in Good
  BY <1>1, ElementOfSeq
<1>3. PICK n \in DOMAIN seq :
        \/ queues' = [queues EXCEPT ![q] = Without(seq, n)]
        \/ \E m \in 1..(n - 1) :
             queues' = [queues EXCEPT
                          ![q] = Without([seq EXCEPT ![m].ids = @ \cup seq[n].ids], n)]
        \/ queues' = [queues EXCEPT ![q][n].forward_checked = TRUE]
  BY DEF CheckCollision
<1>4. CASE queues' = [queues EXCEPT ![q] = Without(seq, n)]
  BY <1>1, <1>4, WithoutIsSeq, OneQueue DEF CheckCollision, vmem_vars
<1>5. ASSUME NEW m \in 1..(n - 1),
             queues' = [queues EXCEPT ![q] = Without([seq EXCEPT ![m].ids = @ \cup seq[n].ids], n)]
      PROVE  QueueInv'
  <2> DEFINE p == [seq[m] EXCEPT !.ids = @ \cup seq[n].ids]
             merged == [seq EXCEPT ![m] = p]
  <2>1. m \in 1..Len(seq) /\ n \in 1..Len(seq)
    BY <1>1
  <2>2. seq[m].ids \cup seq[n].ids \in SUBSET Ids
    BY <1>1, <1>2, <2>1 DEF Good, Packet
  <2>3. p \in Good
    BY <1>1, <1>2, <2>1, <2>2, GoodPackets
  <2>4. merged \in Seq(Good) /\ Len(merged) = Len(seq)
    BY <1>1, <2>1, <2>3, ExceptSeq
  <2>5. merged = [seq EXCEPT ![m].ids = @ \cup seq[n].ids]
    OBVIOUS
  <2>6. n \in DOMAIN merged
    BY <2>1, <2>4, LenProperties
  <2>7. Without(merged, n) \in Seq(Good)
    BY <2>4, <2>6, WithoutIsSeq
  <2> HIDE DEF merged
  <2> QED BY <1>5, <2>5, <2>7, OneQueue DEF CheckCollision, vmem_vars
<1>6. CASE queues' = [queues EXCEPT ![q][n].forward_checked = TRUE]
  <2>1. [seq EXCEPT ![n] = [seq[n] EXCEPT !.forward_checked = TRUE]] \in Seq(Good)
    BY <1>1, <1>2, GoodPackets, ExceptSeq
  <2>2. queues' = [queues EXCEPT ![q] = [seq EXCEPT ![n] = [seq[n] EXCEPT !.forward_checked = TRUE]]]
    BY <1>6
  <2> QED BY <2>1, <2>2, OneQueue DEF CheckCollision, vmem_vars
<1> QED BY <1>3, <1>4, <1>5, <1>6

\* The packet waits, and its page is asked for.
LEMMA IssueTranslationInv ==
  ASSUME QueueInv, UNCHANGED vmem_vars,
         NEW q \in QueueNames, NEW n \in DOMAIN queues[q], IssueTranslation(q, n)
  PROVE  QueueInv'
<1> DEFINE seq == queues[q]
           p == [seq[n] EXCEPT !.issued = TRUE, !.page = 0]
<1>1. seq \in Seq(Good) /\ DOMAIN seq = 1..Len(seq) /\ Len(seq) \in Nat
  BY LenProperties DEF QueueInv
<1>2. seq[n] \in Good
  BY <1>1, ElementOfSeq
<1>3. /\ queues' = [queues EXCEPT ![q][n].issued = TRUE, ![q][n].page = 0]
      /\ translating' = translating \cup {Page(seq[n])}
      /\ UNCHANGED vpage_to_ppage_map
  BY DEF IssueTranslation, vmem_vars
<1>4. Good \subseteq Good'
  BY <1>3 DEF Good
<1>5. p \in Good'
  BY <1>2, <1>3 DEF Good, Packet, HasAddress, Page
<1>6. queues \in [QueueNames -> Seq(Good')]
  BY <1>4, SeqMonotonic DEF QueueInv
<1>7. [seq EXCEPT ![n] = p] \in Seq(Good')
  BY <1>1, <1>5, <1>6, ExceptSeq
<1>8. queues' = [queues EXCEPT ![q] = [seq EXCEPT ![n] = p]]
  BY <1>3
<1> QED BY <1>6, <1>7, <1>8 DEF QueueInv

LEMMA DetectMissesInv ==
  ASSUME QueueInv, UNCHANGED vmem_vars,
         NEW q \in QueueNames, NEW k \in DOMAIN queues[q], DetectMisses(q, k)
  PROVE  QueueInv'
<1> DEFINE seq == queues[q]
           missed == [n \in 1..k |-> [queues[q][n] EXCEPT !.late = TRUE]]
<1>1. seq \in Seq(Good) /\ DOMAIN seq = 1..Len(seq) /\ Len(seq) \in Nat
  BY LenProperties DEF QueueInv
<1>2. \A n \in 1..k : [seq[n] EXCEPT !.late = TRUE] \in Good
  <2>1. \A n \in 1..k : seq[n] \in Good
    BY <1>1, ElementOfSeq
  <2> QED BY <2>1, GoodPackets
<1>3. missed \in Seq(Good)
  BY <1>1, <1>2, FunctionIsSeq
<1>4. SubSeq(seq, k + 1, Len(seq)) \in Seq(Good)
  BY <1>1, PartOfSeq
<1>5. SubSeq(seq, k + 1, Len(seq)) \o missed \in Seq(Good)
  BY <1>3, <1>4, ConcatProperties
<1>6. queues' = [queues EXCEPT ![q] = SubSeq(seq, k + 1, Len(seq)) \o missed]
  BY DEF DetectMisses
<1> QED BY <1>5, <1>6, OneQueue DEF DetectMisses, vmem_vars

LEMMA TakeFrontInv ==
  ASSUME QueueInv, UNCHANGED vmem_vars, NEW q \in QueueNames, TakeFront(q)
  PROVE  QueueInv'
<1>1. queues[q] \in Seq(Good) /\ queues[q] # <<>>
  BY DEF QueueInv, TakeFront
<1>2. Tail(queues[q]) \in Seq(Good)
  BY <1>1, HeadTailProperties
<1> QED BY <1>2, OneQueue DEF TakeFront, vmem_vars

\* Every packet of the page gets the address, whether it asked or not.
LEMMA ReturnTranslationInv ==
  ASSUME QueueInv, UNCHANGED vmem_vars, NEW v \in VPages,
         NEW ppage \in PPages, ppage = vpage_to_ppage_map[v], ReturnTranslation(v, ppage)
  PROVE  QueueInv'
<1> DEFINE image(q) == [n \in DOMAIN queues[q] |->
                          IF Page(queues[q][n]) = v THEN Translated(queues[q][n], ppage)
                          ELSE queues[q][n]]
<1>1. /\ translating' = translating \ {v}
      /\ queues' = [q \in QueueNames |-> image(q)]
      /\ UNCHANGED vpage_to_ppage_map
  BY DEF ReturnTranslation, vmem_vars
<1>2. ASSUME NEW p \in Good
      PROVE  (IF Page(p) = v THEN Translated(p, ppage) ELSE p) \in Good'
  <2>1. p \in Packet
    BY DEF Good
  <2>2. CASE Page(p) = v
    <3>a. ppage \in Nat
      BY PoolAssumption DEF PPages
    <3>b. /\ Translated(p, ppage) = [p EXCEPT !.page = ppage, !.is_translated = TRUE,
                                                !.late = FALSE]
          /\ Translated(p, ppage).vaddr = p.vaddr
      BY <2>1 DEF Translated, Packet
    <3>1. Translated(p, ppage) \in Packet /\ Page(Translated(p, ppage)) = v
      BY <2>1, <2>2, <3>a, <3>b DEF Packet, Page
    <3>2. Translated(p, ppage).page = ppage /\ ppage # 0
      BY <2>1, PoolAssumption DEF Packet, Translated, PPages
    <3>3. Translated(p, ppage) \in Good'
      BY <1>1, <3>1, <3>2 DEF Good, HasAddress, Page
    <3> QED BY <2>2, <3>3
  <2>3. CASE Page(p) # v
    BY <1>1, <2>3 DEF Good, HasAddress, Page
  <2> QED BY <2>2, <2>3
<1>3. ASSUME NEW q \in QueueNames PROVE image(q) \in Seq(Good')
  <2>1. /\ queues[q] \in Seq(Good) /\ DOMAIN queues[q] = 1..Len(queues[q])
        /\ Len(queues[q]) \in Nat
    BY LenProperties DEF QueueInv
  <2>2. \A n \in 1..Len(queues[q]) : queues[q][n] \in Good
    BY <2>1, ElementOfSeq
  <2>3. image(q) \in [1..Len(queues[q]) -> Good']
    BY <1>2, <2>1, <2>2
  <2> QED BY <2>1, <2>3, FunctionIsSeq
<1> QED BY <1>1, <1>3 DEF QueueInv

\* What the walker does to the virtual memory leaves what has been handed out.
LEMMA MemoryStepInv ==
  ASSUME QueueInv, TlbInv, VmemInv, [VmemNext]_vmem_vars, UNCHANGED <<queue_vars, tlb>>
  PROVE  QueueInv' /\ TlbInv'
<1>1. \A v \in VPages : vpage_to_ppage_map[v] # NoPage =>
        vpage_to_ppage_map'[v] = vpage_to_ppage_map[v]
  BY StableStep
<1>2. Good \subseteq Good'
  <2> SUFFICES ASSUME NEW p \in Good PROVE p \in Good'
    OBVIOUS
  <2>1. p \in Packet /\ Page(p) \in VPages
    BY PageInVPages DEF Good
  <2> QED BY <1>1, <2>1 DEF Good, HasAddress, NoPage, queue_vars, Page
<1>3. QueueInv'
  BY <1>2, SeqMonotonic DEF QueueInv, queue_vars
<1>4. TlbInv'
  BY <1>1 DEF TlbInv, queue_vars
<1> QED BY <1>3, <1>4

-----------------------------------------------------------------------------
(* Together.                                                               *)

\* The inductive invariant.
TranslationInv == WalkInv /\ QueueInv /\ TlbInv

LEMMA InitInv == Init => TranslationInv
<1> SUFFICES ASSUME Init PROVE TranslationInv
  OBVIOUS
<1>1. WalkInv
  BY WalkInvInit DEF Init
<1>2. QueueInv
  BY EmptySeq DEF Init, QueuesInit, QueueInv
<1>3. TlbInv
  BY DEF Init, QueuesInit, TlbInv
<1> QED BY <1>1, <1>2, <1>3 DEF TranslationInv

\* The steps of the queues alone.
LEMMA QueuesStepInv ==
  ASSUME TranslationInv, QueuesOnly, NEW q \in QueueNames,
         \/ \E i \in Ids, a \in VAddrs : AddQueue(q, i, a)
         \/ CheckCollision(q)
         \/ \E n \in DOMAIN queues[q] : IssueTranslation(q, n) \/ DetectMisses(q, n)
         \/ TakeFront(q)
  PROVE  TranslationInv'
<1>1. QueueInv /\ UNCHANGED vmem_vars
  BY DEF TranslationInv, QueuesOnly
<1>2. QueueInv'
  BY <1>1, AddQueueInv, CheckCollisionInv, IssueTranslationInv, DetectMissesInv, TakeFrontInv
<1>3. translating' \subseteq VPages
  <2>1. CASE UNCHANGED translating
    BY <2>1 DEF TranslationInv, TlbInv
  <2>2. ASSUME NEW n \in DOMAIN queues[q], IssueTranslation(q, n)
        PROVE  translating' \subseteq VPages
    <3>1. queues[q][n] \in Packet
      BY <1>1, ElementOfSeq, LenProperties DEF QueueInv, Good
    <3> QED BY <2>2, <3>1, PageInVPages DEF IssueTranslation, TranslationInv, TlbInv
  <2> QED BY <2>1, <2>2 DEF AddQueue, CheckCollision, DetectMisses, TakeFront
<1>4. TlbInv'
  BY <1>3 DEF QueuesOnly, TranslationInv, TlbInv, vmem_vars
<1>5. WalkInv'
  BY UnchangedWalks DEF QueuesOnly, TranslationInv
<1> QED BY <1>2, <1>4, <1>5 DEF TranslationInv

\* The steps of the walker alone.
LEMMA WalkerStepInv ==
  ASSUME TranslationInv, WalkerOnly, WalkerActions
  PROVE  TranslationInv'
<1>1. WalkInv'
  BY WalkInvNext DEF TranslationInv
<1>2. [VmemNext]_vmem_vars
  BY WalkerMemory DEF TranslationInv, WalkInv
<1>3. QueueInv' /\ TlbInv'
  BY <1>2, MemoryStepInv DEF TranslationInv, WalkInv, WalkerOnly
<1> QED BY <1>1, <1>3 DEF TranslationInv

LEMMA TlbHitInv == ASSUME TranslationInv, NEW v \in VPages, TlbHit(v) PROVE TranslationInv'
<1>1. /\ tlb[v] \in PPages /\ tlb[v] = vpage_to_ppage_map[v]
      /\ ReturnTranslation(v, tlb[v])
      /\ UNCHANGED <<vmem_vars, ptw_vars, tlb>>
  BY DEF TlbHit, TranslationInv, TlbInv
<1>2. QueueInv'
  BY <1>1, ReturnTranslationInv DEF TranslationInv
<1>3. TlbInv'
  BY <1>1 DEF ReturnTranslation, TranslationInv, TlbInv, vmem_vars
<1>4. WalkInv'
  BY <1>1, UnchangedWalks DEF TranslationInv
<1> QED BY <1>2, <1>3, <1>4 DEF TranslationInv

\* The walk that ends holds the page, which has not changed since it was answered.
LEMMA TlbFillInv == ASSUME TranslationInv, NEW v \in VPages, TlbFill(v) PROVE TranslationInv'
<1> DEFINE ppage == MSHR[v].data
<1>1. /\ FinishWalk(v)
      /\ ReturnTranslation(v, ppage)
      /\ tlb' = [tlb EXCEPT ![v] = ppage]
      /\ MSHR[v].state = "ready" /\ MSHR[v].level = 0
      /\ UNCHANGED vmem_vars
  BY DEF TlbFill, FinishWalk
<1>2. ppage = vpage_to_ppage_map[v]
  BY <1>1 DEF TranslationInv, WalkInv, WalksAreCurrent
<1>3. ppage \in PPages
  BY <1>1 DEF TranslationInv, WalkInv, WalkTypeOK, IsWalk, NoWalk, Levels
<1>4. QueueInv'
  BY <1>1, <1>2, <1>3, ReturnTranslationInv DEF TranslationInv
<1>5. TlbInv'
  BY <1>1, <1>2, <1>3 DEF ReturnTranslation, TranslationInv, TlbInv, vmem_vars
<1>6. WalkInv'
  BY <1>1, FinishWalkInv DEF TranslationInv
<1> QED BY <1>4, <1>5, <1>6 DEF TranslationInv

\* The TLB forgets a page, or has nothing to do with the step.
LEMMA TlbEvictInv ==
  ASSUME TranslationInv, UNCHANGED <<vmem_vars, ptw_vars, queue_vars>>,
         \/ UNCHANGED tlb
         \/ \E v \in VPages : tlb' = [tlb EXCEPT ![v] = NoPage]
  PROVE  TranslationInv'
<1>1. WalkInv'
  BY UnchangedWalks DEF TranslationInv
<1>2. QueueInv'
  BY DEF TranslationInv, QueueInv, Good, queue_vars, vmem_vars
<1>3. TlbInv'
  BY DEF TranslationInv, TlbInv, queue_vars, vmem_vars
<1> QED BY <1>1, <1>2, <1>3 DEF TranslationInv

LEMMA NextInv == TranslationInv /\ [Next]_vars => TranslationInv'
<1> SUFFICES ASSUME TranslationInv, [Next]_vars PROVE TranslationInv'
  OBVIOUS
<1>1. ASSUME NEW q \in QueueNames, NEW i \in Ids, NEW a \in VAddrs, Request(q, i, a)
      PROVE  TranslationInv'
  BY <1>1, QueuesStepInv DEF Request
<1>2. ASSUME NEW q \in QueueNames, Collisions(q) \/ Issue(q) \/ Misses(q) \/ Take(q)
      PROVE  TranslationInv'
  BY <1>2, QueuesStepInv DEF Collisions, Issue, Misses, Take
<1>3. ASSUME NEW v \in VPages, TlbHit(v) PROVE TranslationInv'
  BY <1>3, TlbHitInv
<1>4. ASSUME NEW v \in VPages, TlbFill(v) PROVE TranslationInv'
  BY <1>4, TlbFillInv
<1>5. ASSUME NEW v \in VPages, TlbEvict(v) PROVE TranslationInv'
  BY <1>5, TlbEvictInv DEF TlbEvict
<1>6. ASSUME WalkerOnly, WalkerActions PROVE TranslationInv'
  BY <1>6, WalkerStepInv
<1>7. CASE UNCHANGED vars
  BY <1>7, TlbEvictInv DEF vars
<1> QED BY <1>1, <1>2, <1>3, <1>4, <1>5, <1>6, <1>7
        DEF Next, Start, Read, TlbMiss, WalkReturn, Visit, Elapse, Fill, WalkerActions

LEMMA Invariant == Spec => []TranslationInv
BY InitInv, NextInv, PTL DEF Spec

\* The virtual memory under the walkers is the one VirtualMemory specifies: whatever
\* the walker, the TLBs and the queues do, they do to it only what its callers may.
THEOREM ImplementsVirtualMemory == Spec => VmemSpec
<1>1. Init => VmemInit
  BY DEF Init, PtwInit
<1>2. TranslationInv /\ [Next]_vars => [VmemNext]_vmem_vars
  <2>1. TranslationInv /\ WalkerActions => [VmemNext]_vmem_vars
    BY WalkerMemory DEF TranslationInv, WalkInv
  <2>2. ASSUME NEW v \in VPages, TlbFill(v) PROVE UNCHANGED vmem_vars
    BY <2>2 DEF TlbFill, FinishWalk
  <2>3. ASSUME NEW v \in VPages, TlbMiss(v) PROVE UNCHANGED vmem_vars
    BY <2>3 DEF TlbMiss, AddRq
  <2> QED BY <2>1, <2>2, <2>3
          DEF Next, vars, Request, Collisions, Issue, Misses, Take, QueuesOnly, TlbHit, TlbEvict,
              Start, Read, WalkReturn, Visit, Elapse, Fill, WalkerActions
<1> QED BY <1>1, <1>2, Invariant, PTL DEF Spec, VmemSpec

\* Data pages and page tables never share memory, and mappings never change, however
\* walks, page faults, re-walks and TLB evictions interleave.
THEOREM TranslationDisjoint == Spec => []PagesDisjoint
BY ImplementsVirtualMemory, Disjoint, PTL

THEOREM TranslationStable == Spec => MappingsStable
BY ImplementsVirtualMemory, Stable, PTL

\* And has enough memory.
THEOREM TranslationHasMemory == Spec => []EnoughMemory
BY ImplementsVirtualMemory, MemorySuffices

\* The cache below owes an answer for exactly the blocks that unanswered walks are at.
THEOREM WalksAnswered == Spec => []EveryAnswerHasItsWalk
BY Invariant, PTL DEF TranslationInv, WalkInv

LEMMA QueuedAreGood == QueueInv => Queued \subseteq Good
<1> SUFFICES ASSUME QueueInv, NEW q \in QueueNames, NEW n \in DOMAIN queues[q]
             PROVE  queues[q][n] \in Good
  BY DEF Queued
<1> QED BY ElementOfSeq, LenProperties DEF QueueInv

\* No stale translation is used: what the TLBs and the packets hold is the mapping.
THEOREM Current == Spec => []TranslationsAreCurrent
<1>1. TranslationInv => TranslationsAreCurrent
  BY QueuedAreGood DEF TranslationInv, TlbInv, TranslationsAreCurrent, Good
<1> QED BY <1>1, Invariant, PTL

\* A packet that waits for its translation has it coming.
THEOREM Coming == Spec => []UntranslatedIsComing
<1>1. TranslationInv => UntranslatedIsComing
  BY QueuedAreGood DEF TranslationInv, UntranslatedIsComing, Good
<1> QED BY <1>1, Invariant, PTL

-----------------------------------------------------------------------------
(* Requests and packets.  A request is in one packet of one queue, which   *)
(* is why answering a packet leaves no other with an idle request.         *)

\* The requests of the packets of seq.
Holds(seq) == UNION {seq[n].ids : n \in DOMAIN seq}

\* No request is in two of them, and all are for the block of their packet.
WellHeld(seq, asked) ==
  /\ \A m, n \in DOMAIN seq : seq[m].ids \cap seq[n].ids # {} => m = n
  /\ \A n \in DOMAIN seq : \A i \in seq[n].ids : asked[i] = seq[n].vaddr

RequestInv ==
  /\ requested \in [Ids -> VAddrs \cup {Idle}]
  /\ \A q \in QueueNames : WellHeld(queues[q], requested)
  /\ \A q, r \in QueueNames : q # r => Holds(queues[q]) \cap Holds(queues[r]) = {}
  /\ \A i \in Ids : requested[i] # Idle => \E q \in QueueNames : i \in Holds(queues[q])

\* The packets of new are those of seq at the places of f, with what else they carry changed.
Picks(new, seq, f) ==
  /\ f \in [DOMAIN new -> DOMAIN seq]
  /\ \A m, n \in DOMAIN new : f[m] = f[n] => m = n
  /\ \A m \in DOMAIN new : new[m].ids = seq[f[m]].ids /\ new[m].vaddr = seq[f[m]].vaddr

LEMMA PickedWellHeld ==
  ASSUME NEW seq, NEW new, NEW f, NEW asked, Picks(new, seq, f), WellHeld(seq, asked)
  PROVE  WellHeld(new, asked)
BY DEF Picks, WellHeld

\* All of them.
LEMMA PickedAll ==
  ASSUME NEW seq, NEW new, NEW f, Picks(new, seq, f),
         \A n \in DOMAIN seq : \E m \in DOMAIN new : f[m] = n
  PROVE  Holds(new) = Holds(seq)
<1>1. ASSUME NEW m \in DOMAIN new PROVE new[m].ids \subseteq Holds(seq)
  BY DEF Picks, Holds
<1>2. ASSUME NEW n \in DOMAIN seq PROVE seq[n].ids \subseteq Holds(new)
  BY DEF Picks, Holds
<1> QED BY <1>1, <1>2 DEF Holds

\* All but packet n.
LEMMA PickedOthers ==
  ASSUME NEW seq, NEW new, NEW f, NEW asked, Picks(new, seq, f), WellHeld(seq, asked),
         NEW n \in DOMAIN seq, \A m \in DOMAIN new : f[m] # n,
         \A k \in DOMAIN seq \ {n} : \E m \in DOMAIN new : f[m] = k
  PROVE  Holds(new) = Holds(seq) \ seq[n].ids
<1>1. ASSUME NEW m \in DOMAIN new PROVE new[m].ids \subseteq Holds(seq) \ seq[n].ids
  BY DEF Picks, Holds, WellHeld
<1>2. ASSUME NEW k \in DOMAIN seq \ {n} PROVE seq[k].ids \subseteq Holds(new)
  BY DEF Picks, Holds
<1> QED BY <1>1, <1>2 DEF Holds

LEMMA WithoutElements ==
  ASSUME NEW S, NEW seq \in Seq(S), NEW n \in DOMAIN seq
  PROVE  /\ Len(Without(seq, n)) = Len(seq) - 1
         /\ \A m \in 1..(Len(seq) - 1) : Without(seq, n)[m] = IF m < n THEN seq[m] ELSE seq[m + 1]
<1> DEFINE new == Without(seq, n)
<1>1. DOMAIN seq = 1..Len(seq) /\ Len(seq) \in Nat
  BY LenProperties
<1>2. /\ SubSeq(seq, 1, n - 1) \in Seq(S) /\ SubSeq(seq, n + 1, Len(seq)) \in Seq(S)
      /\ Len(SubSeq(seq, 1, n - 1)) = n - 1
      /\ \A k \in 1..(n - 1) : SubSeq(seq, 1, n - 1)[k] = seq[k]
      /\ Len(SubSeq(seq, n + 1, Len(seq))) = Len(seq) - n
      /\ \A k \in 1..(Len(seq) - n) : SubSeq(seq, n + 1, Len(seq))[k] = seq[n + k]
  <2>1. \A k \in 1..Len(seq) : seq[k] \in S
    BY ElementOfSeq
  <2>2. n \in 1..Len(seq) /\ n \in Int /\ Len(seq) \in Int
    BY <1>1
  <2>3. /\ SubSeq(seq, 1, n - 1) \in Seq(S) /\ Len(SubSeq(seq, 1, n - 1)) = n - 1
        /\ \A k \in 1..(n - 1) : SubSeq(seq, 1, n - 1)[k] = seq[k]
    BY <2>1, <2>2, SubSeqProperties
  <2>4. /\ SubSeq(seq, n + 1, Len(seq)) \in Seq(S)
        /\ Len(SubSeq(seq, n + 1, Len(seq))) = Len(seq) - n
        /\ \A k \in 1..(Len(seq) - n) : SubSeq(seq, n + 1, Len(seq))[k] = seq[n + k]
    BY <2>1, <2>2, SubSeqProperties
  <2> QED BY <2>3, <2>4
<1>3. /\ new \in Seq(S)
      /\ Len(new) = Len(seq) - 1
      /\ \A m \in 1..(Len(seq) - 1) : new[m] = IF m < n THEN seq[m] ELSE seq[m + 1]
  <2> DEFINE front == SubSeq(seq, 1, n - 1)
             back == SubSeq(seq, n + 1, Len(seq))
  <2>1. front \in Seq(S) /\ back \in Seq(S) /\ Len(front) = n - 1 /\ Len(back) = Len(seq) - n
    BY <1>2
  <2>2. \A k \in 1..(n - 1) : front[k] = seq[k]
    BY <1>2
  <2>3. \A k \in 1..(Len(seq) - n) : back[k] = seq[n + k]
    BY <1>2
  <2>4. new = front \o back
    BY DEF Without
  <2> HIDE DEF front, back, new
  <2>a. /\ new \in Seq(S)
        /\ Len(new) = Len(front) + Len(back)
        /\ \A m \in 1..(Len(front) + Len(back)) :
             new[m] = IF m <= Len(front) THEN front[m] ELSE back[m - Len(front)]
    BY <2>1, <2>4, ConcatProperties
  <2>b. n \in 1..Len(seq) /\ n \in Int
    BY <1>1
  <2>5. /\ Len(new) = Len(seq) - 1
        /\ \A m \in 1..(Len(seq) - 1) :
             new[m] = IF m <= n - 1 THEN front[m] ELSE back[m - (n - 1)]
    <3>1. Len(front) + Len(back) = Len(seq) - 1
      BY <1>1, <2>1, <2>b
    <3> QED BY <2>1, <2>a, <3>1
  <2>6. ASSUME NEW m \in 1..(Len(seq) - 1)
        PROVE  new[m] = IF m < n THEN seq[m] ELSE seq[m + 1]
    <3>1. CASE m < n
      BY <1>1, <2>2, <2>5, <2>b, <3>1
    <3>2. CASE ~(m < n)
      <4>1. m - (n - 1) \in 1..(Len(seq) - n) /\ n + (m - (n - 1)) = m + 1
        BY <1>1, <2>b, <3>2
      <4>2. new[m] = back[m - (n - 1)]
        <5>1. ~(m <= n - 1)
          BY <2>b, <3>2
        <5> QED BY <2>5, <5>1
      <4> QED BY <2>3, <3>2, <4>1, <4>2
    <3> QED BY <3>1, <3>2
  <2> QED BY <2>a, <2>5, <2>6
<1> QED BY <1>3 DEF new

LEMMA WithoutPicks ==
  ASSUME NEW S, NEW seq \in Seq(S), NEW n \in DOMAIN seq, NEW asked, WellHeld(seq, asked)
  PROVE  /\ WellHeld(Without(seq, n), asked)
         /\ Holds(Without(seq, n)) = Holds(seq) \ seq[n].ids
         /\ Len(Without(seq, n)) = Len(seq) - 1
         /\ \A m \in 1..(Len(seq) - 1) : Without(seq, n)[m] = IF m < n THEN seq[m] ELSE seq[m + 1]
<1> DEFINE new == Without(seq, n)
           f == [m \in DOMAIN new |-> IF m < n THEN m ELSE m + 1]
<1>1. DOMAIN seq = 1..Len(seq) /\ Len(seq) \in Nat
  BY LenProperties
<1>3. /\ new \in Seq(S)
      /\ Len(new) = Len(seq) - 1
      /\ \A m \in 1..(Len(seq) - 1) : new[m] = IF m < n THEN seq[m] ELSE seq[m + 1]
  BY WithoutElements, WithoutIsSeq
<1>4. DOMAIN new = 1..(Len(seq) - 1)
  BY <1>3, LenProperties
<1> HIDE DEF new
<1>5. Picks(new, seq, f)
  <2>1. f \in [DOMAIN new -> DOMAIN seq]
    BY <1>1, <1>4
  <2>2. \A m, k \in DOMAIN new : f[m] = f[k] => m = k
    BY <1>1, <1>4
  <2>3. \A m \in DOMAIN new : new[m] = seq[f[m]]
    BY <1>1, <1>3, <1>4
  <2> QED BY <2>1, <2>2, <2>3 DEF Picks
<1>6. \A m \in DOMAIN new : f[m] # n
  BY <1>1, <1>4
<1>7. ASSUME NEW k \in DOMAIN seq \ {n} PROVE \E m \in DOMAIN new : f[m] = k
  <2>1. CASE k < n
    <3>1. k \in DOMAIN new /\ f[k] = k
      BY <1>1, <1>4, <2>1
    <3> QED BY <3>1
  <2>2. CASE k > n
    <3>1. k - 1 \in DOMAIN new /\ f[k - 1] = k
      BY <1>1, <1>4, <2>2
    <3> QED BY <3>1
  <2> QED BY <1>1, <2>1, <2>2
<1> HIDE DEF f
<1>8. WellHeld(new, asked)
  BY <1>5, PickedWellHeld
<1>9. Holds(new) = Holds(seq) \ seq[n].ids
  BY <1>5, <1>6, <1>7, PickedOthers
<1> QED BY <1>3, <1>8, <1>9 DEF new

\* The requests that wait in the queues are outstanding.
LEMMA HeldAreRequested ==
  ASSUME QueueInv, RequestInv, NEW r \in QueueNames, NEW i \in Holds(queues[r])
  PROVE  i \in Ids /\ requested[i] \in VAddrs
<1>1. PICK n \in DOMAIN queues[r] : i \in queues[r][n].ids
  BY DEF Holds
<1>2. queues[r][n] \in Packet
  BY <1>1, ElementOfSeq, LenProperties DEF QueueInv, Good
<1>3. requested[i] = queues[r][n].vaddr
  BY <1>1 DEF RequestInv, WellHeld
<1> QED BY <1>1, <1>2, <1>3 DEF Packet

\* Queue q becomes new, the requests of gone leave it and are idle, those of fresh come.
Changes(q, new, gone, fresh) ==
  /\ queues' = [queues EXCEPT ![q] = new]
  /\ Holds(new) = (Holds(queues[q]) \ gone) \cup fresh
  /\ gone \subseteq Holds(queues[q])
  /\ \A i \in fresh : i \in Ids /\ requested[i] = Idle
  /\ WellHeld(new, requested')
  /\ requested' \in [Ids -> VAddrs \cup {Idle}]
  /\ \A i \in Ids \ fresh : requested'[i] = IF i \in gone THEN Idle ELSE requested[i]

LEMMA ChangesKeep ==
  ASSUME QueueInv, RequestInv, NEW q \in QueueNames, NEW new, NEW gone, NEW fresh,
         Changes(q, new, gone, fresh)
  PROVE  RequestInv'
<1>1. queues'[q] = new /\ \A r \in QueueNames \ {q} : queues'[r] = queues[r]
  BY DEF Changes, QueueInv
<1>2. ASSUME NEW r \in QueueNames \ {q}, NEW i \in Holds(queues[r])
      PROVE  i \in Ids /\ i \notin gone /\ i \notin fresh
  <2>1. i \in Ids /\ requested[i] \in VAddrs
    BY <1>2, HeldAreRequested
  <2>2. i \notin Holds(queues[q])
    BY <1>2 DEF RequestInv
  <2> QED BY <2>1, <2>2, AddressAssumption DEF Changes
<1>3. ASSUME NEW r \in QueueNames PROVE WellHeld(queues'[r], requested')
  <2>1. CASE r = q
    BY <1>1, <2>1 DEF Changes
  <2>2. CASE r # q
    <3>1. \A i \in Holds(queues[r]) : requested'[i] = requested[i]
      BY <1>2, <2>2 DEF Changes
    <3>2. WellHeld(queues[r], requested)
      BY DEF RequestInv
    <3>3. WellHeld(queues[r], requested')
      BY <3>1, <3>2 DEF WellHeld, Holds
    <3> QED BY <1>1, <2>2, <3>3
  <2> QED BY <2>1, <2>2
<1>4. ASSUME NEW r \in QueueNames, NEW u \in QueueNames, r # u
      PROVE  Holds(queues'[r]) \cap Holds(queues'[u]) = {}
  <2>1. Holds(queues[r]) \cap Holds(queues[u]) = {}
    BY <1>4 DEF RequestInv
  <2>2. \A w \in QueueNames \ {q} : Holds(queues[w]) \cap fresh = {}
    BY <1>2
  <2>3. CASE r = q
    BY <1>1, <1>4, <2>1, <2>2, <2>3 DEF Changes
  <2>4. CASE u = q
    BY <1>1, <1>4, <2>1, <2>2, <2>4 DEF Changes
  <2>5. CASE r # q /\ u # q
    BY <1>1, <2>1, <2>5
  <2> QED BY <2>3, <2>4, <2>5
<1>5. ASSUME NEW i \in Ids, requested'[i] # Idle
      PROVE  \E r \in QueueNames : i \in Holds(queues'[r])
  <2>1. CASE i \in fresh
    <3>1. i \in Holds(queues'[q])
      BY <1>1, <2>1 DEF Changes
    <3> QED BY <3>1
  <2>2. CASE i \notin fresh
    <3>1. i \notin gone /\ requested[i] # Idle
      BY <1>5, <2>2 DEF Changes
    <3>2. PICK r \in QueueNames : i \in Holds(queues[r])
      BY <3>1 DEF RequestInv
    <3>3. i \in Holds(queues'[r])
      BY <1>1, <3>1, <3>2 DEF Changes
    <3> QED BY <3>3
  <2> QED BY <2>1, <2>2
<1>6. requested' \in [Ids -> VAddrs \cup {Idle}]
  BY DEF Changes
<1> QED BY <1>3, <1>4, <1>5, <1>6 DEF RequestInv

\* Packets move, and nothing is asked or answered.
LEMMA MovesKeep ==
  ASSUME QueueInv, RequestInv, NEW q \in QueueNames, NEW new, NEW f, Picks(new, queues[q], f),
         \A n \in DOMAIN queues[q] : \E m \in DOMAIN new : f[m] = n,
         queues' = [queues EXCEPT ![q] = new], UNCHANGED requested
  PROVE  RequestInv'
<1>1. WellHeld(new, requested)
  BY PickedWellHeld DEF RequestInv
<1>2. Holds(new) = Holds(queues[q])
  BY PickedAll
<1> DEFINE nothing == {}
<1>3. Changes(q, new, nothing, nothing)
  BY <1>1, <1>2 DEF Changes, RequestInv
<1> HIDE DEF nothing
<1> QED BY <1>3, ChangesKeep

\* The requests of packet n are answered, and it leaves.
LEMMA LeavesKeep ==
  ASSUME QueueInv, RequestInv, NEW q \in QueueNames, NEW n \in DOMAIN queues[q], NEW new,
         WellHeld(new, requested), Holds(new) = Holds(queues[q]) \ queues[q][n].ids,
         queues' = [queues EXCEPT ![q] = new],
         Answer(queues[q][n].ids, queues[q][n].vaddr)
  PROVE  RequestInv'
<1> DEFINE gone == queues[q][n].ids
           fresh == {}
<1>1. gone \subseteq Holds(queues[q])
  BY DEF Holds
<1>2. /\ requested' = [i \in Ids |-> IF i \in gone THEN Idle ELSE requested[i]]
      /\ requested' \in [Ids -> VAddrs \cup {Idle}]
  <2>1. \A i \in gone : requested[i] = queues[q][n].vaddr
    BY DEF RequestInv, WellHeld
  <2>2. requested' = [i \in Ids |-> IF i \in gone /\ requested[i] = queues[q][n].vaddr
                                    THEN Idle ELSE requested[i]]
    BY DEF Answer
  <2> HIDE DEF gone
  <2> QED BY <2>1, <2>2 DEF RequestInv
<1>3. WellHeld(new, requested')
  <2>1. \A i \in Holds(new) : i \in Ids /\ i \notin gone
    BY HeldAreRequested
  <2>2. \A i \in Holds(new) : requested'[i] = requested[i]
    BY <1>2, <2>1
  <2> QED BY <2>2 DEF WellHeld, Holds
<1>4. Changes(q, new, gone, fresh)
  BY <1>1, <1>2, <1>3 DEF Changes
<1> HIDE DEF gone, fresh
<1> QED BY <1>4, ChangesKeep

LEMMA QueueIsSeq ==
  ASSUME QueueInv, NEW q \in QueueNames
  PROVE  /\ queues[q] \in Seq(Good) /\ Len(queues[q]) \in Nat
         /\ DOMAIN queues[q] = 1..Len(queues[q])
         /\ \A n \in 1..Len(queues[q]) : queues[q][n] \in Good /\ queues[q][n] \in Packet
<1>1. queues[q] \in Seq(Good)
  BY DEF QueueInv
<1>2. Len(queues[q]) \in Nat /\ DOMAIN queues[q] = 1..Len(queues[q])
  BY <1>1, LenProperties
<1>3. \A n \in 1..Len(queues[q]) : queues[q][n] \in Good
  BY <1>1, ElementOfSeq
<1> QED BY <1>1, <1>2, <1>3 DEF Good

\* The new packet is the only one of its request.
LEMMA AddQueueHeld ==
  ASSUME QueueInv, RequestInv,
         NEW q \in QueueNames, NEW i \in Ids, NEW a \in VAddrs, AddQueue(q, i, a)
  PROVE  RequestInv'
<1> DEFINE seq == queues[q]
           packet == [ids |-> {i}, vaddr |-> a, page |-> PageOf[a], issued |-> FALSE,
                      is_translated |-> FALSE, late |-> FALSE, forward_checked |-> FALSE]
<1>1. PICK n \in 0..Len(seq) :
        queues' = [queues EXCEPT ![q] = SubSeq(seq, 1, n) \o <<packet>> \o
                                          Unchecked(SubSeq(seq, n + 1, Len(seq)))]
  BY DEF AddQueue
<1>2. /\ requested[i] = Idle
      /\ requested' = [requested EXCEPT ![i] = a]
  BY DEF AddQueue
<1>3. seq \in Seq(Packet) /\ Len(seq) \in Nat /\ DOMAIN seq = 1..Len(seq)
  BY QueueIsSeq, FunctionIsSeq
<1>4. packet \in Packet /\ packet.ids = {i} /\ packet.vaddr = a
  BY QueuesAssumption DEF Packet
<1> HIDE DEF seq, packet
<1> DEFINE front == SubSeq(seq, 1, n)
           back == SubSeq(seq, n + 1, Len(seq))
           behind == Unchecked(back)
           ahead == front \o <<packet>>
           new == ahead \o behind
<1>5. /\ front \in Seq(Packet) /\ Len(front) = n
      /\ \A k \in 1..n : front[k] = seq[k]
  <2>1. \A k \in 1..n : seq[k] \in Packet
    BY <1>3, ElementOfSeq
  <2> QED BY <1>3, <2>1, SubSeqProperties
<1>6. /\ back \in Seq(Packet) /\ Len(back) = Len(seq) - n
      /\ \A k \in 1..(Len(seq) - n) : back[k] = seq[n + k]
  <2>1. \A k \in (n + 1)..Len(seq) : seq[k] \in Packet
    BY <1>3, ElementOfSeq
  <2>2. n + 1 \in Int /\ Len(seq) \in Int
    BY <1>3
  <2>3. /\ back \in Seq(Packet)
        /\ Len(back) = IF n + 1 <= Len(seq) THEN Len(seq) - (n + 1) + 1 ELSE 0
        /\ \A k \in 1..(Len(seq) - (n + 1) + 1) : back[k] = seq[(n + 1) + k - 1]
    BY <2>1, <2>2, SubSeqProperties
  <2> HIDE DEF back
  <2>4. Len(seq) - (n + 1) + 1 = Len(seq) - n
    BY <1>3
  <2>5. \A k \in 1..(Len(seq) - n) : (n + 1) + k - 1 = n + k
    BY <1>3
  <2>6. Len(back) = Len(seq) - n
    <3>1. CASE n + 1 <= Len(seq)
      BY <2>3, <2>4, <3>1
    <3>2. CASE ~(n + 1 <= Len(seq))
      <4> DEFINE length == Len(seq)
      <4>a. length \in Int /\ n \in 0..length /\ ~(n + 1 <= length)
        BY <1>3, <3>2
      <4> HIDE DEF length
      <4>b. length - n = 0
        BY <4>a
      <4>1. Len(seq) - n = 0
        BY <4>b DEF length
      <4> QED BY <2>3, <3>2, <4>1
    <3> QED BY <3>1, <3>2
  <2> QED BY <2>3, <2>4, <2>5, <2>6
<1>7. /\ behind \in Seq(Packet) /\ Len(behind) = Len(seq) - n
      /\ \A k \in 1..(Len(seq) - n) : /\ behind[k].ids = seq[n + k].ids
                                      /\ behind[k].vaddr = seq[n + k].vaddr
  <2>1. DOMAIN back = 1..(Len(seq) - n) /\ Len(seq) - n \in Nat
    BY <1>3, <1>6, LenProperties
  <2>2. \A k \in 1..(Len(seq) - n) : back[k] \in Packet
    BY <1>6, ElementOfSeq
  <2>3. behind = [k \in 1..(Len(seq) - n) |-> [back[k] EXCEPT !.forward_checked = FALSE]]
    BY <2>1 DEF Unchecked
  <2> HIDE DEF back, behind
  <2>4. \A k \in 1..(Len(seq) - n) : behind[k] = [back[k] EXCEPT !.forward_checked = FALSE]
    BY <2>3
  <2>5. \A k \in 1..(Len(seq) - n) :
          behind[k] \in Packet /\ behind[k].ids = back[k].ids /\ behind[k].vaddr = back[k].vaddr
    BY <2>2, <2>4 DEF Packet
  <2>6. behind \in [1..(Len(seq) - n) -> Packet]
    BY <2>3, <2>4, <2>5
  <2>7. behind \in Seq(Packet) /\ Len(behind) = Len(seq) - n
    BY <2>1, <2>6, FunctionIsSeq, LenProperties
  <2> QED BY <1>6, <2>5, <2>7
<1> HIDE DEF front, back, behind
<1>8. /\ ahead \in Seq(Packet) /\ Len(ahead) = n + 1
      /\ \A k \in 1..n : ahead[k] = seq[k]
      /\ ahead[n + 1] = packet
  <2>1. <<packet>> \in Seq(Packet) /\ Len(<<packet>>) = 1 /\ <<packet>>[1] = packet
    BY <1>4
  <2>2. /\ ahead \in Seq(Packet) /\ Len(ahead) = Len(front) + 1
        /\ \A k \in 1..(Len(front) + 1) :
             ahead[k] = IF k <= Len(front) THEN front[k] ELSE <<packet>>[k - Len(front)]
    BY <1>5, <2>1, ConcatProperties
  <2> HIDE DEF ahead
  <2> QED BY <1>5, <2>1, <2>2
<1> HIDE DEF ahead
<1>9. /\ new \in Seq(Packet) /\ Len(new) = Len(seq) + 1
      /\ \A k \in 1..n : new[k] = seq[k]
      /\ new[n + 1] = packet
      /\ \A k \in (n + 2)..(Len(seq) + 1) : /\ new[k].ids = seq[k - 1].ids
                                            /\ new[k].vaddr = seq[k - 1].vaddr
  <2>1. /\ new \in Seq(Packet) /\ Len(new) = Len(ahead) + Len(behind)
        /\ \A k \in 1..(Len(ahead) + Len(behind)) :
             new[k] = IF k <= Len(ahead) THEN ahead[k] ELSE behind[k - Len(ahead)]
    BY <1>7, <1>8, ConcatProperties
  <2>2. Len(ahead) + Len(behind) = Len(seq) + 1
    BY <1>3, <1>7, <1>8
  <2> HIDE DEF new
  <2>3. \A k \in 1..(n + 1) : new[k] = ahead[k]
    BY <1>3, <1>8, <2>1, <2>2
  <2>4. ASSUME NEW k \in (n + 2)..(Len(seq) + 1)
        PROVE  new[k].ids = seq[k - 1].ids /\ new[k].vaddr = seq[k - 1].vaddr
    <3>1. /\ k \in 1..(Len(seq) + 1) /\ ~(k <= n + 1)
          /\ k - (n + 1) \in 1..(Len(seq) - n) /\ n + (k - (n + 1)) = k - 1
      BY <1>3
    <3>2. new[k] = behind[k - (n + 1)]
      BY <1>8, <2>1, <2>2, <3>1
    <3> QED BY <1>7, <3>1, <3>2
  <2>5. \A k \in 1..n : k \in 1..(n + 1)
    OBVIOUS
  <2>6. n + 1 \in 1..(n + 1)
    OBVIOUS
  <2> QED BY <1>8, <2>1, <2>2, <2>3, <2>4, <2>5, <2>6
<1>10. DOMAIN new = 1..(Len(seq) + 1)
  BY <1>9, LenProperties
<1>11. queues' = [queues EXCEPT ![q] = new]
  BY <1>1 DEF front, back, ahead, behind
<1> HIDE DEF new
<1> DEFINE place(k) == IF k <= n THEN k ELSE k - 1
<1>12. ASSUME NEW k \in DOMAIN new, k # n + 1
       PROVE  /\ place(k) \in DOMAIN seq
              /\ new[k].ids = seq[place(k)].ids /\ new[k].vaddr = seq[place(k)].vaddr
  <2>1. CASE k <= n
    BY <1>3, <1>9, <1>10, <2>1
  <2>2. CASE k > n
    <3>1. k \in (n + 2)..(Len(seq) + 1) /\ k - 1 \in 1..Len(seq) /\ place(k) = k - 1
      BY <1>3, <1>10, <1>12, <2>2
    <3> HIDE DEF place
    <3> QED BY <1>3, <1>9, <3>1
  <2> QED BY <1>10, <2>1, <2>2
<1>13. \A j, k \in DOMAIN new \ {n + 1} : place(j) = place(k) => j = k
  BY <1>3, <1>10
<1>14. \A k \in DOMAIN seq : \E j \in DOMAIN new \ {n + 1} : place(j) = k
  <2> TAKE k \in DOMAIN seq
  <2>1. CASE k <= n
    <3>1. k \in DOMAIN new \ {n + 1} /\ place(k) = k
      BY <1>3, <1>10, <2>1
    <3> QED BY <3>1
  <2>2. CASE k > n
    <3>1. k + 1 \in DOMAIN new \ {n + 1} /\ place(k + 1) = k
      BY <1>3, <1>10, <2>2
    <3> QED BY <3>1
  <2> QED BY <1>3, <2>1, <2>2
<1> HIDE DEF place
<1>15. n + 1 \in DOMAIN new /\ new[n + 1].ids = {i} /\ new[n + 1].vaddr = a
  BY <1>3, <1>4, <1>9, <1>10
<1>16. i \notin Holds(seq)
  BY <1>2, HeldAreRequested, AddressAssumption DEF seq
<1>17. Holds(new) = Holds(seq) \cup {i}
  <2>1. ASSUME NEW k \in DOMAIN new PROVE new[k].ids \subseteq Holds(seq) \cup {i}
    BY <1>12, <1>15 DEF Holds
  <2>2. ASSUME NEW k \in DOMAIN seq PROVE seq[k].ids \subseteq Holds(new)
    BY <1>12, <1>14 DEF Holds
  <2> QED BY <1>15, <2>1, <2>2 DEF Holds
<1>18. WellHeld(seq, requested)
  BY DEF RequestInv, seq
<1>19. WellHeld(new, requested')
  <2>1. \A k \in DOMAIN new \ {n + 1} : new[k].ids \subseteq Holds(seq)
    BY <1>12 DEF Holds
  <2>2. \A j \in Holds(seq) : j \in Ids /\ j # i
    BY <1>16, HeldAreRequested DEF seq
  <2>3. \A j \in Holds(seq) : requested'[j] = requested[j]
    BY <1>2, <2>2 DEF RequestInv
  <2>4. requested'[i] = a
    BY <1>2 DEF RequestInv
  <2>5. ASSUME NEW j \in DOMAIN new, NEW k \in DOMAIN new, new[j].ids \cap new[k].ids # {}
        PROVE  j = k
    <3>1. CASE j # n + 1 /\ k # n + 1
      BY <1>12, <1>13, <1>18, <2>5, <3>1 DEF WellHeld
    <3>2. CASE j = n + 1 \/ k = n + 1
      BY <1>15, <1>16, <2>1, <2>5, <3>2
    <3> QED BY <3>1, <3>2
  <2>6. ASSUME NEW k \in DOMAIN new, NEW j \in new[k].ids
        PROVE  requested'[j] = new[k].vaddr
    <3>1. CASE k = n + 1
      BY <1>15, <2>4, <2>6, <3>1
    <3>2. CASE k # n + 1
      <4>1. j \in Holds(seq)
        BY <2>1, <2>6, <3>2
      <4>2. requested[j] = seq[place(k)].vaddr
        BY <1>12, <1>18, <2>6, <3>2 DEF WellHeld
      <4> QED BY <1>12, <2>3, <3>2, <4>1, <4>2
    <3> QED BY <3>1, <3>2
  <2> QED BY <2>5, <2>6 DEF WellHeld
<1> DEFINE gone == {}
           fresh == {i}
<1>20. Changes(q, new, gone, fresh)
  BY <1>2, <1>11, <1>17, <1>19 DEF Changes, RequestInv, seq
<1> HIDE DEF gone, fresh
<1> QED BY <1>20, ChangesKeep

\* Packets with the same physical address are for the same virtual block: the page is
\* that of one virtual page.
LEMMA SameBlock ==
  ASSUME PagesDisjoint, TranslatedPages \subseteq VPages, NEW p \in Good, NEW d \in Good,
         BothTranslated(p, d), SameAddress(p, d)
  PROVE  p.vaddr = d.vaddr
<1>1. p.is_translated /\ d.is_translated /\ p \in Packet /\ d \in Packet
  BY DEF BothTranslated, Good
<1>2. p.page = d.page /\ d.page # 0 /\ OffsetOf[p.vaddr] = OffsetOf[d.vaddr]
  BY DEF SameAddress, HasAddress
<1>3. p.page = vpage_to_ppage_map[Page(p)] /\ d.page = vpage_to_ppage_map[Page(d)]
  BY <1>1, <1>2 DEF Good, HasAddress
<1>4. Page(p) \in VPages /\ Page(d) \in VPages
  BY <1>1, PageInVPages
<1>5. Page(p) = Page(d)
  BY <1>2, <1>3, <1>4 DEF PagesDisjoint, NoPage
<1>6. p.vaddr \in VAddrs /\ d.vaddr \in VAddrs
  BY <1>1 DEF Packet
<1> QED BY <1>2, <1>5, <1>6, AddressAssumption DEF Page

\* Packet m takes the requests of another for the same block.
Joins(new, seq, m, ids, asked) ==
  /\ ids \cap Holds(seq) = {}
  /\ \A i \in ids : asked[i] = seq[m].vaddr
  /\ m \in DOMAIN seq /\ DOMAIN new = DOMAIN seq
  /\ new[m].ids = seq[m].ids \cup ids /\ new[m].vaddr = seq[m].vaddr
  /\ \A k \in DOMAIN seq \ {m} : new[k] = seq[k]

LEMMA JoinsKeep ==
  ASSUME NEW seq, NEW new, NEW asked, NEW m, NEW ids,
         WellHeld(seq, asked), Joins(new, seq, m, ids, asked)
  PROVE  WellHeld(new, asked) /\ Holds(new) = Holds(seq) \cup ids
<1> USE DEF Joins
<1>1. \A k \in DOMAIN seq : seq[k].ids \cap ids = {}
  BY DEF Holds
<1>2. WellHeld(new, asked)
  BY <1>1 DEF WellHeld
<1>3. \A k \in DOMAIN new : new[k].ids \subseteq Holds(seq) \cup ids
  BY DEF Holds
<1>4. \A k \in DOMAIN seq : seq[k].ids \subseteq Holds(new)
  BY DEF Holds
<1>5. ids \subseteq Holds(new)
  BY DEF Holds
<1> QED BY <1>2, <1>3, <1>4, <1>5 DEF Holds

LEMMA CheckCollisionHeld ==
  ASSUME QueueInv, RequestInv, PagesDisjoint, NEW q \in QueueNames, CheckCollision(q)
  PROVE  RequestInv'
<1> DEFINE seq == queues[q]
<1>1. /\ seq \in Seq(Good) /\ Len(seq) \in Nat /\ DOMAIN seq = 1..Len(seq)
      /\ \A n \in 1..Len(seq) : seq[n] \in Good /\ seq[n] \in Packet
  BY QueueIsSeq
<1>2. PICK n \in DOMAIN seq :
        \/ /\ queues' = [queues EXCEPT ![q] = Without(seq, n)]
           /\ \E m \in DOMAIN queues["WQ"] : /\ Collides(seq[n], queues["WQ"], m)
                                             /\ Answer(seq[n].ids, queues["WQ"][m].vaddr)
        \/ /\ \E m \in 1..(n - 1) :
                /\ Collides(seq[n], SubSeq(seq, 1, n - 1), m)
                /\ queues' = [queues EXCEPT
                                ![q] = Without([seq EXCEPT ![m].ids = @ \cup seq[n].ids], n)]
           /\ UNCHANGED requested
        \/ /\ queues' = [queues EXCEPT ![q][n].forward_checked = TRUE]
           /\ UNCHANGED requested
  BY DEF CheckCollision
<1>3. WellHeld(seq, requested)
  BY DEF RequestInv
<1> DEFINE dropped == Without(seq, n)
<1>4. /\ WellHeld(dropped, requested)
      /\ Holds(dropped) = Holds(seq) \ seq[n].ids
      /\ Len(dropped) = Len(seq) - 1
      /\ \A m \in 1..(Len(seq) - 1) : dropped[m] = IF m < n THEN seq[m] ELSE seq[m + 1]
      /\ dropped \in Seq(Good)
  BY <1>1, <1>3, WithoutPicks, WithoutIsSeq
<1>5. ASSUME NEW m \in DOMAIN queues["WQ"], Collides(seq[n], queues["WQ"], m),
             queues' = [queues EXCEPT ![q] = dropped], Answer(seq[n].ids, queues["WQ"][m].vaddr)
      PROVE  RequestInv'
  <2> DEFINE d == queues["WQ"][m]
  <2>1. d \in Good
    BY QueuesAssumption, QueueIsSeq
  <2>2. seq[n].vaddr = d.vaddr
    <3>1. BothTranslated(seq[n], d) /\ SameAddress(seq[n], d)
      BY <1>5 DEF Collides
    <3>2. seq[n] \in Good
      BY <1>1
    <3> HIDE DEF d
    <3> QED BY <2>1, <3>1, <3>2, SameBlock, PagesAssumption
  <2>3. Answer(seq[n].ids, seq[n].vaddr)
    BY <1>5, <2>2
  <2> HIDE DEF dropped
  <2> QED BY <1>4, <1>5, <2>3, LeavesKeep
<1>6. ASSUME NEW m \in 1..(n - 1), Collides(seq[n], SubSeq(seq, 1, n - 1), m),
             queues' = [queues EXCEPT ![q] = Without([seq EXCEPT ![m].ids = @ \cup seq[n].ids], n)],
             UNCHANGED requested
      PROVE  RequestInv'
  <2> DEFINE p == [seq[m] EXCEPT !.ids = @ \cup seq[n].ids]
             merged == [seq EXCEPT ![m] = p]
             new == Without(merged, n)
  <2>1. m \in 1..Len(seq) /\ n \in 1..Len(seq) /\ m < n
    BY <1>1
  <2>2. seq[m].vaddr = seq[n].vaddr
    <3>1. SubSeq(seq, 1, n - 1)[m] = seq[m]
      <4>1. \A k \in 1..(n - 1) : seq[k] \in Good
        BY <1>1, <2>1
      <4> QED BY <2>1, <4>1, SubSeqProperties
    <3>2. BothTranslated(seq[n], seq[m]) /\ SameAddress(seq[n], seq[m])
      BY <1>6, <3>1 DEF Collides
    <3> QED BY <1>1, <2>1, <3>2, SameBlock, PagesAssumption
  <2>3. p \in Packet /\ p.ids = seq[m].ids \cup seq[n].ids /\ p.vaddr = seq[m].vaddr
    BY <1>1, <2>1 DEF Packet
  <2>4. seq \in Seq(Packet)
    BY <1>1, FunctionIsSeq
  <2> HIDE DEF p
  <2>5. /\ merged \in Seq(Packet) /\ Len(merged) = Len(seq)
        /\ \A k \in 1..Len(seq) : merged[k] = IF k = m THEN p ELSE seq[k]
    BY <2>1, <2>3, <2>4, ExceptSeq
  <2> HIDE DEF merged
  <2>6. /\ Len(new) = Len(seq) - 1 /\ new \in Seq(Packet)
        /\ \A k \in 1..(Len(seq) - 1) : new[k] = IF k < n THEN merged[k] ELSE merged[k + 1]
    <3>1. n \in DOMAIN merged /\ n \in 1..Len(merged)
      BY <2>1, <2>5, LenProperties
    <3> QED BY <2>5, <3>1, WithoutElements, WithoutIsSeq
  <2> HIDE DEF new, dropped
  <2>7. /\ DOMAIN new = 1..(Len(seq) - 1) /\ DOMAIN dropped = 1..(Len(seq) - 1)
        /\ m \in 1..(Len(seq) - 1)
    BY <1>1, <1>4, <2>1, <2>6, LenProperties
  <2>8. /\ new[m] = p /\ dropped[m] = seq[m]
    BY <1>4, <2>1, <2>5, <2>6, <2>7
  <2>9. \A k \in DOMAIN dropped \ {m} : new[k] = dropped[k]
    <3> TAKE k \in DOMAIN dropped \ {m}
    <3>1. k \in 1..(Len(seq) - 1) /\ k \in 1..Len(seq) /\ k + 1 \in 1..Len(seq) /\ k # m
      BY <1>1, <2>7
    <3>2. CASE k < n
      BY <1>4, <2>5, <2>6, <3>1, <3>2
    <3>3. CASE ~(k < n)
      <4>1. k + 1 # m
        BY <2>1, <3>1, <3>3
      <4> QED BY <1>4, <2>5, <2>6, <3>1, <3>3, <4>1
    <3> QED BY <3>2, <3>3
  <2> DEFINE ids == seq[n].ids
  <2>10. /\ ids \cap Holds(dropped) = {}
         /\ \A i \in ids : requested[i] = dropped[m].vaddr
         /\ new[m].ids = dropped[m].ids \cup ids /\ new[m].vaddr = dropped[m].vaddr
    BY <1>3, <1>4, <2>1, <2>2, <2>3, <2>8 DEF WellHeld
  <2>11. ids \subseteq Holds(seq)
    BY DEF Holds
  <2> HIDE DEF ids
  <2>12. WellHeld(new, requested) /\ Holds(new) = Holds(dropped) \cup ids
    <3>1. Joins(new, dropped, m, ids, requested)
      BY <2>7, <2>9, <2>10 DEF Joins
    <3> QED BY <1>4, <3>1, JoinsKeep
  <2>13. Holds(new) = Holds(seq)
    BY <1>4, <2>11, <2>12 DEF ids
  <2>14. queues' = [queues EXCEPT ![q] = new]
    BY <1>6 DEF new, merged, p
  <2> DEFINE nothing == {}
  <2>15. Changes(q, new, nothing, nothing)
    BY <1>6, <2>12, <2>13, <2>14 DEF Changes, RequestInv
  <2> HIDE DEF nothing
  <2> QED BY <2>15, ChangesKeep
<1>7. CASE /\ queues' = [queues EXCEPT ![q][n].forward_checked = TRUE]
           /\ UNCHANGED requested
  <2> DEFINE p == [seq[n] EXCEPT !.forward_checked = TRUE]
             new == [seq EXCEPT ![n] = p]
             f == [k \in DOMAIN seq |-> k]
  <2>1. queues' = [queues EXCEPT ![q] = new] /\ UNCHANGED requested
    BY <1>7
  <2>2. p.ids = seq[n].ids /\ p.vaddr = seq[n].vaddr
    BY <1>1 DEF Packet
  <2> HIDE DEF p
  <2>3. DOMAIN new = DOMAIN seq /\ \A k \in DOMAIN seq : new[k] = IF k = n THEN p ELSE seq[k]
    BY <1>1
  <2> HIDE DEF new
  <2>4. /\ Picks(new, seq, f)
        /\ \A k \in DOMAIN seq : \E j \in DOMAIN new : f[j] = k
    BY <2>2, <2>3 DEF Picks
  <2> HIDE DEF f
  <2> QED BY <2>1, <2>4, MovesKeep
<1> QED BY <1>2, <1>5, <1>6, <1>7

LEMMA IssueTranslationHeld ==
  ASSUME QueueInv, RequestInv, NEW q \in QueueNames, NEW n \in DOMAIN queues[q],
         IssueTranslation(q, n)
  PROVE  RequestInv'
<1> DEFINE seq == queues[q]
           p == [seq[n] EXCEPT !.issued = TRUE, !.page = 0]
           new == [seq EXCEPT ![n] = p]
           f == [k \in DOMAIN seq |-> k]
<1>1. seq \in Seq(Good) /\ seq[n] \in Packet
  BY QueueIsSeq
<1>2. queues' = [queues EXCEPT ![q] = new] /\ UNCHANGED requested
  BY DEF IssueTranslation
<1>3. p.ids = seq[n].ids /\ p.vaddr = seq[n].vaddr
  BY <1>1 DEF Packet
<1> HIDE DEF p
<1>4. DOMAIN new = DOMAIN seq /\ \A k \in DOMAIN seq : new[k] = IF k = n THEN p ELSE seq[k]
  BY <1>1
<1> HIDE DEF new
<1>5. /\ Picks(new, seq, f)
      /\ \A k \in DOMAIN seq : \E j \in DOMAIN new : f[j] = k
  BY <1>3, <1>4 DEF Picks
<1> HIDE DEF f
<1> QED BY <1>2, <1>5, MovesKeep

\* The first k packets go behind the others.
LEMMA DetectMissesHeld ==
  ASSUME QueueInv, RequestInv, NEW q \in QueueNames, NEW k \in DOMAIN queues[q],
         DetectMisses(q, k)
  PROVE  RequestInv'
<1> DEFINE seq == queues[q]
           length == Len(seq)
           missed == [n \in 1..k |-> [seq[n] EXCEPT !.late = TRUE]]
           others == SubSeq(seq, k + 1, length)
           new == others \o missed
<1>1. /\ seq \in Seq(Packet) /\ length \in Nat /\ DOMAIN seq = 1..length /\ k \in 1..length
      /\ \A n \in 1..length : seq[n] \in Packet
  BY QueueIsSeq, FunctionIsSeq
<1>2. queues' = [queues EXCEPT ![q] = new] /\ UNCHANGED requested
  BY DEF DetectMisses
<1>3. /\ missed \in Seq(Packet) /\ Len(missed) = k
      /\ \A n \in 1..k : missed[n].ids = seq[n].ids /\ missed[n].vaddr = seq[n].vaddr
  <2>1. \A n \in 1..k : /\ missed[n] \in Packet
                        /\ missed[n].ids = seq[n].ids /\ missed[n].vaddr = seq[n].vaddr
    <3>1. ASSUME NEW p \in Packet
          PROVE  LET d == [p EXCEPT !.late = TRUE]
                 IN  d \in Packet /\ d.ids = p.ids /\ d.vaddr = p.vaddr
      BY DEF Packet
    <3>2. \A n \in 1..k : seq[n] \in Packet /\ missed[n] = [seq[n] EXCEPT !.late = TRUE]
      BY <1>1
    <3> HIDE DEF missed, seq
    <3> QED BY <3>1, <3>2
  <2>2. missed \in [1..k -> Packet]
    BY <2>1
  <2>3. DOMAIN missed = 1..k /\ k \in Nat
    BY <1>1
  <2> HIDE DEF missed
  <2>4. missed \in Seq(Packet)
    BY <2>2, <2>3, FunctionIsSeq
  <2>5. Len(missed) = k
    BY <2>3, <2>4, LenProperties
  <2> QED BY <2>1, <2>4, <2>5
<1>4. /\ others \in Seq(Packet) /\ Len(others) = length - k
      /\ \A n \in 1..(length - k) : others[n] = seq[k + n]
  <2>1. \A n \in (k + 1)..length : seq[n] \in Packet
    BY <1>1
  <2>2. k + 1 \in Int /\ length \in Int
    BY <1>1
  <2> HIDE DEF seq, length
  <2>3. /\ others \in Seq(Packet)
        /\ Len(others) = IF k + 1 <= length THEN length - (k + 1) + 1 ELSE 0
        /\ \A n \in 1..(length - (k + 1) + 1) : others[n] = seq[(k + 1) + n - 1]
    BY <2>1, <2>2, SubSeqProperties
  <2> HIDE DEF others, length
  <2>4. length - (k + 1) + 1 = length - k
    BY <1>1
  <2>5. \A n \in 1..(length - k) : (k + 1) + n - 1 = k + n
    BY <1>1
  <2>6. Len(others) = length - k
    <3>1. CASE k + 1 <= length
      BY <2>3, <2>4, <3>1
    <3>2. CASE ~(k + 1 <= length)
      <4>1. length - k = 0
        BY <1>1, <3>2
      <4> QED BY <2>3, <3>2, <4>1
    <3> QED BY <3>1, <3>2
  <2> QED BY <2>3, <2>4, <2>5, <2>6
<1> HIDE DEF missed, others, length
<1>5. /\ new \in Seq(Packet) /\ Len(new) = length
      /\ \A n \in 1..(length - k) : new[n] = others[n]
      /\ \A n \in (length - k + 1)..length : new[n] = missed[n - (length - k)]
  <2>1. /\ new \in Seq(Packet) /\ Len(new) = Len(others) + Len(missed)
        /\ \A n \in 1..(Len(others) + Len(missed)) :
             new[n] = IF n <= Len(others) THEN others[n] ELSE missed[n - Len(others)]
    BY <1>3, <1>4, ConcatProperties
  <2>2. Len(others) + Len(missed) = length /\ length - k \in Nat /\ length - k <= length
    BY <1>1, <1>3, <1>4
  <2> HIDE DEF new
  <2>3. ASSUME NEW n \in 1..(length - k) PROVE new[n] = others[n]
    <3>1. n \in 1..length /\ n <= length - k
      BY <1>1, <2>2
    <3> QED BY <1>4, <2>1, <2>2, <3>1
  <2>4. ASSUME NEW n \in (length - k + 1)..length PROVE new[n] = missed[n - (length - k)]
    <3>1. n \in 1..length /\ ~(n <= length - k)
      BY <1>1, <2>2
    <3> QED BY <1>4, <2>1, <2>2, <3>1
  <2> QED BY <2>1, <2>2, <2>3, <2>4
<1>6. DOMAIN new = 1..length
  BY <1>5, LenProperties
<1> HIDE DEF new
<1> DEFINE f == [n \in 1..length |-> IF n <= length - k THEN k + n ELSE n - (length - k)]
<1>7. \A n \in 1..length : f[n] = IF n <= length - k THEN k + n ELSE n - (length - k)
  OBVIOUS
<1>8. f \in [DOMAIN new -> DOMAIN seq]
  BY <1>1, <1>6
<1> HIDE DEF f
<1>9. \A m, n \in 1..length : f[m] = f[n] => m = n
  BY <1>1, <1>7
<1>10. ASSUME NEW n \in 1..length
       PROVE  new[n].ids = seq[f[n]].ids /\ new[n].vaddr = seq[f[n]].vaddr
  <2>1. CASE n <= length - k
    <3>1. n \in 1..(length - k) /\ f[n] = k + n
      BY <1>1, <1>7, <2>1
    <3> QED BY <1>4, <1>5, <3>1
  <2>2. CASE ~(n <= length - k)
    <3>1. /\ n \in (length - k + 1)..length /\ n - (length - k) \in 1..k
          /\ f[n] = n - (length - k)
      BY <1>1, <1>7, <2>2
    <3> QED BY <1>3, <1>5, <3>1
  <2> QED BY <2>1, <2>2
<1>11. \A n \in DOMAIN seq : \E m \in DOMAIN new : f[m] = n
  <2> TAKE n \in DOMAIN seq
  <2>1. CASE n <= k
    <3>1. n + (length - k) \in DOMAIN new /\ f[n + (length - k)] = n
      <4>1. /\ n \in 1..length /\ n + (length - k) \in 1..length
            /\ ~(n + (length - k) <= length - k)
            /\ (n + (length - k)) - (length - k) = n
        BY <1>1, <2>1
      <4> QED BY <1>6, <1>7, <4>1
    <3> QED BY <3>1
  <2>2. CASE ~(n <= k)
    <3>1. n - k \in DOMAIN new /\ f[n - k] = n
      <4>1. /\ n - k \in 1..length /\ n - k <= length - k /\ k + (n - k) = n
        BY <1>1, <2>2
      <4> QED BY <1>6, <1>7, <4>1
    <3> QED BY <3>1
  <2> QED BY <2>1, <2>2
<1>12. Picks(new, seq, f)
  BY <1>6, <1>8, <1>9, <1>10 DEF Picks
<1> QED BY <1>2, <1>11, <1>12, MovesKeep

LEMMA TakeFrontHeld ==
  ASSUME QueueInv, RequestInv, NEW q \in QueueNames, TakeFront(q)
  PROVE  RequestInv'
<1> DEFINE seq == queues[q]
           new == Tail(seq)
           f == [m \in DOMAIN new |-> m + 1]
<1>1. /\ seq \in Seq(Good) /\ Len(seq) \in Nat /\ DOMAIN seq = 1..Len(seq) /\ seq # <<>>
      /\ queues' = [queues EXCEPT ![q] = new] /\ Answer(Head(seq).ids, Head(seq).vaddr)
  BY QueueIsSeq DEF TakeFront
<1>2. /\ new \in Seq(Good) /\ Len(new) = Len(seq) - 1
      /\ \A m \in 1..Len(new) : new[m] = seq[m + 1]
  BY <1>1, HeadTailProperties
<1>3. Len(seq) > 0
  BY <1>1, EmptySeq
<1>4. DOMAIN new = 1..(Len(seq) - 1) /\ Head(seq) = seq[1] /\ 1 \in DOMAIN seq
  BY <1>1, <1>2, <1>3, LenProperties
<1> HIDE DEF new
<1>5. Picks(new, seq, f)
  <2>1. f \in [DOMAIN new -> DOMAIN seq]
    BY <1>1, <1>4
  <2>2. \A m, k \in DOMAIN new : f[m] = f[k] => m = k
    BY <1>1, <1>4
  <2>3. \A m \in DOMAIN new : new[m] = seq[f[m]]
    BY <1>1, <1>2, <1>4
  <2> QED BY <2>1, <2>2, <2>3 DEF Picks
<1>6. \A m \in DOMAIN new : f[m] # 1
  BY <1>1, <1>4
<1>7. ASSUME NEW k \in DOMAIN seq \ {1} PROVE \E m \in DOMAIN new : f[m] = k
  <2>1. k - 1 \in DOMAIN new /\ f[k - 1] = k
    BY <1>1, <1>4
  <2> QED BY <2>1
<1> HIDE DEF f
<1>8. WellHeld(new, requested)
  BY <1>5, PickedWellHeld DEF RequestInv
<1> DEFINE one == 1
<1>9. /\ one \in DOMAIN seq /\ \A m \in DOMAIN new : f[m] # one
      /\ \A k \in DOMAIN seq \ {one} : \E m \in DOMAIN new : f[m] = k
      /\ Answer(seq[one].ids, seq[one].vaddr) /\ WellHeld(seq, requested)
  BY <1>1, <1>4, <1>6, <1>7 DEF RequestInv
<1> HIDE DEF one
<1>10. Holds(new) = Holds(seq) \ seq[one].ids
  BY <1>5, <1>9, PickedOthers
<1> QED BY <1>1, <1>8, <1>9, <1>10, LeavesKeep

\* A translation changes the requests of no packet.
LEMMA ReturnTranslationHeld ==
  ASSUME QueueInv, RequestInv, NEW v \in VPages, NEW ppage \in Nat, ReturnTranslation(v, ppage)
  PROVE  RequestInv'
<1>1. ASSUME NEW q \in QueueNames
      PROVE  /\ WellHeld(queues'[q], requested)
             /\ Holds(queues'[q]) = Holds(queues[q])
  <2> DEFINE seq == queues[q]
             new == [n \in DOMAIN seq |-> IF Page(seq[n]) = v THEN Translated(seq[n], ppage)
                                          ELSE seq[n]]
             f == [n \in DOMAIN seq |-> n]
  <2>1. queues'[q] = new
    BY DEF ReturnTranslation
  <2>2. \A n \in DOMAIN seq : seq[n] \in Packet
    BY QueueIsSeq
  <2>3. \A n \in DOMAIN seq : /\ Translated(seq[n], ppage).ids = seq[n].ids
                              /\ Translated(seq[n], ppage).vaddr = seq[n].vaddr
    BY <2>2 DEF Translated, Packet
  <2>4. DOMAIN new = DOMAIN seq
    OBVIOUS
  <2>5. \A n \in DOMAIN seq : new[n].ids = seq[n].ids /\ new[n].vaddr = seq[n].vaddr
    BY <2>3
  <2> HIDE DEF new
  <2>6. Picks(new, seq, f) /\ \A n \in DOMAIN seq : \E m \in DOMAIN new : f[m] = n
    BY <2>4, <2>5 DEF Picks
  <2> HIDE DEF f
  <2>7. WellHeld(seq, requested)
    BY DEF RequestInv
  <2> QED BY <2>1, <2>6, <2>7, PickedWellHeld, PickedAll
<1>2. UNCHANGED requested
  BY DEF ReturnTranslation
<1> QED BY <1>1, <1>2 DEF RequestInv

-----------------------------------------------------------------------------
(* The requests of the whole.                                              *)

LEMMA RequestInit == Init => RequestInv
BY DEF Init, QueuesInit, RequestInv, WellHeld, Holds

LEMMA RequestNext == TranslationInv /\ RequestInv /\ [Next]_vars => RequestInv'
<1> SUFFICES ASSUME TranslationInv, RequestInv, [Next]_vars PROVE RequestInv'
  OBVIOUS
<1>1. QueueInv /\ TlbInv /\ PagesDisjoint
  BY DEF TranslationInv, WalkInv, VmemInv
<1>2. ASSUME NEW q \in QueueNames, NEW i \in Ids, NEW a \in VAddrs, Request(q, i, a)
      PROVE  RequestInv'
  BY <1>1, <1>2, AddQueueHeld DEF Request
<1>3. ASSUME NEW q \in QueueNames, Collisions(q) PROVE RequestInv'
  BY <1>1, <1>3, CheckCollisionHeld DEF Collisions
<1>4. ASSUME NEW q \in QueueNames, Issue(q) PROVE RequestInv'
  BY <1>1, <1>4, IssueTranslationHeld DEF Issue
<1>5. ASSUME NEW q \in QueueNames, Misses(q) PROVE RequestInv'
  BY <1>1, <1>5, DetectMissesHeld DEF Misses
<1>6. ASSUME NEW q \in QueueNames, Take(q) PROVE RequestInv'
  BY <1>1, <1>6, TakeFrontHeld DEF Take
<1>7. ASSUME NEW v \in VPages, TlbHit(v) PROVE RequestInv'
  <2>1. tlb[v] \in Nat /\ ReturnTranslation(v, tlb[v])
    BY <1>1, <1>7, PoolAssumption DEF TlbHit, TlbInv, PPages
  <2> QED BY <1>1, <2>1, ReturnTranslationHeld
<1>8. ASSUME NEW v \in VPages, TlbFill(v) PROVE RequestInv'
  <2> DEFINE ppage == MSHR[v].data
  <2>1. MSHR[v].state = "ready" /\ MSHR[v].level = 0 /\ ReturnTranslation(v, ppage)
    BY <1>8 DEF TlbFill, FinishWalk
  <2>2. ppage \in PPages
    BY <2>1 DEF TranslationInv, WalkInv, WalkTypeOK, IsWalk, NoWalk, Levels
  <2>3. ppage \in Nat
    BY <2>2, PoolAssumption DEF PPages
  <2> HIDE DEF ppage
  <2> QED BY <1>1, <2>1, <2>3, ReturnTranslationHeld
<1>9. CASE UNCHANGED queue_vars
  BY <1>9 DEF queue_vars, RequestInv
<1> QED BY <1>2, <1>3, <1>4, <1>5, <1>6, <1>7, <1>8, <1>9
        DEF Next, vars, TlbMiss, TlbEvict, Start, Read, WalkReturn, Visit, Elapse, Fill, WalkerOnly

\* No request is merged with one for another virtual block, or answered with another
\* block, although an address that is still virtual may have the number of another
\* packet's physical one, and none is lost.
THEOREM BlocksKept == Spec => []RequestsKeepTheirBlock
<1>1. TranslationInv /\ RequestInv => RequestsKeepTheirBlock
  <2> SUFFICES ASSUME QueueInv, RequestInv PROVE RequestsKeepTheirBlock
    BY DEF TranslationInv
  <2>1. \A p \in Queued : \A i \in p.ids : requested[i] = p.vaddr
    BY DEF Queued, RequestInv, WellHeld
  <2>2. ASSUME NEW i \in Ids, requested[i] # Idle
        PROVE  \E p \in Queued : i \in p.ids
    <3>1. PICK q \in QueueNames : i \in Holds(queues[q])
      BY <2>2 DEF RequestInv
    <3>2. PICK n \in DOMAIN queues[q] : i \in queues[q][n].ids
      BY <3>1 DEF Holds
    <3>3. queues[q][n] \in Queued
      BY DEF Queued
    <3> QED BY <3>2, <3>3
  <2> QED BY <2>1, <2>2 DEF RequestsKeepTheirBlock
<1>2. Spec => []RequestInv
  BY RequestInit, RequestNext, Invariant, PTL DEF Spec
<1> QED BY <1>1, <1>2, Invariant, PTL
=============================================================================
