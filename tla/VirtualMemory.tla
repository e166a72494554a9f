---------------------------- MODULE VirtualMemory ----------------------------
(***************************************************************************)
(* Physical pages (class VirtualMemory, src/src/vmem.cc).  One pool, handed *)
(* out in order and never taken back, serves the data pages (va_to_pa) and *)
(* the pages of the page tables (get_pte_pa); several tables share a page  *)
(* when they are smaller.  A page is its number, a table the page and the  *)
(* piece of it where it lies.                                              *)
(***************************************************************************)
EXTENDS Integers, FiniteSets

CONSTANTS
  VPages,           \* virtual pages, each of one cpu
  Tables,           \* page tables, <<cpu, vaddr >> shamt(level), level>>
  PIECES,           \* PAGE_SIZE / pte_page_size
  FIRST_PPAGE,      \* VMEM_RESERVE_CAPACITY, in pages
  LAST_PPAGE        \* the first page that does not exist

ASSUME PoolAssumption ==
  /\ PIECES \in Nat \ {0}
  /\ FIRST_PPAGE \in Nat \ {0}
  /\ LAST_PPAGE \in Nat
  /\ FIRST_PPAGE < LAST_PPAGE

\* Addresses are of 64 bits, and the cpus a number.
ASSUME SpaceAssumption == IsFiniteSet(VPages) /\ IsFiniteSet(Tables)

VARIABLES
  next_ppage,           \* the next page to hand out
  next_pte_page,        \* the next table, NoPiece before the first
  vpage_to_ppage_map,   \* the page of each virtual page, or NoPage
  page_table            \* where each table lies, or NoPiece

vmem_vars == <<next_ppage, next_pte_page, vpage_to_ppage_map, page_table>>

NoPage == 0
NoPiece == <<0, 0>>
PPages == FIRST_PPAGE..(LAST_PPAGE - 1)
Pieces == PPages \X (0..(PIECES - 1))

VmemInit ==
  /\ next_ppage = FIRST_PPAGE
  /\ next_pte_page = NoPiece
  /\ vpage_to_ppage_map = [v \in VPages |-> NoPage]
  /\ page_table = [t \in Tables |-> NoPiece]

\* The assertion of ppage_front, when page p is the next.
Available(p) == p < LAST_PPAGE

\* Fault: a page that is given to a virtual page stays the next one.
FaultPopped(p) == p

\* ppage_pop
Popped(p) == p + 1

\* Fault: a mapping is written again by each call.
FaultFaults(v) == TRUE

\* The maps insert a key once; only that call costs minor_fault_penalty.
Faults(v) == vpage_to_ppage_map[v] = NoPage
TableFaults(t) == page_table[t] = NoPiece

\* va_to_pa reads ppage_front() for the pages that have a mapping, too.
VaToPa(v) ==
  /\ Available(next_ppage)
  /\ \/ /\ Faults(v)
        /\ vpage_to_ppage_map' = [vpage_to_ppage_map EXCEPT ![v] = next_ppage]
        /\ next_ppage' = Popped(next_ppage)
     \/ /\ ~Faults(v)
        /\ UNCHANGED <<vpage_to_ppage_map, next_ppage>>
  /\ UNCHANGED <<next_pte_page, page_table>>

\* Fault: every table takes a page of its own.
FaultIsFull(piece) == TRUE

\* Whether the piece is the last of its page.
IsFull(piece) == piece[2] + 1 = PIECES

\* The first call of get_pte_pa takes a page for the tables.
TakeFirst ==
  /\ next_pte_page = NoPiece
  /\ Available(next_ppage)

\* A table gets piece, and the next table the piece after it, or a new page.
PlaceTable(t, piece, front) ==
  /\ page_table' = [page_table EXCEPT ![t] = piece]
  /\ \/ /\ ~IsFull(piece)
        /\ next_pte_page' = <<piece[1], piece[2] + 1>>
        /\ next_ppage' = front
     \/ /\ IsFull(piece)
        /\ Available(front)
        /\ next_pte_page' = <<front, 0>>
        /\ next_ppage' = front + 1

\* get_pte_pa
GetPtePa(t) ==
  /\ \/ TakeFirst /\ PlaceTable(t, <<next_ppage, 0>>, next_ppage + 1)
     \/ /\ next_pte_page # NoPiece
        /\ TableFaults(t)
        /\ PlaceTable(t, next_pte_page, next_ppage)
     \/ /\ next_pte_page # NoPiece
        /\ ~TableFaults(t)
        /\ UNCHANGED <<page_table, next_pte_page, next_ppage>>
  /\ UNCHANGED vpage_to_ppage_map

VmemNext == (\E v \in VPages : VaToPa(v)) \/ (\E t \in Tables : GetPtePa(t))

VmemSpec == VmemInit /\ [][VmemNext]_vmem_vars

-----------------------------------------------------------------------------
(* Properties.                                                             *)

VmemTypeOK ==
  /\ next_ppage \in FIRST_PPAGE..LAST_PPAGE
  /\ next_pte_page \in Pieces \cup {NoPiece}
  /\ vpage_to_ppage_map \in [VPages -> PPages \cup {NoPage}]
  /\ page_table \in [Tables -> Pieces \cup {NoPiece}]

\* The two allocators never hand out the same memory: data pages are distinct, no
\* table lies in a data page, and no two tables share a piece.
PagesDisjoint ==
  /\ \A v, w \in VPages :
       vpage_to_ppage_map[v] # NoPage /\ vpage_to_ppage_map[v] = vpage_to_ppage_map[w] => v = w
  /\ \A v \in VPages, t \in Tables :
       page_table[t] # NoPiece => page_table[t][1] # vpage_to_ppage_map[v]
  /\ \A s, t \in Tables :
       page_table[s] # NoPiece /\ page_table[s] = page_table[t] => s = t

\* A pool of one page more than everything that can be mapped never fails the
\* assertion of ppage_front, which every translation evaluates: nothing leaks.
PagesNeeded == Cardinality(VPages) + Cardinality(Tables) \div PIECES + 1

EnoughMemory == FIRST_PPAGE + PagesNeeded < LAST_PPAGE => Available(next_ppage)

\* A mapping, once made, never changes: what a TLB, a paging-structure cache or a
\* packet holds stays right.
MappingsStable ==
  [][/\ \A v \in VPages : vpage_to_ppage_map[v] # NoPage =>
          vpage_to_ppage_map'[v] = vpage_to_ppage_map[v]
     /\ \A t \in Tables : page_table[t] # NoPiece => page_table'[t] = page_table[t]]_vmem_vars
=============================================================================
