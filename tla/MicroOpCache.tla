----------------------------- MODULE MicroOpCache -----------------------------
(***************************************************************************)
(* One set of the micro-op cache (src/inc/micro_op_cache.h) with the       *)
(* replacement policy this project adds: among the least recently used     *)
(* ways, those filled for an alternate path are evicted first              *)
(* (UOP_CACHE_LRU_RP).  A way holds instructions of one window of code;    *)
(* a window can occupy several ways, as a way is closed after a taken      *)
(* branch or two branches.  Fields that only feed statistics or policies   *)
(* not compiled in (hotness, critical, used_once, pref) are left out.      *)
(***************************************************************************)
EXTENDS Integers, FiniteSets

CONSTANTS
  Windows,     \* the windows that map to this set
  NoWindow,    \* the window of a way never used (address 0)
  Kinds,       \* the kinds of instruction inserted, of those below
  NUM_WAYS,
  LRU_WAYS,    \* how many of the oldest ways compete for eviction (4)
  MaxCycle     \* bound: the cycles the clock counts

\* is_branch and taken_end of Insert.  A "taken" branch is a direct jump (do_dib_update),
\* or a branch predicted taken on the alternate path; "guessed" is what the alternate
\* path predicts taken without knowing it for a branch.
IsBranch(kind) == kind \in {"branch", "taken"}
EndsTaken(kind) == kind \in {"taken", "guessed"}

ASSUME MicroOpCacheAssumption ==
  /\ NoWindow \notin Windows
  /\ Kinds \subseteq {"plain", "branch", "taken", "guessed"}
  /\ NUM_WAYS \in Nat \ {0}
  /\ LRU_WAYS \in Nat \ {0}
  /\ MaxCycle \in Nat

VARIABLES
  UOP,            \* the ways of the set
  current_cycle

vars == <<UOP, current_cycle>>

Ways == 1..NUM_WAYS
Way == [window : Windows \cup {NoWindow}, last_used : 0..MaxCycle, active : BOOLEAN,
        terminated_by_taken : BOOLEAN, num_br : 0..2, alternate_path_prefetch : BOOLEAN]

Init ==
  /\ UOP = [w \in Ways |-> [window |-> NoWindow, last_used |-> 0, active |-> TRUE,
                            terminated_by_taken |-> FALSE, num_br |-> 0,
                            alternate_path_prefetch |-> FALSE]]
  /\ current_cycle = 0

-----------------------------------------------------------------------------
\* O3_CPU::operate; several lookups and insertions share a cycle.
Tick ==
  /\ current_cycle < MaxCycle
  /\ current_cycle' = current_cycle + 1
  /\ UNCHANGED UOP

\* Lookup: the first way of the window is used, and is for an alternate path no more.
Lookup(window) ==
  /\ \E w \in Ways :
       /\ UOP[w].window = window
       /\ \A v \in 1..(w - 1) : UOP[v].window # window
       /\ UOP' = [UOP EXCEPT ![w].alternate_path_prefetch = FALSE,
                             ![w].last_used = current_cycle]
  /\ UNCHANGED current_cycle

-----------------------------------------------------------------------------
(* EvictLRU_AlternatePath                                                  *)

\* The ways that may compete: so many of the oldest, equals in any order std::sort
\* leaves them in.
Competing ==
  {C \in SUBSET Ways :
     /\ Cardinality(C) = IF LRU_WAYS < NUM_WAYS THEN LRU_WAYS ELSE NUM_WAYS
     /\ \A v \in C, u \in Ways \ C : UOP[v].last_used <= UOP[u].last_used}

\* Fault: ways filled for an alternate path are evicted last.
FaultBefore(v, w) ==
  IF UOP[v].alternate_path_prefetch # UOP[w].alternate_path_prefetch
  THEN UOP[w].alternate_path_prefetch
  ELSE UOP[v].last_used < UOP[w].last_used

Before(v, w) ==
  IF UOP[v].alternate_path_prefetch # UOP[w].alternate_path_prefetch
  THEN UOP[v].alternate_path_prefetch
  ELSE UOP[v].last_used < UOP[w].last_used

\* std::min_element over the entries that compete, in the order they have been sorted in.
Victim(C, w) == w \in C /\ \A v \in C : ~Before(v, w)

-----------------------------------------------------------------------------
(* Insert                                                                  *)

\* Fault: a way closed after two branches is opened again.
FaultOpened(way, taken_end) ==
  LET open == way.active /\ ~(way.terminated_by_taken \/ way.num_br = 2)
  IN  open \/ (way.num_br <= 2 /\ ~taken_end)

\* Is the way open to this insertion?  A taken branch or a second branch closed
\* it, and unless the instruction ends in a taken jump, only the latter counts.
Opened(way, taken_end) ==
  LET open == way.active /\ ~(way.terminated_by_taken \/ way.num_br = 2)
  IN  open \/ (way.num_br < 2 /\ ~taken_end)

\* An instruction of the window is inserted, by the decoders (alternate is FALSE)
\* or for an alternate path.
Insert(window, kind, alternate) ==
  /\ LET taken_end == EndsTaken(kind)
         ways == [w \in Ways |->
                    IF UOP[w].window = window
                    THEN [UOP[w] EXCEPT !.active = Opened(UOP[w], taken_end)] ELSE UOP[w]]
         Takes(w) == ways[w].window = window /\ ways[w].active
     IN  \/ \E w \in Ways :
              /\ Takes(w)
              /\ \A v \in 1..(w - 1) : ~Takes(v)
              /\ UOP' = [ways EXCEPT
                   ![w].terminated_by_taken = taken_end,
                   ![w].num_br = IF IsBranch(kind) THEN @ + 1 ELSE @,
                   ![w].last_used = current_cycle,
                   ![w].alternate_path_prefetch = @ \/ alternate]
         \/ /\ \A w \in Ways : ~Takes(w)
            /\ \E C \in Competing, w \in Ways :
                 /\ Victim(C, w)
                 /\ UOP' = [ways EXCEPT ![w] =
                      [window |-> window, last_used |-> current_cycle, active |-> TRUE,
                       terminated_by_taken |-> FALSE, num_br |-> 0,
                       alternate_path_prefetch |-> alternate]]
  /\ UNCHANGED current_cycle

Next ==
  \/ Tick
  \/ \E window \in Windows :
       \/ Lookup(window)
       \/ \E kind \in Kinds, alternate \in BOOLEAN : Insert(window, kind, alternate)

Spec == Init /\ [][Next]_vars

-----------------------------------------------------------------------------
(* Properties.                                                             *)

\* num_br <= 2 is the assert of Insert.
TypeOK ==
  /\ UOP \in [Ways -> Way]
  /\ current_cycle \in 0..MaxCycle

\* "We found last 4 lru entries, and then from them we remove the alternate path
\* entries on lru basis.  If no alternate path entry then we remove with nornal lru
\* scheme." (work_done/update_details.txt:34).  Fewer than LRU_WAYS ways are older
\* than the victim, and each of them is passed over only because the victim, unlike
\* it, is for an alternate path.  A victim that is not for one is chosen only if no
\* way that competes in every order std::sort can leave equals in is for one.
EvictsAsDocumented ==
  [][\A w \in Ways : UOP'[w].window # UOP[w].window =>
       LET Older(v) == {u \in Ways : UOP[u].last_used < UOP[v].last_used}
           NotYounger(v) == {u \in Ways \ {v} : UOP[u].last_used <= UOP[v].last_used}
           Alternate(v) == UOP[v].alternate_path_prefetch
       IN  /\ Cardinality(Older(w)) < LRU_WAYS
           /\ \A v \in Older(w) : Alternate(w) /\ ~Alternate(v)
           /\ \A v \in Ways : Cardinality(NotYounger(v)) < LRU_WAYS /\ Alternate(v)
                               => Alternate(w)]_vars

\* "the termination by taken branch should keep the taken branch and then allocate
\* the next up coming entries to new entry" (micro_op_cache.h, Insert): a way that a
\* taken branch closed is not opened again by an instruction that is no branch.
TakenBranchEndsEntry ==
  [][\A w \in Ways : (/\ UOP[w].terminated_by_taken
                      /\ UOP'[w].window = UOP[w].window
                      /\ UOP'[w].num_br = UOP[w].num_br) => UOP'[w].terminated_by_taken]_vars
=============================================================================
