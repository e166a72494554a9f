----------------------------- MODULE UopPrefetch -----------------------------
(***************************************************************************)
(* The alternate-path prefetcher of O3_CPU (src/src/ooo_cpu.cc).  When a   *)
(* hard-to-predict branch is fetched, the instructions of the path it was  *)
(* not predicted to take are queued (ips_to_prefetch), filtered through    *)
(* the micro-op cache, gathered by cache line in UOP_CACHE_MSHR, requested *)
(* from the L1I, and decoded into the micro-op cache when the line comes.  *)
(*                                                                         *)
(* One action is one iteration of a handler's loop.  Widths, ports, banks  *)
(* and the stop conditions on branches decide how many iterations a cycle  *)
(* performs; any number is allowed here.  The L1I is abstracted to the     *)
(* requests it holds, and the outcome of a micro-op cache lookup is free.  *)
(* The flag is_alternate_path of a queued instruction and of an entry of   *)
(* UOP_CACHE_MSHR is always set (add_to_uop_queue_ip, the only producer,   *)
(* sets it), so only the decode buffers carry it.                          *)
(***************************************************************************)
EXTENDS Integers, Sequences, FiniteSets

CONSTANTS
  Ips,                \* instruction addresses
  LineOf, WindowOf,   \* [Ips -> cache line], [Ips -> micro-op cache window]
  Paths,              \* the alternate paths the predictors can come up with
  UOP_MSHR,           \* capacity of UOP_CACHE_MSHR
  PRF_DECODE_SIZE,    \* capacity of PRF_DECODE_BUFFER (512)
  MaxBranches,        \* bound: hard-to-predict branches fetched
  MaxFetches          \* bound: demand fetches

Lines == {LineOf[ip] : ip \in Ips}
Branches == 1..MaxBranches

ASSUME UopPrefetchAssumption ==
  /\ DOMAIN LineOf = Ips
  /\ DOMAIN WindowOf = Ips
  /\ Paths \subseteq Seq(Ips)
  /\ UOP_MSHR \in Nat \ {0}
  /\ PRF_DECODE_SIZE \in Nat \ {0}
  /\ MaxBranches \in Nat
  /\ MaxFetches \in Nat

VARIABLES
  ips_to_prefetch,           \* the alternate path being prefetched
  UOP_CACHE_MSHR,            \* its cache lines, oldest first
  l1i_prefetches,            \* lines the L1I holds a prefetch request for
  l1i_fetches,               \* lines the L1I holds a demand request for
  processed,                 \* L1I_bus.PROCESSED: the lines of returned fetches
  cache_pref_decode_buffer,  \* prefetched instructions, handed over by the L1I
  PRF_DECODE_BUFFER,         \* prefetched instructions waiting for a decoder
  fetched,                   \* number of hard-to-predict branches fetched
  resolved,                  \* those that have been resolved
  fetches,                   \* number of demand fetches made
  last_pref_decoded          \* the instruction last inserted in the micro-op cache

vars == <<ips_to_prefetch, UOP_CACHE_MSHR, l1i_prefetches, l1i_fetches, processed,
          cache_pref_decode_buffer, PRF_DECODE_BUFFER, fetched, resolved, fetches, last_pref_decoded>>

PrefEntry == [ip : Ips, by_isntr : Branches, btb_checked : BOOLEAN, dib_check_done : BOOLEAN,
              dib_hit : BOOLEAN, br_already_resolved : BOOLEAN]
UopMSHREntry == [line : Lines, ips_in_line : Seq(Ips), by_instr : Branches,
                 branch_resolved : BOOLEAN, pref_done : BOOLEAN, added_to_pq : BOOLEAN]
DecodeEntry == [ip : Ips, is_alternate_path : BOOLEAN]
Nothing == [is_alternate_path |-> FALSE]

branchVars == <<fetched, resolved>>
l1iVars == <<l1i_prefetches, l1i_fetches, processed, fetches>>
decodeVars == <<cache_pref_decode_buffer, PRF_DECODE_BUFFER, last_pref_decoded>>

Init ==
  /\ ips_to_prefetch = <<>>
  /\ UOP_CACHE_MSHR = <<>>
  /\ l1i_prefetches = {}
  /\ l1i_fetches = {}
  /\ processed = <<>>
  /\ cache_pref_decode_buffer = <<>>
  /\ PRF_DECODE_BUFFER = <<>>
  /\ fetched = 0
  /\ resolved = {}
  /\ fetches = 0
  /\ last_pref_decoded = Nothing

-----------------------------------------------------------------------------
(* Branches: prefetch_alternate_path and update_mshr.                      *)

\* A hard-to-predict branch is fetched.  Its alternate path replaces the one
\* being prefetched, unless its target is not known.
FetchBranch(path) ==
  /\ fetched < MaxBranches
  /\ fetched' = fetched + 1
  /\ \/ ips_to_prefetch' =
          [n \in DOMAIN path |->
             [ip |-> path[n], by_isntr |-> fetched', btb_checked |-> FALSE,
              dib_check_done |-> FALSE, dib_hit |-> FALSE, br_already_resolved |-> FALSE]]
     \/ UNCHANGED ips_to_prefetch
  /\ UNCHANGED <<UOP_CACHE_MSHR, resolved, l1iVars, decodeVars>>

\* Fault: instructions not in UOP_CACHE_MSHR yet do not learn of the resolution.
FaultMarkResolved(b) == ips_to_prefetch

MarkResolved(b) ==
  [n \in DOMAIN ips_to_prefetch |->
     [ips_to_prefetch[n] EXCEPT !.br_already_resolved = @ \/ ips_to_prefetch[n].by_isntr = b]]

\* update_mshr, at decode or at execution, in any order of the branches
ResolveBranch(b) ==
  /\ b \in 1..fetched \ resolved
  /\ resolved' = resolved \cup {b}
  /\ ips_to_prefetch' = MarkResolved(b)
  /\ UOP_CACHE_MSHR' =
       [n \in DOMAIN UOP_CACHE_MSHR |->
          [UOP_CACHE_MSHR[n] EXCEPT !.branch_resolved = @ \/ UOP_CACHE_MSHR[n].by_instr = b]]
  /\ UNCHANGED <<fetched, l1iVars, decodeVars>>

-----------------------------------------------------------------------------
(* check_contention: banks and ports permitting, the next instruction gets *)
(* its BTB access and the next window its micro-op cache lookup.           *)

CheckBtb ==
  /\ \E n \in DOMAIN ips_to_prefetch :
       /\ ~ips_to_prefetch[n].btb_checked
       /\ \A k \in 1..(n - 1) : ips_to_prefetch[k].btb_checked
       /\ ips_to_prefetch' = [ips_to_prefetch EXCEPT ![n].btb_checked = TRUE]
  /\ UNCHANGED <<UOP_CACHE_MSHR, branchVars, l1iVars, decodeVars>>

\* The last position of the run that begins at n and has the same unit throughout.
EndsRun(n, m, unit) ==
  LET Same(k) == unit[ips_to_prefetch[k].ip] = unit[ips_to_prefetch[n].ip]
  IN  /\ m \in n..Len(ips_to_prefetch)
      /\ \A k \in n..m : Same(k)
      /\ m < Len(ips_to_prefetch) => ~Same(m + 1)

CheckDib(hit) ==
  /\ \E n, m \in DOMAIN ips_to_prefetch :
       /\ ~ips_to_prefetch[n].dib_check_done
       /\ \A k \in 1..(n - 1) : ips_to_prefetch[k].dib_check_done
       /\ EndsRun(n, m, WindowOf)
       /\ ips_to_prefetch' =
            [k \in DOMAIN ips_to_prefetch |->
               IF k \in n..m
               THEN [ips_to_prefetch[k] EXCEPT !.dib_check_done = TRUE, !.dib_hit = hit]
               ELSE ips_to_prefetch[k]]
  /\ UNCHANGED <<UOP_CACHE_MSHR, branchVars, l1iVars, decodeVars>>

-----------------------------------------------------------------------------
(* increment_alternate_path                                                *)

Ready(n) ==
  /\ ips_to_prefetch[n].btb_checked
  /\ ips_to_prefetch[n].dib_check_done
  /\ ~ips_to_prefetch[n].dib_hit

\* k is the first entry for the line.
HasLine(k, line) ==
  /\ k \in DOMAIN UOP_CACHE_MSHR
  /\ UOP_CACHE_MSHR[k].line = line
  /\ \A l \in 1..(k - 1) : UOP_CACHE_MSHR[l].line # line

\* Fault: a line whose branch is resolved already waits for the resolution.
FaultNewEntry(n, m) ==
  [line |-> LineOf[ips_to_prefetch[n].ip],
   ips_in_line |-> [k \in 1..(m - n + 1) |-> ips_to_prefetch[n + k - 1].ip],
   by_instr |-> ips_to_prefetch[n].by_isntr,
   branch_resolved |-> FALSE, pref_done |-> FALSE, added_to_pq |-> FALSE]

\* The entry for the run n..m.
NewEntry(n, m) ==
  [line |-> LineOf[ips_to_prefetch[n].ip],
   ips_in_line |-> [k \in 1..(m - n + 1) |-> ips_to_prefetch[n + k - 1].ip],
   by_instr |-> ips_to_prefetch[n].by_isntr,
   branch_resolved |-> \E k \in n..m : ips_to_prefetch[k].br_already_resolved,
   pref_done |-> FALSE, added_to_pq |-> FALSE]

\* The first ready instruction goes to UOP_CACHE_MSHR, with all that follow it in
\* its line, ready or not.  A line that is there already only gains instructions.
IncrementAlternatePath ==
  /\ \E n, m \in DOMAIN ips_to_prefetch :
       /\ Ready(n)
       /\ \A k \in 1..(n - 1) : ~Ready(k)
       /\ EndsRun(n, m, LineOf)
       /\ LET new == NewEntry(n, m)
          IN  \/ \E k \in DOMAIN UOP_CACHE_MSHR :
                   /\ HasLine(k, new.line)
                   /\ UOP_CACHE_MSHR' =
                        [UOP_CACHE_MSHR EXCEPT ![k].ips_in_line = @ \o new.ips_in_line]
              \/ /\ \A k \in DOMAIN UOP_CACHE_MSHR : ~HasLine(k, new.line)
                 /\ Len(UOP_CACHE_MSHR) < UOP_MSHR
                 /\ UOP_CACHE_MSHR' = Append(UOP_CACHE_MSHR, new)
       /\ ips_to_prefetch' = SubSeq(ips_to_prefetch, 1, n - 1)
                             \o SubSeq(ips_to_prefetch, m + 1, Len(ips_to_prefetch))
  /\ UNCHANGED <<branchVars, l1iVars, decodeVars>>

-----------------------------------------------------------------------------
(* operate_on_uop_mshr_queue                                               *)

FrontDone ==
  /\ UOP_CACHE_MSHR # <<>>
  /\ Head(UOP_CACHE_MSHR).pref_done
  /\ Head(UOP_CACHE_MSHR).branch_resolved

PopUopMSHR ==
  /\ FrontDone
  /\ UOP_CACHE_MSHR' = Tail(UOP_CACHE_MSHR)
  /\ UNCHANGED <<ips_to_prefetch, branchVars, l1iVars, decodeVars>>

\* The L1I takes the prefetch of entry n; it refuses when its queue is full.
IssuePrefetch(n) ==
  /\ ~FrontDone
  /\ n \in DOMAIN UOP_CACHE_MSHR
  /\ ~UOP_CACHE_MSHR[n].added_to_pq
  /\ UOP_CACHE_MSHR' = [UOP_CACHE_MSHR EXCEPT ![n].added_to_pq = TRUE]
  /\ l1i_prefetches' = l1i_prefetches \cup {UOP_CACHE_MSHR[n].line}
  /\ UNCHANGED <<ips_to_prefetch, branchVars, l1i_fetches, processed, fetches, decodeVars>>

-----------------------------------------------------------------------------
(* The L1I and its bus.                                                    *)

\* Fault: only the oldest entry is looked at.
FaultAwaits(n, line) ==
  n = 1 /\ UOP_CACHE_MSHR[n].line = line /\ ~UOP_CACHE_MSHR[n].pref_done

Awaits(n, line) == UOP_CACHE_MSHR[n].line = line /\ ~UOP_CACHE_MSHR[n].pref_done

\* The line has come: its entry is done ...
LineReceived(line) ==
  UOP_CACHE_MSHR' = [n \in DOMAIN UOP_CACHE_MSHR |->
                       [UOP_CACHE_MSHR[n] EXCEPT !.pref_done = @ \/ Awaits(n, line)]]

\* ... and the instructions it gathered, if any, are decoded next.
Gathered(line, alternate) ==
  IF \E n \in DOMAIN UOP_CACHE_MSHR : Awaits(n, line)
  THEN LET n == CHOOSE n \in DOMAIN UOP_CACHE_MSHR : Awaits(n, line)
           ips == UOP_CACHE_MSHR[n].ips_in_line
       IN  [k \in DOMAIN ips |-> [ip |-> ips[k], is_alternate_path |-> alternate]]
  ELSE <<>>

\* update_dib_from_prefetch: the prefetch hits, or the block it missed is filled.
ServePrefetch(line) ==
  /\ line \in l1i_prefetches
  /\ l1i_prefetches' = l1i_prefetches \ {line}
  /\ LineReceived(line)
  /\ cache_pref_decode_buffer' = cache_pref_decode_buffer \o Gathered(line, TRUE)
  /\ UNCHANGED <<ips_to_prefetch, branchVars, l1i_fetches, processed, fetches,
                 PRF_DECODE_BUFFER, last_pref_decoded>>

\* The prefetch and a demand request for the same line become one, a demand
\* (CACHE::handle_miss, in either order of arrival).
AbsorbPrefetch(line) ==
  /\ line \in l1i_prefetches
  /\ line \in l1i_fetches
  /\ l1i_prefetches' = l1i_prefetches \ {line}
  /\ UNCHANGED <<ips_to_prefetch, UOP_CACHE_MSHR, branchVars, l1i_fetches, processed,
                 fetches, decodeVars>>

\* do_fetch_instruction; requests for one line are merged by the L1I.
DemandFetch(line) ==
  /\ fetches < MaxFetches
  /\ fetches' = fetches + 1
  /\ l1i_fetches' = l1i_fetches \cup {line}
  /\ UNCHANGED <<ips_to_prefetch, UOP_CACHE_MSHR, branchVars, l1i_prefetches, processed,
                 decodeVars>>

\* CacheBus::return_data
ReturnFetch(line) ==
  /\ line \in l1i_fetches
  /\ l1i_fetches' = l1i_fetches \ {line}
  /\ processed' = Append(processed, line)
  /\ UNCHANGED <<ips_to_prefetch, UOP_CACHE_MSHR, branchVars, l1i_prefetches, fetches,
                 decodeVars>>

\* handle_memory_return: a returned fetch also serves the entry of its line, but
\* the instructions go to the decoders' buffer unmarked, while it has room.  The
\* packet stays if it has instructions left to serve.
HandleMemoryReturn ==
  /\ processed # <<>>
  /\ LineReceived(Head(processed))
  /\ LET all == PRF_DECODE_BUFFER \o Gathered(Head(processed), FALSE)
     IN  PRF_DECODE_BUFFER' =
           SubSeq(all, 1, IF Len(all) < PRF_DECODE_SIZE THEN Len(all) ELSE PRF_DECODE_SIZE)
  /\ processed' \in {processed, Tail(processed)}
  /\ UNCHANGED <<ips_to_prefetch, branchVars, l1i_prefetches, l1i_fetches, fetches,
                 cache_pref_decode_buffer, last_pref_decoded>>

-----------------------------------------------------------------------------
(* decode_prefetched_instruction                                           *)

DecodePrefetched ==
  /\ PRF_DECODE_BUFFER # <<>>
  /\ last_pref_decoded' = Head(PRF_DECODE_BUFFER)
  /\ PRF_DECODE_BUFFER' = Tail(PRF_DECODE_BUFFER)
  /\ UNCHANGED <<ips_to_prefetch, UOP_CACHE_MSHR, branchVars, l1iVars,
                 cache_pref_decode_buffer>>

HasRoom == Len(PRF_DECODE_BUFFER) < PRF_DECODE_SIZE

MoveToDecode ==
  /\ cache_pref_decode_buffer # <<>>
  /\ HasRoom
  /\ PRF_DECODE_BUFFER' = Append(PRF_DECODE_BUFFER, Head(cache_pref_decode_buffer))
  /\ cache_pref_decode_buffer' = Tail(cache_pref_decode_buffer)
  /\ UNCHANGED <<ips_to_prefetch, UOP_CACHE_MSHR, branchVars, l1iVars, last_pref_decoded>>

-----------------------------------------------------------------------------
L1I(line) == ServePrefetch(line) \/ AbsorbPrefetch(line)

Next ==
  \/ \E path \in Paths : FetchBranch(path)
  \/ \E b \in Branches : ResolveBranch(b)
  \/ CheckBtb
  \/ \E hit \in BOOLEAN : CheckDib(hit)
  \/ IncrementAlternatePath
  \/ PopUopMSHR
  \/ \E n \in DOMAIN UOP_CACHE_MSHR : IssuePrefetch(n)
  \/ \E line \in Lines : L1I(line) \/ DemandFetch(line) \/ ReturnFetch(line)
  \/ HandleMemoryReturn
  \/ DecodePrefetched
  \/ MoveToDecode

Spec == Init /\ [][Next]_vars

\* Branches are resolved, the handlers run in every cycle, and the L1I takes and
\* serves requests.
FairSpec ==
  /\ Spec
  /\ WF_vars(\E b \in Branches : ResolveBranch(b))
  /\ WF_vars(PopUopMSHR)
  /\ WF_vars(\E n \in DOMAIN UOP_CACHE_MSHR : IssuePrefetch(n))
  /\ WF_vars(\E line \in Lines : L1I(line))
  /\ WF_vars(\E line \in Lines : ReturnFetch(line))
  /\ WF_vars(HandleMemoryReturn)

-----------------------------------------------------------------------------
(* Properties.                                                             *)

TypeOK ==
  /\ ips_to_prefetch \in Seq(PrefEntry)
  /\ UOP_CACHE_MSHR \in Seq(UopMSHREntry) /\ Len(UOP_CACHE_MSHR) <= UOP_MSHR
  /\ l1i_prefetches \subseteq Lines
  /\ l1i_fetches \subseteq Lines
  /\ processed \in Seq(Lines)
  /\ cache_pref_decode_buffer \in Seq(DecodeEntry)
  /\ PRF_DECODE_BUFFER \in Seq(DecodeEntry) /\ Len(PRF_DECODE_BUFFER) <= PRF_DECODE_SIZE
  /\ fetched \in 0..MaxBranches
  /\ resolved \subseteq 1..fetched
  /\ fetches \in 0..MaxFetches
  /\ last_pref_decoded \in DecodeEntry \cup {Nothing}

\* A line has one entry, so a line that comes completes one entry and its
\* instructions are decoded once.
OneEntryPerLine ==
  \A m, n \in DOMAIN UOP_CACHE_MSHR : UOP_CACHE_MSHR[m].line = UOP_CACHE_MSHR[n].line => m = n

\* The resolution of a branch reaches every line of its path, gathered before the
\* branch is resolved or after: update_mshr looks at both queues, and an entry is
\* never left to wait for a branch that has gone by.
ResolutionNotLost ==
  \A n \in DOMAIN UOP_CACHE_MSHR :
    UOP_CACHE_MSHR[n].by_instr \in resolved => UOP_CACHE_MSHR[n].branch_resolved

\* Whatever the L1I does with a prefetch, something in flight will complete its
\* entry: the prefetch, or the demand request that absorbed it.
IssuedIsInFlight ==
  \A n \in DOMAIN UOP_CACHE_MSHR :
    UOP_CACHE_MSHR[n].added_to_pq /\ ~UOP_CACHE_MSHR[n].pref_done =>
      \/ UOP_CACHE_MSHR[n].line \in l1i_prefetches \cup l1i_fetches
      \/ \E k \in DOMAIN processed : processed[k] = UOP_CACHE_MSHR[n].line

\* The deadlock test of operate_on_uop_mshr_queue never fires: every line leaves
\* UOP_CACHE_MSHR although it is emptied from the front only.
EntriesLeave ==
  \A line \in Lines : LET Held == \E n \in DOMAIN UOP_CACHE_MSHR : UOP_CACHE_MSHR[n].line = line
                      IN  Held ~> ~Held

\* "set alternate path bit if request is prefetch of alternate path"
\* (work_done/update_details.txt): the instructions of alternate paths reach
\* MicroOpCache::Insert marked as such.
AlternatePathIsMarked == last_pref_decoded # Nothing => last_pref_decoded.is_alternate_path
=============================================================================
