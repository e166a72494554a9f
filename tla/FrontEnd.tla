------------------------------- MODULE FrontEnd -------------------------------
(***************************************************************************)
(* The front end of the core (src/src/ooo_cpu.cc): instructions of the     *)
(* trace enter the fetch target queue when their branches are predicted,   *)
(* are looked up in the micro-op cache, fetched from the L1I if they miss, *)
(* and go through the decoders to the back end.  A misprediction stops the *)
(* queue from being filled until the branch is resolved.                   *)
(*                                                                         *)
(* operate runs its handlers in a fixed order, and that order matters: a   *)
(* packet sent to the L1I holds references to entries of the queue.  Here  *)
(* each handler is an action and `handler' says which is next; the L1I has *)
(* its turn between two cycles.  Whatever takes an unknown time (a latency, *)
(* a refused request, a bank conflict of the BTB) costs one of MaxDelays.  *)
(* Warmup, during which no branch is mispredicted, is left out, and so are *)
(* the prefetches that share the L1I (UopPrefetch).                        *)
(***************************************************************************)
EXTENDS Integers, Sequences, FiniteSets

CONSTANTS
  Traces,           \* sequences of [window, line], the path the program takes
  Outcomes,         \* what an instruction is and how it was predicted, see below
  IFETCH_BUFFER_SIZE, DECODE_BUFFER_SIZE, DISPATCH_BUFFER_SIZE,
  FETCH_WIDTH, DECODE_WIDTH, DISPATCH_WIDTH, UOP_CACHE_THROUGHPUT, L1I_BANDWIDTH,
  MaxDelays         \* bound: how often something takes longer

DIB_PORTS == 2
MAX_NON_TAKEN_BRANCHES_PER_CYCLE == 2

INFLIGHT == 1
COMPLETED == 2

ASSUME FrontEndAssumption ==
  /\ {IFETCH_BUFFER_SIZE, DECODE_BUFFER_SIZE, DISPATCH_BUFFER_SIZE, FETCH_WIDTH, DECODE_WIDTH,
      DISPATCH_WIDTH, UOP_CACHE_THROUGHPUT, L1I_BANDWIDTH} \subseteq Nat \ {0}
  /\ MaxDelays \in Nat

\* Without this the queue can be left faster than packets are handled, and they refer
\* to entries that are gone.  champsim_config.json satisfies it (16 and 8); nothing
\* tests it, and the default of config/parse.py (6) does not.
ASSUME WidthAssumption == UOP_CACHE_THROUGHPUT <= FETCH_WIDTH

VARIABLES
  handler,                     \* the next handler of this cycle
  trace, instr_unique_id,      \* the program, and the number of its next instruction
  IFETCH_BUFFER, DECODE_BUFFER, DISPATCH_BUFFER,
  executing,                   \* mispredicted branches in the back end
  asked,                       \* packets the L1I has, sets of instructions that wait
  PROCESSED,                   \* packets it has returned
  instrs_to_read_this_cycle,
  fetch_stall, resume_pending, \* fetch_resume_cycle is set
  mark_next_instr, fetch_mode,
  delays

vars == <<handler, trace, instr_unique_id, IFETCH_BUFFER, DECODE_BUFFER, DISPATCH_BUFFER, executing,
          asked, PROCESSED, instrs_to_read_this_cycle, fetch_stall, resume_pending, mark_next_instr,
          fetch_mode, delays>>
buffers == <<IFETCH_BUFFER, DECODE_BUFFER, DISPATCH_BUFFER>>
l1i == <<asked, PROCESSED>>
stall == <<fetch_stall, resume_pending, mark_next_instr>>
reading == <<trace, instr_unique_id, instrs_to_read_this_cycle>>

\* The handler that runs after each: the order of operate, and round again.
After ==
  [l1i |-> "complete", complete |-> "return", return |-> "dispatch", dispatch |-> "decode",
   decode |-> "promote", promote |-> "resume", resume |-> "fetch", fetch |-> "check",
   check |-> "initialize", initialize |-> "l1i"]

Handle(name) == handler = name /\ handler' = After[name]

Delay == delays < MaxDelays /\ delays' = delays + 1

Init ==
  /\ handler = "l1i"
  /\ trace \in Traces /\ instr_unique_id = 1
  /\ IFETCH_BUFFER = <<>> /\ DECODE_BUFFER = <<>> /\ DISPATCH_BUFFER = <<>>
  /\ executing = {}
  /\ asked = {} /\ PROCESSED = <<>>
  /\ instrs_to_read_this_cycle = 0
  /\ fetch_stall = FALSE /\ resume_pending = FALSE /\ mark_next_instr = FALSE
  /\ fetch_mode = "STREAM"
  /\ delays = 0

SmallerOf(m, n) == IF m <= n THEN m ELSE n
Rest(seq, k) == SubSeq(seq, k + 1, Len(seq))

Line == [id \in DOMAIN trace |-> trace[id].line]
Window == [id \in DOMAIN trace |-> trace[id].window]

-----------------------------------------------------------------------------
(* do_init_instruction.  An outcome is [branch_type, taken, predicted,     *)
(* target]: target is the BTB's guess, "none", "right" or "wrong", and      *)
(* predicted the direction, always taken included.                         *)

IsBranch(o) == o.branch_type # "NOT_BRANCH"

\* A target is kept only for what is taken, or predicted to be.
BranchTarget(o) == IF o.taken THEN "right" ELSE "none"
PredictedTarget(o) == IF o.predicted THEN o.target ELSE "none"

DirectionMissed(o) == o.branch_type = "CONDITIONAL" /\ o.taken # o.predicted

BranchMiss(o) == IsBranch(o) /\ (PredictedTarget(o) # BranchTarget(o) \/ DirectionMissed(o))

\* Direct branches, and conditional ones whose direction was right, are resolved when
\* they are decoded; the others when they execute.
ResolvedAtDecode(o) ==
  \/ o.branch_type \in {"DIRECT_JUMP", "DIRECT_CALL"}
  \/ o.branch_type = "CONDITIONAL" /\ o.taken = o.predicted

\* The queue is not filled past a taken branch, a misprediction or two branches.
StopsReading(o) == IsBranch(o) /\ (o.taken \/ BranchMiss(o))

Branches(os, k) == Cardinality({j \in 1..k : IsBranch(os[j])})

\* The k instructions read, with their outcomes os.
MayRead(os, k) ==
  \A j \in 1..(k - 1) :
    ~StopsReading(os[j]) /\ Branches(os, j) < MAX_NON_TAKEN_BRANCHES_PER_CYCLE

Entry(id, o) == [id |-> id, outcome |-> o, mispredicted |-> BranchMiss(o),
                 dib_checked |-> FALSE, uop_cache_hit |-> FALSE, penalty |-> FALSE, fetched |-> 0]

\* initialize_instruction
Initialize ==
  /\ Handle("initialize")
  /\ \E k \in 0..instrs_to_read_this_cycle : \E os \in [1..k -> Outcomes] :
       /\ instr_unique_id + k <= Len(trace) + 1
       /\ fetch_stall => k = 0
       /\ MayRead(os, k)
       /\ \/ /\ \/ fetch_stall \/ k = instrs_to_read_this_cycle \/ instr_unique_id + k > Len(trace)
                \/ k > 0 /\ (StopsReading(os[k]) \/ Branches(os, k) = MAX_NON_TAKEN_BRANCHES_PER_CYCLE)
             /\ UNCHANGED delays
          \/ ~fetch_stall /\ Delay
       /\ IFETCH_BUFFER' = IFETCH_BUFFER \o [j \in 1..k |-> Entry(instr_unique_id + j - 1, os[j])]
       /\ instr_unique_id' = instr_unique_id + k
       /\ fetch_stall' = (fetch_stall \/ (k > 0 /\ BranchMiss(os[k])))
       /\ mark_next_instr' = (mark_next_instr /\ k = 0)
  /\ UNCHANGED <<trace, DECODE_BUFFER, DISPATCH_BUFFER, executing, l1i, instrs_to_read_this_cycle,
                 resume_pending, fetch_mode>>

-----------------------------------------------------------------------------
(* check_dib: each port looks up the instructions of one window.           *)

\* How many ports the entries from first to last take, one for each stretch of a window.
PortsTaken(first, last) ==
  1 + Cardinality({n \in first..(last - 1) :
                     Window[IFETCH_BUFFER[n].id] # Window[IFETCH_BUFFER[n + 1].id]})

\* The last entry looked up when the first port starts at entry first.
PortEnd(first, last) ==
  /\ PortsTaken(first, last) <= DIB_PORTS
  /\ last < Len(IFETCH_BUFFER) => PortsTaken(first, last + 1) > DIB_PORTS

\* do_check_dib for entry n: a hit is fetched and decoded, even if its line is on the
\* way; the first miss after hits pays for the switch to the decoders.
Checked(n, first, hits) ==
  LET streaming == IF n = first THEN fetch_mode = "STREAM" ELSE n - 1 \in hits
  IN  [IFETCH_BUFFER[n] EXCEPT !.dib_checked = TRUE,
         !.uop_cache_hit = n \in hits,
         !.fetched = IF n \in hits THEN COMPLETED ELSE @,
         !.penalty = n \notin hits /\ streaming]

CheckDib ==
  /\ Handle("check")
  /\ \/ /\ \A n \in DOMAIN IFETCH_BUFFER : IFETCH_BUFFER[n].dib_checked
        /\ UNCHANGED <<IFETCH_BUFFER, fetch_mode>>
     \/ \E first \in DOMAIN IFETCH_BUFFER : \E last \in first..Len(IFETCH_BUFFER) :
          /\ \A n \in DOMAIN IFETCH_BUFFER : IFETCH_BUFFER[n].dib_checked <=> n < first
          /\ PortEnd(first, last)
          /\ \E hits \in SUBSET (first..last) :
               /\ IFETCH_BUFFER' = [n \in DOMAIN IFETCH_BUFFER |->
                    IF n \in first..last THEN Checked(n, first, hits) ELSE IFETCH_BUFFER[n]]
               /\ fetch_mode' = IF last \in hits THEN "STREAM" ELSE "BUILD"
  /\ UNCHANGED <<reading, DECODE_BUFFER, DISPATCH_BUFFER, executing, l1i, stall, delays>>

-----------------------------------------------------------------------------
(* fetch_instruction: one line is asked for in a cycle, for the first      *)
(* instruction that needs it and all behind it on the same line, whether   *)
(* they have been looked up or not and whether they hit or not.            *)

Ready(n) == IFETCH_BUFFER[n].dib_checked /\ IFETCH_BUFFER[n].fetched = 0

\* The entries from n on that are all on the line of n.
Stretch(n) ==
  {m \in n..Len(IFETCH_BUFFER) :
     \A j \in n..m : Line[IFETCH_BUFFER[j].id] = Line[IFETCH_BUFFER[n].id]}

\* Where the loop starts: the first instruction ready on each stretch of a line.
Starts ==
  {n \in DOMAIN IFETCH_BUFFER : Ready(n) /\ \A m \in 1..(n - 1) : Ready(m) => n \notin Stretch(m)}

Penalized(n) == {m \in Stretch(n) : IFETCH_BUFFER[m].penalty}

\* The loop reaches start n: those before it were refused.
Reaches(n) ==
  /\ Cardinality({m \in Starts : m < n}) < L1I_BANDWIDTH
  /\ \A m \in Starts : m < n => Penalized(m) = {}

Fetching(e) == [e EXCEPT !.fetched = INFLIGHT]

\* Fault: the packet holds the instructions that miss only.
FaultDependents(n) == {IFETCH_BUFFER[m].id : m \in {k \in Stretch(n) : Ready(k)}}

\* Fault: the packet holds what is on the line in front of n, too.
FaultWholeLine(n) == {IFETCH_BUFFER[m].id : m \in {k \in DOMAIN IFETCH_BUFFER :
                        Line[IFETCH_BUFFER[k].id] = Line[IFETCH_BUFFER[n].id]}}

\* instr_depend_on_me of the packet for start n.
Dependents(n) == {IFETCH_BUFFER[m].id : m \in Stretch(n)}

\* The switch to the decoders costs the cycle, even if earlier lines were refused.
PayPenalty ==
  \E n \in Starts :
    /\ Reaches(n)
    /\ \E m \in Penalized(n) :
         /\ \A k \in Penalized(n) : m <= k
         /\ IFETCH_BUFFER' = [IFETCH_BUFFER EXCEPT ![m].penalty = FALSE]
    /\ UNCHANGED <<asked, delays>>

AskForLine ==
  \E n \in DOMAIN IFETCH_BUFFER :
    /\ Ready(n)
    /\ \A m \in 1..(n - 1) : ~Ready(m)
    /\ Penalized(n) = {}
    /\ asked' = asked \cup {Dependents(n)}
    /\ IFETCH_BUFFER' = [m \in DOMAIN IFETCH_BUFFER |->
         IF m \in Stretch(n) THEN Fetching(IFETCH_BUFFER[m]) ELSE IFETCH_BUFFER[m]]
    /\ UNCHANGED delays

\* The L1I takes no request in this cycle.
Refused ==
  /\ Starts # {}
  /\ \A n \in Starts : Reaches(n) => Penalized(n) = {}
  /\ Delay
  /\ UNCHANGED <<asked, IFETCH_BUFFER>>

FetchInstruction ==
  /\ Handle("fetch")
  /\ \/ PayPenalty
     \/ AskForLine
     \/ Refused
     \/ Starts = {} /\ UNCHANGED <<asked, IFETCH_BUFFER, delays>>
  /\ UNCHANGED <<reading, DECODE_BUFFER, DISPATCH_BUFFER, executing, PROCESSED, stall, fetch_mode>>

-----------------------------------------------------------------------------
(* The L1I answers, in any order and several times between two cycles of   *)
(* the core if it likes; requests for a line may have been merged.         *)

L1I ==
  /\ handler = "l1i"
  /\ instrs_to_read_this_cycle' = LET room == IFETCH_BUFFER_SIZE - Len(IFETCH_BUFFER)
                                  IN  IF room < FETCH_WIDTH THEN room ELSE FETCH_WIDTH
  /\ \/ /\ \/ asked = {} /\ UNCHANGED delays
           \/ asked # {} /\ Delay
        /\ UNCHANGED l1i
        /\ handler' = After[handler]
     \/ /\ \E packets \in (SUBSET asked) \ {{}} :
             /\ \A p, q \in packets : \A i \in p, j \in q : Line[i] = Line[j]
             /\ asked' = asked \ packets
             /\ PROCESSED' = Append(PROCESSED, UNION packets)
        /\ UNCHANGED delays
        /\ handler' = After[handler] \/ (asked' # {} /\ handler' = handler)
  /\ UNCHANGED <<trace, instr_unique_id, buffers, executing, stall, fetch_mode>>

\* handle_memory_return: the first FETCH_WIDTH dependents, in program order, of the
\* first L1I_BANDWIDTH packets.
Least(S, k) == {i \in S : Cardinality({j \in S : j < i}) < k}

\* The dependents of the first p packets, and what they leave of the width.
InFront(p) == UNION {{n} \X PROCESSED[n] : n \in 1..p}
Bandwidth(p) == FETCH_WIDTH - Cardinality(InFront(p))

Served(p) == IF p > L1I_BANDWIDTH THEN {} ELSE Least(PROCESSED[p], Bandwidth(p - 1))

HandleMemoryReturn ==
  /\ Handle("return")
  /\ LET served == UNION {Served(p) : p \in DOMAIN PROCESSED}
         rest == [p \in DOMAIN PROCESSED |-> PROCESSED[p] \ Served(p)]
     IN  /\ IFETCH_BUFFER' = [n \in DOMAIN IFETCH_BUFFER |->
              IF IFETCH_BUFFER[n].id \in served /\ IFETCH_BUFFER[n].fetched # 0
              THEN [IFETCH_BUFFER[n] EXCEPT !.fetched = COMPLETED] ELSE IFETCH_BUFFER[n]]
         /\ \E done \in 0..Len(PROCESSED) :
              /\ \A p \in DOMAIN PROCESSED : rest[p] = {} <=> p <= done
              /\ PROCESSED' = Rest(rest, done)
  /\ UNCHANGED <<reading, DECODE_BUFFER, DISPATCH_BUFFER, executing, asked, stall, fetch_mode, delays>>

-----------------------------------------------------------------------------
(* From the queue to the back end, in order.                               *)

\* How many leave the queue: one cycle takes from the micro-op cache or from the
\* fetched instructions, not from both.
Goes(n) ==
  /\ IFETCH_BUFFER[n].fetched = COMPLETED
  /\ IFETCH_BUFFER[n].uop_cache_hit = IFETCH_BUFFER[1].uop_cache_hit

Promotable ==
  IF IFETCH_BUFFER = <<>> THEN 0
  ELSE LET width == IF IFETCH_BUFFER[1].uop_cache_hit THEN UOP_CACHE_THROUGHPUT ELSE FETCH_WIDTH
       IN  SmallerOf(width, SmallerOf(DECODE_BUFFER_SIZE - Len(DECODE_BUFFER), Len(IFETCH_BUFFER)))

PromoteToDecode ==
  /\ Handle("promote")
  /\ \E k \in 0..Promotable :
       /\ \A n \in 1..k : Goes(n)
       /\ k < Promotable => ~Goes(k + 1)
       /\ DECODE_BUFFER' = DECODE_BUFFER \o SubSeq(IFETCH_BUFFER, 1, k)
       /\ IFETCH_BUFFER' = Rest(IFETCH_BUFFER, k)
  /\ UNCHANGED <<reading, DISPATCH_BUFFER, executing, l1i, stall, fetch_mode, delays>>

\* How many of at most n, where less is a delay.
AnyOf(n, k) == (k = n /\ UNCHANGED delays) \/ (k \in 0..(n - 1) /\ Delay)

\* Fault: the branch stays marked, and resumes fetch again when it executes.
FaultDecoded(e) == e

\* The mark is cleared so that fetch is not resumed again when the branch executes.
Decoded(e) == IF ResolvedAtDecode(e.outcome) THEN [e EXCEPT !.mispredicted = FALSE] ELSE e

DecodeInstruction ==
  /\ Handle("decode")
  /\ \E k \in 0..DECODE_WIDTH :
       /\ AnyOf(SmallerOf(DECODE_WIDTH, SmallerOf(Len(DECODE_BUFFER),
                DISPATCH_BUFFER_SIZE - Len(DISPATCH_BUFFER))), k)
       /\ DISPATCH_BUFFER' = DISPATCH_BUFFER \o [n \in 1..k |-> Decoded(DECODE_BUFFER[n])]
       /\ resume_pending' = (resume_pending \/ \E n \in 1..k :
            DECODE_BUFFER[n].mispredicted /\ ResolvedAtDecode(DECODE_BUFFER[n].outcome))
       /\ DECODE_BUFFER' = Rest(DECODE_BUFFER, k)
  /\ UNCHANGED <<reading, IFETCH_BUFFER, executing, l1i, fetch_stall, mark_next_instr, fetch_mode>>

\* promote_to_dispatch_from_decoders: the back end (Backend) has room for k.
PromoteToDispatch ==
  /\ Handle("dispatch")
  /\ \E k \in 0..DISPATCH_WIDTH :
       /\ AnyOf(SmallerOf(DISPATCH_WIDTH, Len(DISPATCH_BUFFER)), k)
       /\ executing' = executing \cup {DISPATCH_BUFFER[n].id :
                                         n \in {m \in 1..k : DISPATCH_BUFFER[m].mispredicted}}
       /\ DISPATCH_BUFFER' = Rest(DISPATCH_BUFFER, k)
  /\ UNCHANGED <<reading, IFETCH_BUFFER, DECODE_BUFFER, l1i, stall, fetch_mode>>

\* do_complete_execution of a mispredicted branch; the others change nothing here.
CompleteExecution ==
  /\ Handle("complete")
  /\ \/ executing = {} /\ UNCHANGED <<executing, resume_pending, delays>>
     \/ executing # {} /\ Delay /\ UNCHANGED <<executing, resume_pending>>
     \/ /\ \E id \in executing : executing' = executing \ {id}
        /\ resume_pending' = TRUE
        /\ UNCHANGED delays
  /\ UNCHANGED <<reading, buffers, l1i, fetch_stall, mark_next_instr, fetch_mode>>

\* operate, when the misprediction penalty has passed.
Resume ==
  /\ Handle("resume")
  /\ \/ /\ fetch_stall /\ resume_pending
        /\ fetch_stall' = FALSE /\ resume_pending' = FALSE
        /\ mark_next_instr' = TRUE
        /\ UNCHANGED delays
     \/ /\ fetch_stall /\ resume_pending /\ Delay
        /\ UNCHANGED stall
     \/ ~(fetch_stall /\ resume_pending) /\ UNCHANGED <<stall, delays>>
  /\ UNCHANGED <<reading, buffers, executing, l1i, fetch_mode>>

Next == L1I \/ CompleteExecution \/ HandleMemoryReturn \/ PromoteToDispatch \/ DecodeInstruction
        \/ PromoteToDecode \/ Resume \/ FetchInstruction \/ CheckDib \/ Initialize

Spec == Init /\ [][Next]_vars

\* The core is operated for ever.
FairSpec == Spec /\ WF_vars(Next)

-----------------------------------------------------------------------------
(* Properties.                                                             *)

Entries(seq) == {seq[n] : n \in DOMAIN seq}
WaitingForLine == UNION (asked \cup Entries(PROCESSED))

\* A packet refers to entries of the queue: none has left it when its packet is
\* handled, although a lookup may complete an entry while its line is on the way.
\* Otherwise handle_memory_return reads a destroyed entry and writes to end().
DependentsInFTQ == WaitingForLine \subseteq {e.id : e \in Entries(IFETCH_BUFFER)}

\* What waits for its line has a packet on the way that will complete it.
InFlightIsAsked ==
  \A e \in Entries(IFETCH_BUFFER) : e.fetched = INFLIGHT => e.id \in WaitingForLine

\* While fetch is stopped there is exactly one reason, a mispredicted branch that is
\* not resolved or a resolved one whose penalty runs, and none while it is not; the
\* assertion of operate holds when it resumes.
StallHasOneCause ==
  LET pipeline == Entries(IFETCH_BUFFER) \cup Entries(DECODE_BUFFER) \cup Entries(DISPATCH_BUFFER)
      unresolved == {e.id : e \in {d \in pipeline : d.mispredicted}} \cup executing
  IN  /\ Cardinality(unresolved) + (IF resume_pending THEN 1 ELSE 0) = IF fetch_stall THEN 1 ELSE 0
      /\ fetch_stall => ~mark_next_instr

\* Every instruction of the trace reaches the back end.
EverythingDispatched ==
  <>(instr_unique_id = Len(trace) + 1 /\ IFETCH_BUFFER = <<>> /\ DECODE_BUFFER = <<>>
     /\ DISPATCH_BUFFER = <<>>)
=============================================================================
