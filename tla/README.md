# TLA+ models of the simulator

This directory holds TLA+ models of the cycle-level simulator in `src/` (a
ChampSim derivative with a micro-op cache, an alternate-path prefetcher and a
replacement policy for the lines that prefetcher brings in), the TLC
configurations that check them on small instances, and TLAPS proofs of what can
be shown for every instance. All paths below are relative to `src/`.

The simulator is single threaded. What makes it hard is that every component
is a set of handlers run once per cycle, each over a prefix or a subset of its
queues, up to a width and a latency, so one cycle of one component interleaves
with those of the others in ways nobody enumerated. The models keep this
interleaving and drop the clock: one action is one iteration of one handler's
loop, and as widths and latencies only decide how many iterations a cycle
performs, any order of iterations is allowed.

## 1. The system

| Component | State | Operations | What makes it correct |
|---|---|---|---|
| Front end (`src/ooo_cpu.cc`) | `input_queue`, `IFETCH_BUFFER` (the FTQ), `DECODE_BUFFER`, `DISPATCH_BUFFER`, the L1I bus, the stall flags | `initialize_instruction`, `check_dib`, `fetch_instruction`, `handle_memory_return`, `promote_to_decode`, `decode_instruction` | packets refer to live entries; an entry in flight is answered; one reason for each stall; the trace gets through |
| Back end (`src/ooo_cpu.cc`) | `ROB`, `reg_producers`, `LQ`, `SQ`, the L1D bus | dispatch, `do_scheduling`, `do_execution`, `do_complete_execution`, `operate_lsq`, `handle_memory_return`, `retire_rob` | register and memory dataflow of the program; in-order retirement and stores; no instruction lost |
| Alternate-path prefetcher (`src/ooo_cpu.cc`, `src/cache.cc`) | `ips_to_prefetch`, `UOP_CACHE_MSHR` (kept by the L1I), `cache_pref_decode_buffer`, `PRF_DECODE_BUFFER` | `check_contention`, `increment_alternate_path`, `operate_on_uop_mshr_queue`, `update_mshr`, `update_dib_from_prefetch`, `decode_prefetched_instruction` | an entry per line, that always leaves; the alternate-path bit follows the instructions |
| Micro-op cache (`inc/micro_op_cache.h`) | per set: ways with window, age, branch count, closed and alternate-path bits | `Lookup`, `Insert`, `EvictLRU_AlternatePath` | the eviction policy; when a way ends |
| Target prediction (`btb/twolevel_btb_1Ke_32Ke_gshare_ittage/`, `src/ooo_cpu.cc`) | `m_btb`, `ras`, `h2p_ras` with its saved copy, `speculate_state` | `btb_prediction`, `update_btb`, `speculative_begin`, `prefetch_alternate_path`, `speculative_end` | a return goes to its caller or nowhere; alternate paths leave no trace; they end |
| Cache (`src/cache.cc`, `src/cache_queues.cc`) | `RQ`, `WQ`, `PQ`, `PTWQ`, `MSHR`, `inflight_writes`, `block` | `add_*`, `check_collision`, `try_hit`, `handle_miss`, `handle_write`, `handle_fill`, `return_data` | one miss per block; every requester answered once; answers match misses |
| Translating queues (`src/cache_queues.cc`) | the same queues, with untranslated packets | `issue_translation`, `detect_misses`, `return_data` | every packet is translated once, none overtaken for ever |
| Page table walker (`src/ptw.cc`) | `RQ`, `MSHR`, paging-structure caches | `add_rq`, `handle_read`, `handle_fill`, `step_translation`, `return_data` | each walk takes every level and ends |
| Virtual memory (`src/vmem.cc`) | `next_ppage`, `next_pte_page`, the two maps | `va_to_pa`, `get_pte_pa` | no physical page is used twice; a mapping never changes |
| Memory controller (`src/dram_controller.cc`) | slots of `RQ` and `WQ`, `bank_request`, `active_request`, `write_mode` | `add_rq`, `add_wq`, `check_collision`, `operate` | one request per bank and on the bus; reads and writes both go on |
| Simulation loop (`src/champsim.cc`) | the list of operables with their clocks, the phase | `_operate`, phase changes | clocks advance in proportion; a phase ends for all |

Direction and indirect target predictors, replacement
policies and data prefetchers are published algorithms taken over as they are;
for the rest of the program they are oracles, and the models treat them so. The
profiler, the printers, the trace reader, the configuration generator, the
tracers and `inc/json.h` compute nothing the simulation depends on, or run
outside of it. `PROJECT.json` lists every component with its status.

How they interact. `O3_CPU::operate` runs the handlers of all three CPU parts
once per cycle, youngest stage last. The CPU talks to L1I and L1D through a
`CacheBus`: a call that may refuse, and a queue `PROCESSED` the cache appends
answers to. Caches call `add_rq/add_wq/add_pq/add_ptwq` of the level below and
are called back through `return_data` of every producer in `to_return`.
`UOP_CACHE_MSHR` and `cache_pref_decode_buffer` belong to the L1I but are
written by the CPU as well. A handler refused by a full queue tries again in the
next cycle; nothing is lost, and nothing is persisted, so the hard cases are
order, merging, retry, full queues and liveness. `PROJECT.json` lists them one by
one ("hazards"), at the line where they bite, with the properties that cover them.

## 2. Modules

| Module | What it is |
|---|---|
| `Backend` | the out-of-order back end |
| `ProgramOrder` | its abstract specification: instructions retire one at a time, in order, each with its stores, which reach memory in that order |
| `BackendProofs` | theorems about `Backend`: register scheduling; memory operations; its types and that it implements `ProgramOrder` |
| `Cache` | one cache with its non-translating queues; L1 and lower levels differ by `match_offset_bits` |
| `CacheProofs` | theorems about `Cache`: its MSHR and the level below; its producers and its blocks |
| `UopPrefetch` | the alternate-path prefetcher, with the L1I reduced to the requests it holds |
| `UopPrefetchProofs` | theorems about `UopPrefetch` |
| `TargetPrediction` | the branch target buffer, the two return stacks, and the walk that generates alternate paths |
| `ReturnStack` | the operations of a return stack, which the last and the next module use |
| `MainPath` | the abstract specification of `TargetPrediction`: the same memory, and no alternate paths |
| `TargetPredictionProofs` | theorems about `TargetPrediction`, that it implements `MainPath` among them |
| `MicroOpCache` | one set of the micro-op cache |
| `MicroOpCacheProofs` | theorems about `MicroOpCache` |
| `VirtualMemory` | the allocator of pages and page tables |
| `PageTableWalker` | the walker; extends `VirtualMemory`, which it calls |
| `TranslatingQueues` | the request queues of a virtually addressed cache |
| `AddressTranslation` | the composition of the last three with the TLBs between them |
| `AddressTranslationProofs` | theorems about the virtual memory, and about the composition, which implements it |
| `MemoryController` | one channel of the memory controller |
| `MemoryControllerProofs` | theorems about `MemoryController` |
| `FrontEnd` | the front end, from the trace to the back end |
| `FrontEndProofs` | theorems about `FrontEnd` |
| `MC...` | instances of these for TLC |

Operators named `Fault...` are not part of a specification. Each is what a
definition would be with a plausible bug; substituted for it, it makes TLC
report the property it is paired with in `PROJECT.json`, which shows that the
property depends on that code.

### Backend

An instruction is a record of source and destination registers, load addresses
and store addresses; its number is its position in the program, as `instr_id`
is. `rob`, `LQ`, `SQ`, `reg_producers` and `processed` are the variables of the
code; references (`lq_depend_on_me`, `registers_instrs_depend_on_me`) are slot
and instruction numbers. `memory` and `observed` are history: which store wrote
each address last, and which store each load took its value from. The simulator
carries no data, so this is what "reads the right value" means for it.

| Action | Code |
|---|---|
| `Dispatch` | `promote_to_dispatch_from_decoders`, `do_memory_scheduling` |
| `Schedule`, `Execute`, `CompleteExecution`, `Retire` | `do_scheduling`, `do_execution`, `do_complete_execution`, `retire_rob` |
| `FinishStore`, `CompleteStore`, `ExecuteLoad` | the three parts of `operate_lsq` |
| `ReturnData`, `HandleMemoryReturn` | `CacheBus::return_data`, the L1D half of `handle_memory_return` |

Of `event_cycle` one bit remains: whether an LSQ entry still has the maximal
value it is created with. The L1D takes and answers requests in any order, and
may merge two for one block.

### Cache

`queues`, `MSHR`, `inflight_writes` and `block` are the variables of the code;
`lower` counts the answers the level below owes, `waiting` remembers who asked
for what. A producer asks for a block again before it is answered only if it is
not in `Disciplined`: a core does that, a cache above does not (which
`AsksOncePerBlock` shows of this cache in turn). Replacement is free: any valid
way may be the victim. A refusal by the level below leaves the state as it is, so
it is the action not taken.

| Action | Code |
|---|---|
| `Request`, `Write`, `PrefetchLine` | `add_rq`, `add_pq`, `add_ptwq`; `add_wq`; `prefetch_line` |
| `CheckCollision` | one iteration of `check_collision` |
| `Hit`, `MissMerge`, `MissAllocate`, `WriteMiss` | `try_hit`; the branches of `handle_miss`; `handle_write` |
| `ReturnData` | `return_data`, with its `iter_swap` |
| `FillMiss`, `FillWrite` | `handle_fill` from the MSHR and from the delayed writes |

### UopPrefetch

The variables are the four queues of the pipeline, the requests for lines the
L1I holds (prefetches and demand fetches), the packets it has returned, and which
branches have been fetched and resolved. A path is any sequence the predictors
could come up with; the micro-op cache lookup may hit or miss. A line that has a
prefetch and a demand request in flight may merge them into a demand
(`CACHE::handle_miss`, see `Cache`), after which it is `handle_memory_return`
and not the L1I that completes the entry.

### MicroOpCache

One set. `std::sort` is not stable, so equal ages may come out in any order, and
the policy is checked for all of them. `num_br` starts at 0 also in a way that is
allocated for a branch, which may then hold three, where a comment in `Insert`
(`inc/micro_op_cache.h:249`) says two; its assertion looks at the counter only, and holds.
What the alternate path takes for a taken jump need not be known as a branch
(`guessed`): it closes a way and is not counted.

### TargetPrediction

One action is a branch fetched on the main path, or one iteration of the loop of
`prefetch_alternate_path`. The loop runs to its end within `initialize_instruction`,
so `speculate_state` blocks the main path while it does.

| Action | Code |
|---|---|
| `FetchBranch` | the lookups in `initialize_instruction` and `update_btb`, for a branch that is not hard to predict |
| `FetchWithoutTarget` | a hard branch whose alternate path has no target: `prefetch_alternate_path` returns at once |
| `BeginWalk`, `WalkStep`, `EndWalk` | `speculative_begin` and the start of the walk; an iteration; `speculative_end` and the update for the branch that was hard |

What the direction predictor, its confidence (`is_h2p`) and the indirect predictor say is
free in every step. One set of the buffer is modelled, its ways in the order in which they
will be replaced: the first entry ever made gets age 0, the age of an empty way, and is
replaced first, as in the code. The target of a direct branch is fixed, so an entry is
the address of its branch; `jump` stands for `BRANCH_DIRECT_JUMP` and `BRANCH_OTHER`.
Addresses count instructions, so a return goes to the address after its call, and the
trackers of call sizes, which learn the distance, are left out. Branches are
known to the walk only through the buffer, which is shared with the main path;
the return stack is not shared but copied, and it is smaller.

`ips_to_prefetch`, which the walk fills, is `path` here and emptied by the pipeline that
`UopPrefetch` models. The stop at a maximum of branches and the configuration
without an alternate indirect predictor are build options that are not selected.

### VirtualMemory, PageTableWalker, TranslatingQueues, AddressTranslation

A physical page is its number, a page table the page it lies in and which piece
of it; a virtual page says which table it uses at each level (`KeyOf`) and which
block of it (`LineOf`). `va_to_pa` and `get_pte_pa` are actions on four variables,
and the walker takes them as part of its own steps, as the code calls them.

| Action | Code |
|---|---|
| `VaToPa`, `GetPtePa` | the two operations of `VirtualMemory` |
| `Start`, `Read`, `WalkReturn`, `Visit`, `Elapse`, `Fill` | the constructor of the walker; `handle_read`; `return_data` and each iteration of its loop; the wait for a page fault's penalty; `handle_fill` between levels |
| `Request`, `Collisions`, `Issue`, `Misses`, `Take` | `do_add_queue`; one iteration of `check_collision`; `issue_translation`; `detect_misses`; `is_ready` and the cache that takes the front |
| `TlbHit`, `TlbMiss`, `TlbFill`, `TlbEvict` | the TLBs: an answer from what they hold, a walk, its end with the answer, replacement |

The two levels of TLB are caches, and `Cache` says how caches behave; here they are
one table, that asks for a page once until it is answered (`AsksOncePerBlock`) and
may forget a page at any time. `return_data` of the walker is a loop that calls the
virtual memory in each iteration: `returning` is what is left of it, and no other
handler of the walker runs meanwhile. Time is one bit where it matters: whether a walk still waits for the
penalty of a page fault, and whether a packet has the maximal `event_cycle`
`detect_misses` gives it.

Page numbers are numbers of one kind, because the code compares them: the address field of a
packet has the virtual page at first, nothing (0) while the TLB works, and the physical page at
last, and a virtual page may have the number of a physical one, its own or another page's.
`eq_addr` takes the two for one address; what keeps their requests apart is that a collision
asks for `is_translated` of both packets. An address of 0 matches nothing. A request that is given
another block is not served: it stays outstanding (`requested`) with no packet to answer it, and
`RequestsKeepTheirBlock` and `EveryRequestTranslated` would miss it.

The model keeps six peculiarities of the code, none of which breaks a property. A packet that the
answer to another has translated before it asked is sent to the TLB all the same if its two pages
have one number (`address == v_address`), and waits for a second answer. Only the
first packet with an equal address is looked at for a collision, so that one which is not
translated hides those behind it. `return_data` of the walker
visits walks of the block that were answered before and walks them again, so that
a page fault's penalty is lost if the mapping exists by then. The entry of a
paging-structure cache is tagged one level above the table it points to, so that
two pages that use different tables of the next level may replace each other's
entry. `splice_bits` with `LOG2_PAGE_SIZE` drops the piece of a table from the
address that is asked for. And `ppage_front` is evaluated, and asserts, for pages that
have a mapping already.

### MemoryController

`Operate` is one cycle: the parts of `operate` one after the other, each an operator
from a channel to a channel. Time is here what the algorithm is about, so it is kept:
all cycles are relative to the current one, and of the packets that wait only the
order of their ages counts, so `Tick` renumbers them and the state stays finite. A
mode change gives the packets it takes back the current cycle, so that they are the youngest.
A write to a block that has a checked write in the queue is dropped in favour of
the older packet; with no data in the simulator this loses nothing.

### FrontEnd

The one model with the fixed order of handlers of `operate`: each handler is an
action and `handler` says whose turn it is, because what keeps the packets of the
L1I from referring to entries that have left is that order. The outcome of each
prediction, of each lookup in the micro-op cache, and the delays of the L1I, the
decoders, the back end and the penalties are free; each delay costs one of
`MaxDelays`.

| Action | Code |
|---|---|
| `Initialize` | `initialize_instruction`, `do_init_instruction` |
| `CheckDib`, `FetchInstruction` | `check_dib` with both ports; `fetch_instruction` with the switch penalty |
| `L1I`, `HandleMemoryReturn` | the cache's answers, merged or not, any number of them between two cycles; the L1I half of `handle_memory_return` |
| `PromoteToDecode`, `DecodeInstruction`, `PromoteToDispatch` | the handlers of those names |
| `CompleteExecution`, `Resume` | the end of a misprediction at execution; the resumption in `operate` |

## 3. What is checked

Every property has a comment in its module that says what it means and which
code it is about.

| Run | Instance | Shows |
|---|---|---|
| `backend_memory` | all programs of 4 instructions over 5 shapes (load; store; load and store; load of another word; two loads); ROB 3, LQ 2, SQ 2, window 2; two words of one block | `LoadsObserveLatestStore`, `MemOpsConserved`, `ForwardLinksExact`, `StoresDrainInOrder`; the back end implements `ProgramOrder` |
| `backend_live` | programs of 4 instructions over 3 shapes with two registers, loads and stores of two blocks; ROB 4 | `NoExecuteBeforeOperands`, `SchedulerLinksLive`, `AllDrain` |
| `cache_L1` | one set of two ways, 2 MSHR entries, two words of one block and a second block, two clients of which one is not disciplined, 4 requests | `OneMissPerBlock`, `ReturnedFirst`, `NoLostWaiter`, `NoUnsolicitedAnswer`, `OneCopyPerBlock` |
| `cache_L2` | two ways, three blocks of one set, one packet per queue, write misses delayed, 3 requests | `EveryAnswerHasItsMiss`, `AsksOncePerBlock`, `EveryRequestAnswered` |
| `prefetch_live` | two branches whose paths share two lines, 2 entries, a decode buffer of one, one demand fetch | `ResolutionNotLost`, `IssuedIsInFlight`, `EntriesLeave` |
| `address_translation` | two pages of one block each, whose numbers are among those of the physical pages, two levels of tables below the root, two tables per page of memory, a memory with one page to spare, paging-structure caches of one entry, a write queue of one and a read queue of two, two requests at a time, one eviction | `PagesDisjoint`, `EnoughMemory`, `MappingsStable`, `TranslationsAreCurrent`, `EveryAnswerHasItsWalk`, `UntranslatedIsComing`, `RequestsKeepTheirBlock`, `EveryRequestTranslated` |
| `memory_channel` | two banks, three blocks of which two are rows of one bank, two read and three write slots, 4 requests | `BanksHoldScheduled`, `OnePacketPerBlock`, `ReadsWaitOnce`, `AllServed` |
| `front_end` | 6 instructions, straight or round a loop of 3, windows of 2 and lines of 4 instructions, a queue of 4, widths of 2, two delays | `DependentsInFTQ`, `InFlightIsAsked`, `StallHasOneCause`, `EverythingDispatched` |
| `uop_cache_policy` | 3 ways of which 2 compete, 2 windows, branches, taken branches and jumps not known as branches, 3 cycles | `EvictsAsDocumented`, and the bound on `num_br` in `TypeOK` |
| `alternate_walk` | a hard branch, a call, an indirect call that may call itself, and a return; return stacks of 3 and 2, a buffer of 3 ways, walks of up to 9 instructions | `ReturnStacksAgree`, `PathsReturnToCaller`; following alternate paths implements `MainPath` |
| `prefetch_marks`, `uop_cache_taken` | the micro-op prefetcher and cache, as above | two places where the code does not do what its documentation says (below) |

Why these bounds. A program of four instructions on a ROB of three has every
case of the LSQ: a store queued, finished or gone when a load is dispatched; two
stores to choose from; a slot reused while an older packet is on its way; a full
ROB, LQ and SQ. Four requests to a cache with two misses in flight have a merge in
the queue, a merge in the MSHR, a take-over of a prefetch before and after its
answer, an answer out of order and a full MSHR. Two ways are what it takes to hold a block
twice; the two blocks of `cache_L1` leave nothing to evict there, and the three of `cache_L2` do.
Two branches, two
lines and two entries give the prefetcher a full
queue, a shared line and resolutions in either order; the decode buffer of one is
full at once. Three ways with two that compete distinguish a victim among the
oldest from one among all. Two pages that share their upper tables walk together,
merge at the shared blocks and part at the last level, with a penalty or without; two requests at
a time may be for the block of one page or for those of two, in two queues of which one gives
way; by the order in which pages are handed out, a page gets its own number, the other's or
neither; and the evicted page is walked for again from a paging-structure cache. Three write slots have marks at two, so that the modes
change in both directions with work pending. A queue of four with lines of four has packets that
overlap hits, and a loop whose line is asked for again while entries of the last round are in
it. Walks of nine instructions nest calls deeper than both return stacks and return from
all of them, with four branches for three ways, so that the main path evicts branches
the walk would need. That instance is finite without a bound of its own: the code bounds a
walk by `H2P_T` (500 in `inc/defines.h`), and confidences from 1 to a little more than half of
`H2P_T` stand for those of `is_h2p`, of which no more than two end a walk. The constants are named in the configurations; the
bounds that exist for TLC only are `MaxInstr`, `MaxRequests`, `MaxBranches`,
`MaxFetches`, `MaxCycle`, `MaxEvictions` and `MaxDelays`. Deadlock is not checked where the environment runs
out of such a bound: the system then stops with everything drained, which the
liveness runs check. In `MicroOpCache`, `MemoryController`, `FrontEnd` and `TargetPrediction` deadlock is
checked. Most type invariants are not among the properties of the runs, as other
properties say more: those of `Backend`, `Cache`, `UopPrefetch`, `VirtualMemory`,
`TargetPrediction`, `MicroOpCache` and `MemoryController` are theorems, the bounds of the
MSHR and of `PRF_DECODE_BUFFER` among them; those of `PageTableWalker` and
`TranslatingQueues` document the state.

Fairness. `operate` runs every handler in every cycle, and each handler serves
every entry that is ready, up to a width, from the front. So each kind of
handler iteration is weakly fair: `FairSpec` asks for it per handler in
`Backend`, `UopPrefetch` and `AddressTranslation`, and for the whole of `operate` in
`Cache`, `MemoryController` and `FrontEnd`. What is
assumed of the environment: the level below answers what it took and does not
refuse for ever; branches are resolved. Nothing asks that requests be made,
instructions dispatched or paths fetched. One thing the liveness of `Cache` does
not cover: the queues share the tag bandwidth in a fixed order, so an endless
stream of writes that uses all of it would starve the reads; the instance makes
finitely many requests, as `MaxRequests` bounds them, and shows that nothing else
holds a request up. The memory controller is the same: its marks let one kind of request
starve behind an endless stream of the other. Its write queue must have two slots
(`ChannelAssumption`): with one, both marks are 0, the mode changes in every cycle
and nothing is ever finished. And the front end needs `WidthAssumption`, that a
cycle does not take more instructions from the micro-op cache than returned ones
it can handle: `champsim_config.json` (a fetch width of 16) satisfies it with the
`UOP_CACHE_THROUGHPUT` of `inc/defines.h` (8), but nothing tests it, and
`champsim_config_original.json` and the default of `config/parse.py` (6) do not. Then a packet refers
to entries that have left the queue, which is what the comment at
`src/ooo_cpu.cc:3136` works around.

### Where code and documentation differ

* `prefetch_marks`: when a demand fetch absorbs a prefetch,
  `handle_memory_return` hands the gathered instructions to the decoders without
  the alternate-path bit, which `work_done/update_details.txt` says goes along
  with them.
* `uop_cache_taken`: a way a taken branch closed is opened again by an
  instruction that is not a branch, because the condition meant for a branch that
  is not taken this time asks only that the instruction does not end in a taken
  jump.

## 4. What is proved

`BackendProofs` shows of the back end, for any program of any instructions that fit
the queues (`ShapeAssumption`), any registers, addresses and blocks, and any sizes
(`SizesAssumption`):

| Theorem | Statement |
|---|---|
| `OperandsReady` | `Spec => []NoExecuteBeforeOperands` |
| `LinksLive` | `Spec => []SchedulerLinksLive` |
| `OperationsConserved` | `Spec => []MemOpsConserved` |
| `LinksExact` | `Spec => []ForwardLinksExact` |
| `DrainInOrder` | `Spec => StoresDrainInOrder` |
| `LatestStoreRead` | `Spec => []LoadsObserveLatestStore` |
| `ImplementsOrder` | `Spec => ImplementsProgramOrder` |
| `TypeCorrect` | `Spec => []TypeOK` |

The invariants build on each other.

* `RegisterInv`, register scheduling. That an instruction executes after its operands
  are written rests on three facts: instructions are scheduled in order, so all earlier
  writers are known; `reg_producers` holds exactly the scheduled writers that have not
  completed (`ProducersExact`), so its last element is the latest of them, or the
  latest has completed; and the counter of an instruction is the number of those
  that still hold it (`DependentsCounted`), so at zero nobody does. The ROB is an
  interval of the program that ends at its end.
* `Accounting`. Each memory operation is counted as completed, waits in the LQ, or is
  an unfinished store. What waits belongs to a live instruction that has not
  completed; so a store whose instruction has retired is finished, which
  `do_complete_store` does not check.
* `LinksInv`. A waiting load that names a store is in the list of exactly one
  unfinished store, and the other way round; so finishing a store releases each of
  its loads once, and a slot is not reused while a list refers to it.
* `OrderInv`. The store queue is in program order, and what memory holds for an
  address is not later than any queued store; every store that is neither queued nor
  behind memory does not exist. So what `do_memory_scheduling` finds, or else what memory
  holds, is the latest store when a load is dispatched.
* `LoadsInv`. It stays so until the load is served: a store that drains meanwhile is
  older than every load that waits (its instruction has retired, theirs has not), so
  if it went to the load's address it would have been found. And no load is lost.

The refinement takes all of them: its step for retirement needs that each load of
the front instruction has been observed (`NoLoadLost`, and nothing of it waits), that
for a drained store that its instruction is among the retired ones, and those that
serve loads that their instructions are still in the ROB.

`CacheProofs` shows for a cache of any geometry, with any clients, addresses and
queue sizes, and any number of requests:

| Theorem | Statement |
|---|---|
| `TypeCorrect` | `Spec => []TypeOK` |
| `OneMiss` | `Spec => []OneMissPerBlock` |
| `ReturnedPrefix` | `Spec => []ReturnedFirst` |
| `AnswersMatchMisses` | `Spec => []EveryAnswerHasItsMiss` |
| `AsksOnce` | `Spec => []AsksOncePerBlock` |

The assumptions are those of `Cache` (`ClientsAssumption`, `GeometryAssumption`),
which TLC evaluates for every instance.

None of the last four is inductive alone. That an answer finds its miss depends
on there being one entry per block; that `iter_swap` keeps the returned entries
first depends on the entry found being unreturned, which depends on the level
below owing an answer for its block only while there is such an entry. The
inductive invariant is their conjunction with the count made exact:

    MSHRInv == TypeOK /\ OneMissPerBlock /\ ReturnedFirst /\ OwedOnce
    OwedOnce == \A b \in Blocks : lower[b] = IF Awaited(b) THEN 1 ELSE 0

where `Awaited(b)` says that the MSHR has an unreturned entry for `b`. `OwedOnce`
replaces the cardinality in `EveryAnswerHasItsMiss`, which a lemma recovers at the
end. The proof has a lemma per action that touches the MSHR, and a common one for
those that do not; lemmas about `EXCEPT`, `Append`, `Tail` and the swap on
sequences come first.

On this build, in the same module and under the same assumptions:

| Theorem | Statement |
|---|---|
| `NobodyIsForgotten` | `Spec => []NoLostWaiter` |
| `NobodyIsAnsweredTwice` | `Spec => []NoUnsolicitedAnswer` |
| `OneCopy` | `Spec => []OneCopyPerBlock` |
| `NoMissOnCached` | `Spec => []CachedIsNotMissed` |

The first needs that only what expects no answer is ever dropped: packets of the write queue
and those that do not fill the cache name no producer (`NothingExpected`). The
second needs more than itself: that a disciplined producer is not owed an answer
after it got one holds because its request is in one place (`AskedOnce`), which
`check_collision` and `handle_miss` keep true when they merge. `ClientInv` is the
conjunction, with `MSHRInv`. The last two have one
invariant (`CopyInv`): a fill finds no copy because its
block had a miss in flight, and a miss is only opened when the tags hold no copy;
lookups go to the set of the block, so a block must be in its set (`Single`), and
the L1s must have no delayed writes, which are filled without a look at the tags.

`AddressTranslationProofs` shows of the allocator, for any pages, tables, and number of
tables per page (`PoolAssumption`), `VmemTypeCorrect`, `Disjoint`
(`VmemSpec => []PagesDisjoint`) and `Stable` (`VmemSpec => MappingsStable`).
Disjointness needs more than itself: everything handed out lies below the next
page, and the tables lie below the next piece in the order of pieces. `VaToPa` and
`GetPtePa` each get a lemma that says what they return, which the walker's proof uses too.
`MemorySuffices` (`VmemSpec => []EnoughMemory`) counts, and so needs finitely many pages and
tables (`SpaceAssumption`): each page taken from the pool is that of one virtual page, full
of tables, or the one the next table will lie in (`PagesAccounted`), so the pool loses
none when data pages and tables alternate.

And of the composition, for any number of levels, pages, requests and queues:

| Theorem | Statement |
|---|---|
| `ImplementsVirtualMemory` | `Spec => VmemSpec` |
| `TranslationDisjoint`, `TranslationStable`, `TranslationHasMemory` | the three properties above, of the whole of address translation |
| `WalksAnswered` | `Spec => []EveryAnswerHasItsWalk` |
| `Current` | `Spec => []TranslationsAreCurrent` |
| `Coming` | `Spec => []UntranslatedIsComing` |
| `BlocksKept` | `Spec => []RequestsKeepTheirBlock` |

The first is a refinement: every step of the composition is a step of the virtual
memory or leaves it alone. Through it `Disjoint`, `Stable` and `MemorySuffices` hold of
the composition without a second proof. The next three come from one inductive
invariant, `TranslationInv`: the walker's part (the answers owed are exactly those
of unanswered walks, and an answered walk holds what the maps hold), the queues'
part (a translated packet has the page that is mapped, and one without an address has its
page in translation) and the TLBs' part. That what is held stays right in the next step is
`Stable` again. `BlocksKept` has an invariant of its own, `RequestInv`: each outstanding
request is in one packet of one queue, which is for the block it asked for. A collision
is between packets that are both translated, so the address of each is the physical page
its virtual page is mapped to; no two virtual pages share one (`PagesDisjoint`), so equal
addresses are those of one virtual page and, with the same offset, of one block by
`AddressAssumption` (`SameBlock`). Were one of the two still virtual, the first step would
fail. The other handlers only move and mark packets (`Picks`).

`UopPrefetchProofs` shows of the alternate-path prefetcher, for any paths, any map
from instructions to lines and windows, any queue sizes and any number of branches
and fetches (`UopPrefetchAssumption`):

| Theorem | Statement |
|---|---|
| `TypeCorrect` | `Spec => []TypeOK` |
| `LinesAreUnique` | `Spec => []OneEntryPerLine` |
| `ResolutionReachesEntries` | `Spec => []ResolutionNotLost` |
| `IssuedStaysInFlight` | `Spec => []IssuedIsInFlight` |

`ResolutionNotLost` is not inductive alone: an entry made after its branch was
resolved learns of it from the instructions it is made of. `PathKnows` says that
these know, and the inductive invariant `PrefetchInv` is the conjunction of the four
and `PathKnows`. The stretch of the path that `IncrementAlternatePath` cuts out gets a lemma
of its own (`CutProperties`); then there is a lemma per action.

`TargetPredictionProofs` shows of target prediction, for any program, any sizes of the
stacks and of the buffer, and whatever the predictors say (`TargetPredictionAssumption`):

| Theorem | Statement |
|---|---|
| `StacksAgree` | `Spec => []ReturnStacksAgree` |
| `ImplementsMain` | `Spec => ImplementsMainPath` |
| `WalksAreBounded` | `Spec => [](Len(path) <= H2P_T)` |
| `ReturnsGoBack` | `Spec => []PathsReturnToCaller` |

That the tops of the two stacks agree is not inductive: a return uncovers what is
below. `Aligned` says it of every depth, counted from the top and round the buffer
(`Nth`): where both know a caller it is the same one. A push shifts the callers
down by one in both stacks and a pop up, and each stack loses callers only at its own
bottom, so alignment survives any overflow (`AfterAligned`). In the refinement a walk
stutters, because the abstract return stack is the saved copy while a walk lasts, and
the step that ends it is the execution of the branch that began it; lookups permute
the ways (`TouchedRange`), and an update loses at most the oldest (`UpdatedRange`).
`WalksAreBounded` rests on the assumption that every instruction adds at least 1 to
`end_counter`. The build's `is_h2p` does; with `H2P_TAGE_STYLE_SEZNEC`, which
`compile_ucp.sh` offers, it adds 0 for confident branches, and nothing else is sure to
end the loop: `MAX_CYCLE_IP` is commented out and `ips_checked` is reset by each branch.

`ReturnsGoBack` relates the path to the stack: of each call on it that is still open, the stack
holds the call or nothing, at the depth that calls and returns since have given it
(`CallersKept`), and a call deeper than the stack is long has been overwritten. So a
return that closes a call finds that call on top, or 0, which ends the walk (`GoesBack`).
What depths become when the path grows is `DepthOfAppend`, and what becomes of the n-th
caller the lemmas of `Nth` again.

`MicroOpCacheProofs` shows of a set of the micro-op cache, for any number of ways, of
ways that compete, of windows and of cycles (`MicroOpCacheAssumption`):

| Theorem | Statement |
|---|---|
| `TypeCorrect` | `Spec => []TypeOK` |
| `EvictsRightWay` | `Spec => EvictsAsDocumented` |

The first contains the assertion of `Insert`, that `num_br` stays below the limit: a way takes an
instruction only while it is open, and `OpenedHasRoom` says that an open way of the
window has room for one branch. The second compares two descriptions of the victim, the
code's (sort, cut, choose) and the documentation's (an alternate-path way
among the oldest, or else the oldest), and has to hold whichever ways with equal ages the
sort leaves among the first; what it needs of the set that competes is its size and that nothing
outside is older (`CompetingFacts`).

`MemoryControllerProofs` shows of a channel, for any banks, rows, times and queues
that `ChannelAssumption` allows, and any number of requests:

| Theorem | Statement |
|---|---|
| `TypeCorrect` | `Spec => []TypeOK` |
| `PointersNeverDangle` | `Spec => []BanksHoldScheduled` |
| `BlocksStayApart` | `Spec => []OnePacketPerBlock` |
| `ReadsAreKept` | `Spec => []ReadsWaitOnce` |

One cycle is a chain of operators, and so is the proof: each part of `operate` has a
lemma that it keeps `Inv(c)` of the channel it is given. `Inv` says of each queue that a
packet is scheduled exactly when its bank refers to it (`Linked`), that checked packets
are for different blocks (`Distinct`), and that each unanswered read is in one packet
(`Waits`). Some parts need what the one before them established and a later one undoes: that
everything has been checked (`Checked`) when packets are scheduled, that the
bus carries a request which is not over (`BusInUse`) when the mode changes,
and that nothing is scheduled before warmup ends (`Cold`, `Quiet`). The loops of the code
that look for the earliest packet are definitions by least elements; that a set of numbers has one
(`LeastNatural`) follows from the well-foundedness of the order of finite subsets, a fact
of the library.

`FrontEndProofs` shows of the front end, for any trace, any outcomes of predictions and
lookups, any sizes and widths with `WidthAssumption`, and any number of delays:

| Theorem | Statement |
|---|---|
| `DependentsStay` | `Spec => []DependentsInFTQ` |
| `InFlightComes` | `Spec => []InFlightIsAsked` |
| `OneCause` | `Spec => []StallHasOneCause` |

`FrontInv` is the conjunction of three parts.

* `Numbered`. The instructions in the three buffers are numbered one after the other, so an entry
  of the FTQ is known by its number, and a promotion removes the smallest.
* `QueueInv`. That no entry leaves the FTQ while a packet refers to it is a race between the
  L1I and the micro-op cache, because `fetch_instruction` puts entries into a packet that
  have not been looked up, and a lookup that hits completes them before the packet
  comes. So a packet that has not been served has, in front of each of its
  instructions, one that missed and waits (`NobodyServed`), which is not promoted. The only packet
  served in part is the first one returned, because a packet that is not served to the end has used up
  the width (`NothingBehind`), and what is left of it lies at least `FETCH_WIDTH` behind the
  front of the queue (`FirstLeft`). From `handle_memory_return` to the
  promotion of the same cycle it stays out of reach (`Covered`): a cycle promotes fetched
  entries, for which no packet is on its way any more, or hits, of which it takes at most
  `UOP_CACHE_THROUGHPUT` and none behind a miss. This is where `WidthAssumption` is
  needed. At the next return the packet is the first again, and nothing of it has been promoted.
* `StallInv`. At most one instruction in the pipeline is an unresolved misprediction; while
  there is one, or its penalty runs, fetch is stopped, and no other can enter.

Only checked by TLC: the two properties the code violates, `AlternatePathIsMarked` and `TakenBranchEndsEntry`; and all liveness (`AllDrain`,
`EveryRequestAnswered`, `EntriesLeave`, `EveryRequestTranslated`, `AllServed`,
`EverythingDispatched`), which the prover cannot express under fairness.

## 5. What is not modelled

* Time. Latencies, widths and penalties are not in the models, so nothing is
  said about cycle counts, which are what the simulator is for; only about what
  can happen in which order.
* In `Cache`: replacement that bypasses the cache (`way == set_end`),
  translation (which `TranslatingQueues` models), the metadata of prefetchers, and the
  contents of blocks. The dirty bit is modelled, and places where it or a
  second copy is lost are listed under the hazards.
* In `TranslatingQueues`: packets that come with a physical address (prefetches into
  the same level and writebacks from above, which name no producer) and the queue of the page table walker. In `VirtualMemory`: tables
  larger than a page, which the code would let overlap, and addresses within tables.
* In `FrontEnd`: warmup, in which no branch is mispredicted; the BTB banks and decoders
  shared with alternate paths; the options for ideal recovery. `operate` and
  `promote_to_decode` read the front of the FTQ when it may be empty, and `check_dib` the
  entry past its end; what they read is not used, so this has no effect in the model.
* In `TargetPrediction`: the direction and indirect predictors and their histories, call
  sizes, the build options above, and more than one core (several of its variables are
  those of CPU 0, or shared, which the hazards list). That a walk ends follows from the bound
  on its length, so liveness is not checked on top.
* In `UopPrefetch`: what generates a path, which `TargetPrediction` models on its own, and
  the contention for banks and ports, which may hold up any instruction. Reads past the end
  of `ips_to_prefetch` and `PRF_DECODE_BUFFER` are excluded: they have no defined
  outcome.
* In `MicroOpCache`: hotness, criticality and the policies that are not compiled in.
* The components with status `not_modelled` in `PROJECT.json`.

* Why much of the source has no model. Of the lines of the repository almost half are
  the vendored `inc/json.h`; most others are predictors, prefetchers and
  replacement policies (tables of counters, with no protocol to get wrong), the
  profiler, and statistics and build options within the functions that are modelled.

## 6. Plan

1. `Hierarchy`: two caches above each other, the lower one instantiated as the
   environment the upper one assumes.
2. Decoders shared between `FrontEnd` and `UopPrefetch`.
