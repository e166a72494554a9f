--------------------------- MODULE MemoryController ---------------------------
(***************************************************************************)
(* One channel of the memory controller (src/src/dram_controller.cc).  A   *)
(* read is a request that someone waits for, a write one that nobody does; *)
(* both sit in slots of RQ and WQ, are scheduled on a bank and then take   *)
(* the data bus.  Data and statistics are left out.                        *)
(*                                                                         *)
(* Times are relative to current_cycle, so that 0 is now.  Of those that   *)
(* have passed only the order matters: Tick renumbers them in every cycle. *)
(***************************************************************************)
EXTENDS Integers, FiniteSets

CONSTANTS
  Addrs,            \* blocks of this channel
  BANKS,            \* DRAM_RANKS * DRAM_BANKS
  BankOf,           \* [Addrs -> Banks], op_idx
  RowOf,            \* [Addrs -> Rows]
  RQ_SIZE, WQ_SIZE,
  tCAS, tRP_RCD,    \* tRP and tRCD are only used as their sum
  RETURN_TIME,      \* DRAM_DBUS_RETURN_TIME
  TURN_AROUND_TIME,
  MaxRequests       \* bound: how many requests the caches above send

HIGH_WM == (WQ_SIZE * 7) \div 8
LOW_WM == (WQ_SIZE * 6) \div 8

Banks == 1..BANKS
Rows == {RowOf[a] : a \in Addrs}
Requests == 1..MaxRequests

ASSUME ChannelAssumption ==
  /\ BANKS \in Nat \ {0} /\ RQ_SIZE \in Nat \ {0}
  /\ WQ_SIZE \in Nat /\ WQ_SIZE >= 2        \* with one slot the mode changes in every cycle
  /\ BankOf \in [Addrs -> Banks] /\ DOMAIN RowOf = Addrs /\ "none" \notin Addrs
  /\ {tCAS, RETURN_TIME} \subseteq Nat \ {0}
  /\ {tRP_RCD, TURN_AROUND_TIME, MaxRequests} \subseteq Nat

VARIABLES
  channel,       \* the state of DRAM_CHANNEL
  warmup,
  outstanding,   \* history: the reads that have not been answered
  sent           \* how many requests have been sent

vars == <<channel, warmup, outstanding, sent>>

NoAddress == "none"
NoRow == "none"
NoPacket == <<"none", 0>>
NoBank == 0

Empty == [address |-> NoAddress, to_return |-> {}, scheduled |-> FALSE,
          forward_checked |-> FALSE, event_cycle |-> 0]

\* A bank request is valid when it has a packet, and then holds until event_cycle.
Free(row) == [pkt |-> NoPacket, event_cycle |-> 0, open_row |-> row]

\* active_request is NoBank for the end of bank_request; answered are the reads
\* answered so far in this cycle.
Init ==
  /\ channel = [RQ |-> [n \in 1..RQ_SIZE |-> Empty], WQ |-> [n \in 1..WQ_SIZE |-> Empty],
                bank_request |-> [b \in Banks |-> Free(NoRow)], active_request |-> NoBank,
                write_mode |-> FALSE, dbus_cycle_available |-> 0, answered |-> {}]
  /\ warmup = TRUE
  /\ outstanding = {}
  /\ sent = 0

IsValid(p) == p.address # NoAddress
Occupied(q) == {n \in DOMAIN q : IsValid(q[n])}
SlotsFor(q, a) == {n \in DOMAIN q : q[n].address = a}

\* std::min_element: the first slot of S with the least event_cycle.
Earliest(S, q) ==
  CHOOSE n \in S : \A m \in S \ {n} :
    q[n].event_cycle < q[m].event_cycle \/ (q[n].event_cycle = q[m].event_cycle /\ n < m)

-----------------------------------------------------------------------------
(* add_rq (and add_pq) and add_wq: the first empty slot.                   *)

AddTo(name, p) ==
  LET q == channel[name]
  IN  \E n \in DOMAIN q \ Occupied(q) :
        /\ 1..(n - 1) \subseteq Occupied(q)
        /\ channel' = [channel EXCEPT ![name][n] = p]

AddRq(a) ==
  /\ sent < MaxRequests
  /\ AddTo("RQ", [Empty EXCEPT !.address = a, !.to_return = {sent + 1}])
  /\ outstanding' = outstanding \cup {sent + 1}
  /\ sent' = sent + 1
  /\ UNCHANGED warmup

AddWq(a) ==
  /\ sent < MaxRequests
  /\ AddTo("WQ", [Empty EXCEPT !.address = a])
  /\ sent' = sent + 1
  /\ UNCHANGED <<warmup, outstanding>>

-----------------------------------------------------------------------------
(* The parts of operate, each from a channel to a channel.                 *)

\* During warmup every read is answered at once, and writes vanish.
Clear(c) ==
  IF ~warmup THEN c
  ELSE [c EXCEPT !.answered = UNION {c.RQ[n].to_return : n \in DOMAIN c.RQ},
                 !.RQ = [n \in DOMAIN c.RQ |-> Empty],
                 !.WQ = [n \in DOMAIN c.WQ |-> Empty]]

SameBlock(q, n) == SlotsFor(q, q[n].address)

\* Fault: only the slots ahead are compared.
FaultStays(q, n) == q[n].forward_checked \/ \A m \in SameBlock(q, n) : m >= n

\* Each packet that has not been checked goes, in the order of the slots, if any other
\* slot, ahead or behind, has its block: the checked one is left, or else the last.
Stays(q, n) ==
  \/ q[n].forward_checked
  \/ \A m \in SameBlock(q, n) : ~q[m].forward_checked /\ m <= n

\* Fault: the waiters of the packets that go are forgotten.
FaultWaiters(q, n) == q[n].to_return

\* What stays takes over the waiters of those that go.
Waiters(q, n) == UNION {q[m].to_return : m \in SameBlock(q, n)}

\* One packet for each block is left of q.
Collided(q) ==
  [n \in DOMAIN q |->
     IF n \in Occupied(q) /\ Stays(q, n)
     THEN [q[n] EXCEPT !.forward_checked = TRUE, !.to_return = Waiters(q, n)] ELSE Empty]

\* New reads of a block in WQ take the data from there, before they are compared.
CheckCollision(c) ==
  LET WQ == Collided(c.WQ)
      forwarded == {n \in Occupied(c.RQ) : /\ ~c.RQ[n].forward_checked
                                           /\ SlotsFor(WQ, c.RQ[n].address) # {}}
      rest == [n \in DOMAIN c.RQ |-> IF n \in forwarded THEN Empty ELSE c.RQ[n]]
  IN  [c EXCEPT !.WQ = WQ, !.RQ = Collided(rest),
                !.answered = @ \cup UNION {c.RQ[n].to_return : n \in forwarded}]

\* The request on the data bus is over: its bank and its slot are free.
Finish(c) ==
  LET active == c.bank_request[c.active_request]
      q == active.pkt[1]
      n == active.pkt[2]
  IN  IF c.active_request = NoBank \/ active.event_cycle > 0 THEN c
      ELSE [c EXCEPT !.answered = @ \cup c[q][n].to_return,
                     !.bank_request[c.active_request] = Free(active.open_row),
                     ![q][n] = Empty,
                     !.active_request = NoBank]

\* Fault: the writes at the low mark are too few to go on with.
FaultTooFewWrites(writes) == writes <= LOW_WM

TooFewWrites(writes) == writes < LOW_WM

\* Change modes if the queues are unbalanced.
Unbalanced(c) ==
  LET writes == Cardinality(Occupied(c.WQ))
      reads == Cardinality(Occupied(c.RQ))
  IN  \/ ~c.write_mode /\ (writes >= HIGH_WM \/ (reads = 0 /\ writes > 0))
      \/ c.write_mode /\ (writes = 0 \/ (reads > 0 /\ TooFewWrites(writes)))

\* The banks to reset, which leaves the request on the data bus.
ScheduledBanks(c) == {b \in Banks : b # c.active_request /\ c.bank_request[b].pkt # NoPacket}

\* Fault: the packets stay scheduled.
FaultUnscheduled(name, q, packets) == q

Unscheduled(name, q, packets) ==
  [n \in DOMAIN q |-> IF <<name, n>> \in packets
                      THEN [q[n] EXCEPT !.scheduled = FALSE, !.event_cycle = 0] ELSE q[n]]

SwitchMode(c) ==
  LET banks == ScheduledBanks(c)
      packets == {c.bank_request[b].pkt : b \in banks}
      reset(r) == Free(IF r.event_cycle < tCAS THEN NoRow ELSE r.open_row)
      busy == IF c.active_request = NoBank THEN 0 ELSE c.bank_request[c.active_request].event_cycle
  IN  IF ~Unbalanced(c) THEN c
      ELSE [c EXCEPT !.bank_request = [b \in Banks |-> IF b \in banks THEN reset(@[b]) ELSE @[b]],
                     !.RQ = Unscheduled("RQ", @, packets),
                     !.WQ = Unscheduled("WQ", @, packets),
                     !.dbus_cycle_available = busy + TURN_AROUND_TIME,
                     !.write_mode = ~@]

\* The first of the banks that are ready takes the bus, if it is free.
PutOnBus(c) ==
  LET valid == {b \in Banks : c.bank_request[b].pkt # NoPacket}
      next == Earliest(valid, c.bank_request)
  IN  IF /\ valid # {} /\ c.bank_request[next].event_cycle <= 0
         /\ c.active_request = NoBank /\ c.dbus_cycle_available <= 0
      THEN [c EXCEPT !.active_request = next, !.bank_request[next].event_cycle = RETURN_TIME]
      ELSE c

\* The oldest packet of the mode's queue is scheduled, if its bank is free; the
\* others wait behind it.
Schedule(c) ==
  LET name == IF c.write_mode THEN "WQ" ELSE "RQ"
      q == c[name]
      waiting == {n \in Occupied(q) : ~q[n].scheduled}
      next == Earliest(waiting, q)
      bank == BankOf[q[next].address]
      row == RowOf[q[next].address]
      hit == c.bank_request[bank].open_row = row
  IN  IF waiting = {} \/ c.bank_request[bank].pkt # NoPacket THEN c
      ELSE [c EXCEPT ![name][next] =      \* its event_cycle, the maximum, is not read again
                       [@ EXCEPT !.scheduled = TRUE, !.event_cycle = 0],
                     !.bank_request[bank] = [pkt |-> <<name, next>>, open_row |-> row,
                         event_cycle |-> tCAS + (IF hit THEN 0 ELSE tRP_RCD)]]

\* The next cycle: the event cycles of S, of which those that have passed are
\* numbered back from latest.
Aged(q, S, latest) ==
  [n \in DOMAIN q |->
     IF n \notin S THEN q[n]
     ELSE IF q[n].event_cycle > 1 THEN [q[n] EXCEPT !.event_cycle = @ - 1]
     ELSE [q[n] EXCEPT !.event_cycle = latest -
             Cardinality({q[m].event_cycle : m \in {k \in S : /\ q[k].event_cycle <= 1
                                                             /\ q[k].event_cycle > q[n].event_cycle}})]]

Tick(c) ==
  LET waiting(q) == {n \in Occupied(q) : ~q[n].scheduled}
  IN  [c EXCEPT !.RQ = Aged(@, waiting(@), -1), !.WQ = Aged(@, waiting(@), -1),
                !.bank_request = Aged(@, {b \in Banks : @[b].pkt # NoPacket}, 0),
                !.dbus_cycle_available = IF @ = 0 THEN 0 ELSE @ - 1]

\* One cycle, one part after the other.
Operate ==
  /\ \E cleared \in {Clear(channel)} :
     \E checked \in {CheckCollision(cleared)} :
     \E finished \in {Finish(checked)} :
     \E balanced \in {SwitchMode(finished)} :
     \E bussed \in {PutOnBus(balanced)} :
     \E scheduled \in {Schedule(bussed)} :
       /\ channel' = [Tick(scheduled) EXCEPT !.answered = {}]
       /\ outstanding' = outstanding \ scheduled.answered
  /\ UNCHANGED <<warmup, sent>>

\* The warmup phase ends between two cycles.
EndWarmup ==
  /\ warmup
  /\ warmup' = FALSE
  /\ UNCHANGED <<channel, outstanding, sent>>

Next ==
  \/ \E a \in Addrs : AddRq(a) \/ AddWq(a)
  \/ Operate
  \/ EndWarmup

Spec == Init /\ [][Next]_vars

\* The controller is operated for ever.
FairSpec == Spec /\ WF_vars(Operate)

-----------------------------------------------------------------------------
(* Properties.                                                             *)

Packet == [address : Addrs \cup {NoAddress}, to_return : SUBSET Requests,
           scheduled : BOOLEAN, forward_checked : BOOLEAN, event_cycle : Int]
Slots == ({"RQ"} \X (1..RQ_SIZE)) \cup ({"WQ"} \X (1..WQ_SIZE))
BankRequest == [pkt : Slots \cup {NoPacket}, event_cycle : Int, open_row : Rows \cup {NoRow}]

TypeOK ==
  /\ channel.RQ \in [1..RQ_SIZE -> Packet] /\ channel.WQ \in [1..WQ_SIZE -> Packet]
  /\ channel.bank_request \in [Banks -> BankRequest]
  /\ channel.active_request \in Banks \cup {NoBank}
  /\ channel.write_mode \in BOOLEAN /\ channel.dbus_cycle_available \in Nat
  /\ channel.answered = {}
  /\ warmup \in BOOLEAN /\ outstanding \subseteq Requests /\ sent \in 0..MaxRequests

Queued(name, n) == channel[name][n]

\* The pointers of the banks into the queues never dangle: a packet is scheduled
\* exactly when one bank, its own, refers to its slot, whatever mode changes,
\* forwards and merges have emptied or refilled slots since.
BanksHoldScheduled ==
  /\ \A s \in Slots :
       LET p == Queued(s[1], s[2])
           holders == {b \in Banks : channel.bank_request[b].pkt = s}
       IN  holders = IF p.scheduled THEN {BankOf[p.address]} ELSE {}
  /\ channel.active_request # NoBank =>
       channel.bank_request[channel.active_request].pkt # NoPacket

\* Two packets of a queue that have been checked are for different blocks, though a
\* later packet may lie in an earlier slot.
OnePacketPerBlock ==
  \A name \in {"RQ", "WQ"} :
    \A m, n \in {k \in Occupied(channel[name]) : channel[name][k].forward_checked} :
      channel[name][m].address = channel[name][n].address => m = n

\* A read that has not been answered waits in exactly one packet, through merges and
\* mode changes, and nobody is answered twice.
ReadsWaitOnce ==
  \A r \in Requests :
    Cardinality({n \in 1..RQ_SIZE : r \in channel.RQ[n].to_return})
      = IF r \in outstanding THEN 1 ELSE 0

\* Whatever the order of reads and writes, and although a mode change throws
\* prepared requests back, all that was sent is served.
AllServed ==
  []<>(outstanding = {} /\ Occupied(channel.RQ) = {} /\ Occupied(channel.WQ) = {})
=============================================================================
