------------------------ MODULE MemoryControllerProofs ------------------------
(***************************************************************************)
(* Theorems about a channel of the memory controller, for any banks,       *)
(* queues and times.                                                       *)
(***************************************************************************)
EXTENDS MemoryController, FiniteSetTheorems, TLAPS

-----------------------------------------------------------------------------
(* The inductive invariant, in parts that each look at one queue.          *)

Channel == [RQ : [1..RQ_SIZE -> Packet], WQ : [1..WQ_SIZE -> Packet],
            bank_request : [Banks -> BankRequest], active_request : Banks \cup {NoBank},
            write_mode : BOOLEAN, dbus_cycle_available : Nat, answered : SUBSET Requests]

\* What is scheduled in queue q has been checked, and its bank refers to it; and what
\* a bank refers to is scheduled there.
Linked(name, q, banks) ==
  /\ \A n \in DOMAIN q : q[n].scheduled =>
       /\ q[n].address \in Addrs /\ q[n].forward_checked
       /\ banks[BankOf[q[n].address]].pkt = <<name, n>>
  /\ \A n \in DOMAIN q, b \in Banks : banks[b].pkt = <<name, n>> =>
       q[n].scheduled /\ BankOf[q[n].address] = b

Distinct(q) ==
  \A m, n \in DOMAIN q :
    (/\ q[m].forward_checked /\ q[n].forward_checked
     /\ IsValid(q[m]) /\ q[m].address = q[n].address) => m = n

\* Each read of O waits in one slot of q, and no other read does.
Waits(q, O) ==
  /\ \A n \in DOMAIN q : q[n].to_return \subseteq O
  /\ \A n \in DOMAIN q : q[n].to_return # {} => IsValid(q[n])
  /\ \A r \in O : \E n \in DOMAIN q : r \in q[n].to_return
  /\ \A r \in O : \A m, n \in DOMAIN q : r \in q[m].to_return /\ r \in q[n].to_return => m = n

NobodyWaits(q) == \A n \in DOMAIN q : q[n].to_return = {}

Checked(q) == \A n \in DOMAIN q : IsValid(q[n]) => q[n].forward_checked

BusHeld(c) == c.active_request # NoBank => c.bank_request[c.active_request].pkt # NoPacket

\* Before warmup ends nothing is scheduled.
Cold(c) == warmup => \A b \in Banks : c.bank_request[b].pkt = NoPacket

Inv(c) ==
  /\ c \in Channel
  /\ Linked("RQ", c.RQ, c.bank_request) /\ Linked("WQ", c.WQ, c.bank_request)
  /\ BusHeld(c) /\ Cold(c)
  /\ Distinct(c.RQ) /\ Distinct(c.WQ)
  /\ Waits(c.RQ, outstanding \ c.answered) /\ NobodyWaits(c.WQ)

ChannelInv ==
  /\ Inv(channel) /\ channel.answered = {}
  /\ warmup \in BOOLEAN /\ sent \in 0..MaxRequests /\ outstanding \subseteq 1..sent

-----------------------------------------------------------------------------
(* Least elements.                                                         *)

\* A finite set has an element before which, in an order, there is none.
LEMMA LeastNatural ==
  ASSUME NEW T \in SUBSET Nat, T # {}
  PROVE  \E n \in T : \A m \in T : n <= m
<1> DEFINE R == StrictSubsetOrdering(Nat)
           D == {0..(n - 1) : n \in T}
<1>1. IsWellFoundedOn(R, FiniteSubsetsOf(Nat))
  BY FS_StrictSubsetOrderingWellFounded
<1>2. D \subseteq FiniteSubsetsOf(Nat) /\ D # {}
  <2>1. \A n \in T : IsFiniteSet(0..(n - 1)) /\ 0..(n - 1) \in SUBSET Nat
    BY FS_Interval
  <2> QED BY <2>1 DEF FiniteSubsetsOf
<1>3. PICK d \in D : \A e \in D : ~(<<e, d>> \in R)
  <2> HIDE DEF R, D
  <2> QED BY <1>1, <1>2, WFMin
<1>4. PICK n \in T : d = 0..(n - 1)
  OBVIOUS
<1>5. ASSUME NEW m \in T, m < n
      PROVE  FALSE
  <2>1. 0..(m - 1) \subseteq d /\ 0..(m - 1) # d
    <3>1. m \in d /\ m \notin 0..(m - 1)
      BY <1>4, <1>5
    <3> QED BY <1>4, <1>5, <3>1
  <2>2. <<0..(m - 1), d>> \in R
    BY <2>1, <1>4 DEF StrictSubsetOrdering
  <2> QED BY <1>3, <2>2
<1> QED BY <1>5

LEMMA GreatestSlot ==
  ASSUME NEW k \in Nat, NEW T \in SUBSET (1..k), T # {}
  PROVE  \E n \in T : \A m \in T : m <= n
<1> DEFINE D == {k - n : n \in T}
<1>0. \A n \in T : n \in Nat /\ k - n \in Nat
  OBVIOUS
<1>1. D \subseteq Nat /\ D # {}
  BY <1>0
<1>2. PICK d \in D : \A e \in D : d <= e
  <2> HIDE DEF D
  <2> QED BY <1>1, LeastNatural
<1>3. PICK n \in T : d = k - n
  OBVIOUS
<1>4. \A m \in T : k - n <= k - m
  BY <1>2, <1>3
<1> QED BY <1>4

LEMMA OrderedPairs ==
  ASSUME NEW a \in Int, NEW b \in Int, NEW c \in Int, NEW x \in Int, NEW y \in Int, NEW z \in Int,
         a < b \/ (a = b /\ x < y), b < c \/ (b = c /\ y < z)
  PROVE  a < c \/ (a = c /\ x < z)
OBVIOUS

\* Of finitely many slots one comes first, the lower number among those of one cycle.
LEMMA FirstSlot ==
  ASSUME NEW S \in SUBSET Nat, IsFiniteSet(S), S # {}, NEW c \in [S -> Int]
  PROVE  \E n \in S : \A m \in S \ {n} : c[n] < c[m] \/ (c[n] = c[m] /\ n < m)
<1> DEFINE Precedes(m, n) == c[m] < c[n] \/ (c[m] = c[n] /\ m < n)
           Ahead(n) == {m \in S : Precedes(m, n)}
           R == StrictSubsetOrdering(S)
           D == {Ahead(n) : n \in S}
<1>1. \A n \in S : n \in Int /\ c[n] \in Int
  OBVIOUS
<1>2. \A m \in S : ~Precedes(m, m)
  BY <1>1
<1>3. \A m, n \in S : m # n => Precedes(m, n) \/ Precedes(n, m)
  BY <1>1
<1>4. ASSUME NEW x \in S, NEW m \in S, NEW n \in S, Precedes(x, m), Precedes(m, n)
      PROVE  Precedes(x, n)
  BY <1>1, <1>4, OrderedPairs
<1> SUFFICES \E n \in S : \A m \in S \ {n} : Precedes(n, m)
  OBVIOUS
<1> HIDE DEF Precedes
<1>5. IsWellFoundedOn(R, FiniteSubsetsOf(S))
  BY FS_StrictSubsetOrderingWellFounded
<1>6. D \subseteq FiniteSubsetsOf(S) /\ D # {}
  <2>1. \A n \in S : IsFiniteSet(Ahead(n)) /\ Ahead(n) \in SUBSET S
    BY FS_Subset
  <2> HIDE DEF Ahead
  <2> QED BY <2>1 DEF FiniteSubsetsOf
<1>7. PICK d \in D : \A e \in D : ~(<<e, d>> \in R)
  <2> HIDE DEF R, D
  <2> QED BY <1>5, <1>6, WFMin
<1>8. PICK n \in S : d = Ahead(n)
  OBVIOUS
<1>9. ASSUME NEW m \in S, Precedes(m, n)
      PROVE  FALSE
  <2>1. /\ Ahead(m) \in SUBSET S /\ Ahead(n) \in SUBSET S
        /\ Ahead(m) \subseteq Ahead(n)
        /\ m \in Ahead(n) /\ m \notin Ahead(m)
    BY <1>2, <1>4, <1>9
  <2> HIDE DEF Ahead
  <2>2. <<Ahead(m), Ahead(n)>> \in R
    BY <2>1 DEF StrictSubsetOrdering
  <2> HIDE DEF R
  <2> QED BY <1>7, <1>8, <2>2
<1> QED BY <1>3, <1>9

\* Earliest is one of the slots it chooses from.
LEMMA EarliestIsOne ==
  ASSUME NEW S \in SUBSET Nat, IsFiniteSet(S), S # {}, NEW q,
         \A n \in S : q[n].event_cycle \in Int
  PROVE  /\ Earliest(S, q) \in S
         /\ \A m \in S : q[Earliest(S, q)].event_cycle <= q[m].event_cycle
<1> DEFINE c == [n \in S |-> q[n].event_cycle]
<1>1. c \in [S -> Int] /\ \A n \in S : c[n] = q[n].event_cycle
  OBVIOUS
<1> HIDE DEF c
<1>2. \E n \in S : \A m \in S \ {n} : c[n] < c[m] \/ (c[n] = c[m] /\ n < m)
  BY <1>1, FirstSlot
<1>3. \E n \in S : \A m \in S \ {n} :
        \/ q[n].event_cycle < q[m].event_cycle
        \/ q[n].event_cycle = q[m].event_cycle /\ n < m
  BY <1>1, <1>2
<1> DEFINE e == Earliest(S, q)
<1>4. /\ e \in S
      /\ \A m \in S \ {e} : \/ q[e].event_cycle < q[m].event_cycle
                            \/ q[e].event_cycle = q[m].event_cycle /\ e < m
  BY <1>3 DEF Earliest
<1> HIDE DEF e
<1>5. ASSUME NEW m \in S
      PROVE  q[e].event_cycle <= q[m].event_cycle
  BY <1>4
<1> QED BY <1>4, <1>5 DEF e

-----------------------------------------------------------------------------
(* Queues.                                                                 *)

LEMMA EmptyType ==
  /\ Empty \in Packet /\ ~IsValid(Empty) /\ ~Empty.scheduled /\ ~Empty.forward_checked
  /\ Empty.to_return = {} /\ Empty.address = NoAddress /\ NoAddress \notin Addrs
BY ChannelAssumption DEF Empty, Packet, IsValid, NoAddress

LEMMA PacketFields ==
  ASSUME NEW p \in Packet
  PROVE  /\ p.address \in Addrs \cup {NoAddress} /\ p.to_return \in SUBSET Requests
         /\ p.scheduled \in BOOLEAN /\ p.forward_checked \in BOOLEAN /\ p.event_cycle \in Int
         /\ IsValid(p) <=> p.address \in Addrs
BY ChannelAssumption DEF Packet, IsValid, NoAddress

\* A packet with another schedule.
LEMMA RescheduledType ==
  ASSUME NEW p \in Packet
  PROVE  /\ \A e \in Int : [p EXCEPT !.event_cycle = e] \in Packet
         /\ [p EXCEPT !.scheduled = FALSE, !.event_cycle = 0] \in Packet
         /\ [p EXCEPT !.scheduled = TRUE, !.event_cycle = 0] \in Packet
<1> DEFINE t == [p EXCEPT !.event_cycle = 0]
<1>1. t \in Packet /\ \A e \in Int : [p EXCEPT !.event_cycle = e] \in Packet
  BY DEF Packet
<1>2. /\ [t EXCEPT !.scheduled = FALSE] = [p EXCEPT !.scheduled = FALSE, !.event_cycle = 0]
      /\ [t EXCEPT !.scheduled = TRUE] = [p EXCEPT !.scheduled = TRUE, !.event_cycle = 0]
  BY DEF Packet
<1> HIDE DEF t
<1>3. [t EXCEPT !.scheduled = FALSE] \in Packet /\ [t EXCEPT !.scheduled = TRUE] \in Packet
  BY <1>1 DEF Packet
<1> QED BY <1>1, <1>2, <1>3

LEMMA CollidedSlot ==
  ASSUME NEW k \in Nat, NEW q \in [1..k -> Packet], NEW n \in 1..k
  PROVE  /\ DOMAIN Collided(q) = 1..k
         /\ IsValid(q[n]) /\ Stays(q, n) =>
              /\ Collided(q)[n].address = q[n].address
              /\ Collided(q)[n].scheduled = q[n].scheduled
              /\ Collided(q)[n].forward_checked
              /\ Collided(q)[n].to_return = Waiters(q, n)
              /\ Collided(q)[n] \in Packet
         /\ ~(IsValid(q[n]) /\ Stays(q, n)) => Collided(q)[n] = Empty
<1>1. DOMAIN q = 1..k /\ q[n] \in Packet
  OBVIOUS
<1>2. Collided(q)[n] = IF IsValid(q[n]) /\ Stays(q, n)
                       THEN [q[n] EXCEPT !.forward_checked = TRUE, !.to_return = Waiters(q, n)]
                       ELSE Empty
  BY <1>1 DEF Collided, Occupied
<1>3. Waiters(q, n) \in SUBSET Requests
  <2>1. \A m \in SameBlock(q, n) : q[m].to_return \in SUBSET Requests
    BY PacketFields DEF SameBlock, SlotsFor
  <2> QED BY <2>1 DEF Waiters
<1> DEFINE W == Waiters(q, n)
           p == q[n]
           stays == Stays(q, n)
           kept == [p EXCEPT !.forward_checked = TRUE, !.to_return = W]
<1>4. /\ kept \in Packet /\ kept.address = p.address /\ kept.scheduled = p.scheduled
      /\ kept.forward_checked /\ kept.to_return = W
  <2> HIDE DEF p, W
  <2> QED BY <1>1, <1>3 DEF Packet, W, p
<1>5. DOMAIN Collided(q) = 1..k
  BY <1>1 DEF Collided
<1>6. Collided(q)[n] = IF IsValid(p) /\ stays THEN kept ELSE Empty
  BY <1>2
<1> HIDE DEF p, stays, kept, W
<1> QED BY <1>4, <1>5, <1>6 DEF p, stays, W

LEMMA CollidedType ==
  ASSUME NEW k \in Nat, NEW q \in [1..k -> Packet]
  PROVE  Collided(q) \in [1..k -> Packet] /\ Checked(Collided(q))
<1>1. \A n \in 1..k : /\ DOMAIN Collided(q) = 1..k
                      /\ Collided(q)[n] \in Packet
                      /\ IsValid(Collided(q)[n]) => Collided(q)[n].forward_checked
  BY CollidedSlot, EmptyType
<1>2. DOMAIN Collided(q) = DOMAIN q /\ DOMAIN q = 1..k
  BY DEF Collided
<1>3. Collided(q) = [n \in 1..k |-> Collided(q)[n]]
  BY <1>2 DEF Collided
<1> QED BY <1>1, <1>2, <1>3 DEF Checked

\* What is scheduled stays.
LEMMA CollidedLinked ==
  ASSUME NEW k \in Nat, NEW q \in [1..k -> Packet], NEW name, NEW banks,
         Linked(name, q, banks)
  PROVE  Linked(name, Collided(q), banks)
<1> DEFINE r == Collided(q)
<1>0. DOMAIN q = 1..k /\ DOMAIN r = 1..k
  BY CollidedType
<1>1. ASSUME NEW n \in 1..k, r[n].scheduled
      PROVE  q[n].scheduled /\ r[n].address = q[n].address /\ r[n].forward_checked
  BY <1>1, CollidedSlot, EmptyType
<1>2. ASSUME NEW n \in 1..k, q[n].scheduled
      PROVE  r[n].scheduled /\ r[n].address = q[n].address
  <2>1. IsValid(q[n]) /\ q[n].forward_checked
    BY <1>0, <1>2, PacketFields DEF Linked
  <2>2. Stays(q, n)
    BY <2>1 DEF Stays
  <2> QED BY <1>2, <2>1, <2>2, CollidedSlot
<1> HIDE DEF r
<1>3. \A n \in 1..k : r[n].scheduled =>
       /\ r[n].address \in Addrs /\ r[n].forward_checked
       /\ banks[BankOf[r[n].address]].pkt = <<name, n>>
  BY <1>0, <1>1 DEF Linked
<1>4. \A n \in 1..k, b \in Banks : banks[b].pkt = <<name, n>> =>
       r[n].scheduled /\ BankOf[r[n].address] = b
  BY <1>0, <1>2 DEF Linked
<1>5. Linked(name, r, banks)
  BY <1>0, <1>3, <1>4 DEF Linked
<1> QED BY <1>5 DEF r

\* One packet of a block stays.
LEMMA OneStays ==
  ASSUME NEW k \in Nat, NEW q \in [1..k -> Packet], Distinct(q)
  PROVE  /\ \A m, n \in 1..k :
              (/\ IsValid(q[m]) /\ q[m].address = q[n].address
               /\ Stays(q, m) /\ Stays(q, n)) => m = n
         /\ \A n \in 1..k : IsValid(q[n]) => \E m \in SameBlock(q, n) : Stays(q, m)
<1>0. DOMAIN q = 1..k
  OBVIOUS
<1>1. ASSUME NEW m \in 1..k, NEW n \in 1..k,
             IsValid(q[m]), q[m].address = q[n].address, Stays(q, m), Stays(q, n)
      PROVE  m = n
  <2>1. m \in SameBlock(q, n) /\ n \in SameBlock(q, m)
    BY <1>0, <1>1 DEF SameBlock, SlotsFor
  <2>2. CASE q[m].forward_checked /\ q[n].forward_checked
    BY <1>0, <1>1, <2>2 DEF Distinct
  <2>3. CASE ~q[m].forward_checked /\ ~q[n].forward_checked
    BY <1>1, <2>1, <2>3 DEF Stays
  <2>4. CASE q[m].forward_checked /\ ~q[n].forward_checked
    BY <1>1, <2>1, <2>4 DEF Stays
  <2>5. CASE ~q[m].forward_checked /\ q[n].forward_checked
    BY <1>1, <2>1, <2>5 DEF Stays
  <2> QED BY <2>2, <2>3, <2>4, <2>5
<1>2. ASSUME NEW n \in 1..k, IsValid(q[n])
      PROVE  \E m \in SameBlock(q, n) : Stays(q, m)
  <2> DEFINE T == SameBlock(q, n)
  <2>1. T \in SUBSET (1..k) /\ n \in T
    BY <1>0 DEF SameBlock, SlotsFor
  <2>2. \A m \in T : SameBlock(q, m) = T
    BY <1>0 DEF SameBlock, SlotsFor
  <2>3. CASE \E m \in T : q[m].forward_checked
    BY <2>3 DEF Stays
  <2>4. CASE \A m \in T : ~q[m].forward_checked
    <3>1. PICK m \in T : \A l \in T : l <= m
      <4> HIDE DEF T
      <4> QED BY <2>1, GreatestSlot
    <3> QED BY <2>2, <2>4, <3>1 DEF Stays
  <2> QED BY <2>3, <2>4
<1> QED BY <1>1, <1>2

LEMMA CollidedDistinct ==
  ASSUME NEW k \in Nat, NEW q \in [1..k -> Packet], Distinct(q)
  PROVE  Distinct(Collided(q))
<1> DEFINE r == Collided(q)
<1>0. DOMAIN r = 1..k
  BY CollidedType
<1>1. ASSUME NEW n \in 1..k, r[n].forward_checked
      PROVE  IsValid(q[n]) /\ Stays(q, n) /\ r[n].address = q[n].address
  BY <1>1, CollidedSlot, EmptyType
<1> HIDE DEF r
<1>2. ASSUME NEW m \in 1..k, NEW n \in 1..k, r[m].forward_checked, r[n].forward_checked,
             r[m].address = r[n].address
      PROVE  m = n
  BY <1>1, <1>2, OneStays
<1>3. Distinct(r)
  BY <1>0, <1>2 DEF Distinct
<1> QED BY <1>3 DEF r

\* Those who wait are taken over by the packet that stays.
LEMMA CollidedWaits ==
  ASSUME NEW k \in Nat, NEW q \in [1..k -> Packet], Distinct(q), NEW O, Waits(q, O)
  PROVE  Waits(Collided(q), O)
<1> DEFINE r == Collided(q)
<1>0. DOMAIN q = 1..k /\ DOMAIN r = 1..k
  BY CollidedType
<1>1. ASSUME NEW n \in 1..k, NEW x \in r[n].to_return
      PROVE  /\ IsValid(q[n]) /\ Stays(q, n) /\ IsValid(r[n])
             /\ \E m \in 1..k : q[m].address = q[n].address /\ x \in q[m].to_return
  <2>1. IsValid(q[n]) /\ Stays(q, n)
    BY <1>1, CollidedSlot, EmptyType
  <2>2. r[n].to_return = Waiters(q, n) /\ r[n].address = q[n].address
    BY <2>1, CollidedSlot
  <2>3. \E m \in SameBlock(q, n) : x \in q[m].to_return
    BY <1>1, <2>2 DEF Waiters
  <2> QED BY <1>0, <2>1, <2>2, <2>3 DEF SameBlock, SlotsFor, IsValid
<1>2. ASSUME NEW n \in 1..k, NEW x \in q[n].to_return
      PROVE  \E m \in 1..k : x \in r[m].to_return
  <2>1. IsValid(q[n])
    BY <1>0, <1>2 DEF Waits
  <2>2. PICK m \in SameBlock(q, n) : Stays(q, m)
    BY <2>1, OneStays
  <2>3. m \in 1..k /\ q[m].address = q[n].address /\ IsValid(q[m]) /\ n \in SameBlock(q, m)
    BY <1>0, <2>1 DEF SameBlock, SlotsFor, IsValid
  <2>4. r[m].to_return = Waiters(q, m)
    BY <2>2, <2>3, CollidedSlot
  <2>5. x \in Waiters(q, m)
    BY <1>2, <2>3 DEF Waiters
  <2> QED BY <2>3, <2>4, <2>5
<1> HIDE DEF r
<1>3. \A n \in 1..k : r[n].to_return \subseteq O
  BY <1>0, <1>1 DEF Waits
<1>4. \A n \in 1..k : r[n].to_return # {} => IsValid(r[n])
  BY <1>1
<1>5. \A x \in O : \E n \in 1..k : x \in r[n].to_return
  BY <1>0, <1>2 DEF Waits
<1>6. ASSUME NEW x \in O, NEW m \in 1..k, NEW n \in 1..k,
             x \in r[m].to_return, x \in r[n].to_return
      PROVE  m = n
  <2>1. PICK i \in 1..k : q[i].address = q[m].address /\ x \in q[i].to_return
    BY <1>1, <1>6
  <2>2. PICK j \in 1..k : q[j].address = q[n].address /\ x \in q[j].to_return
    BY <1>1, <1>6
  <2>3. i = j
    BY <1>0, <2>1, <2>2 DEF Waits
  <2> QED BY <1>1, <1>6, <2>1, <2>2, <2>3, OneStays
<1>7. Waits(r, O)
  BY <1>0, <1>3, <1>4, <1>5, <1>6 DEF Waits
<1> QED BY <1>7 DEF r

LEMMA CollidedNobody ==
  ASSUME NEW k \in Nat, NEW q \in [1..k -> Packet], NobodyWaits(q)
  PROVE  NobodyWaits(Collided(q))
<1> SUFFICES ASSUME NEW n \in 1..k
             PROVE  Collided(q)[n].to_return = {}
  BY CollidedType DEF NobodyWaits
<1>1. Waiters(q, n) = {}
  <2>1. \A m \in SameBlock(q, n) : q[m].to_return = {}
    BY DEF SameBlock, SlotsFor, NobodyWaits
  <2> QED BY <2>1 DEF Waiters
<1> QED BY <1>1, CollidedSlot, EmptyType

\* Slots that nothing refers to can be emptied.
Emptied(q, S) == [n \in DOMAIN q |-> IF n \in S THEN Empty ELSE q[n]]

LEMMA EmptiedKeeps ==
  ASSUME NEW k \in Nat, NEW q \in [1..k -> Packet], NEW S \in SUBSET (1..k), NEW O
  PROVE  /\ Emptied(q, S) \in [1..k -> Packet]
         /\ Distinct(q) => Distinct(Emptied(q, S))
         /\ Checked(q) => Checked(Emptied(q, S))
         /\ NobodyWaits(q) => NobodyWaits(Emptied(q, S))
         /\ Waits(q, O) => Waits(Emptied(q, S), O \ UNION {q[n].to_return : n \in S})
<1> DEFINE r == Emptied(q, S)
           gone == UNION {q[n].to_return : n \in S}
<1>1. DOMAIN q = 1..k /\ DOMAIN r = 1..k /\ r \in [1..k -> Packet]
  BY EmptyType DEF Emptied
<1>2. \A n \in 1..k : r[n] = IF n \in S THEN Empty ELSE q[n]
  BY DEF Emptied
<1> HIDE DEF r
<1>3. Distinct(q) => Distinct(r)
  BY <1>1, <1>2, EmptyType DEF Distinct
<1>4. Checked(q) => Checked(r)
  BY <1>1, <1>2, EmptyType DEF Checked
<1>5. NobodyWaits(q) => NobodyWaits(r)
  BY <1>1, <1>2, EmptyType DEF NobodyWaits
<1>6. ASSUME Waits(q, O)
      PROVE  Waits(r, O \ gone)
  <2>1. ASSUME NEW n \in 1..k, NEW x \in r[n].to_return
        PROVE  n \notin S /\ r[n] = q[n] /\ x \in O /\ x \notin gone /\ IsValid(r[n])
    <3>1. n \notin S /\ r[n] = q[n]
      BY <1>2, <2>1, EmptyType
    <3>2. x \in O /\ IsValid(q[n])
      BY <1>1, <1>6, <2>1, <3>1 DEF Waits
    <3>3. \A m \in S : x \notin q[m].to_return
      BY <1>1, <1>6, <2>1, <3>1, <3>2 DEF Waits
    <3> QED BY <3>1, <3>2, <3>3
  <2>2. \A n \in 1..k : r[n].to_return \subseteq O \ gone
    BY <2>1
  <2>3. \A n \in 1..k : r[n].to_return # {} => IsValid(r[n])
    BY <2>1
  <2>4. ASSUME NEW x \in O \ gone
        PROVE  \E n \in 1..k : x \in r[n].to_return
    <3>1. PICK n \in 1..k : x \in q[n].to_return
      BY <1>1, <1>6 DEF Waits
    <3>2. n \notin S
      BY <2>4, <3>1
    <3> QED BY <1>2, <3>1, <3>2
  <2>5. \A x \in O \ gone : \A m, n \in 1..k : x \in r[m].to_return /\ x \in r[n].to_return => m = n
    BY <1>1, <1>6, <2>1 DEF Waits
  <2> HIDE DEF gone
  <2> QED BY <1>1, <2>2, <2>3, <2>4, <2>5 DEF Waits
<1> QED BY <1>1, <1>3, <1>4, <1>5, <1>6 DEF r

\* No bank of new refers to a slot of S, and those that refer to others are as before.
LetGo(name, k, banks, new, S) ==
  \A b \in Banks : \/ new[b].pkt = banks[b].pkt /\ (\A n \in S : banks[b].pkt # <<name, n>>)
                   \/ /\ \A n \in 1..k : new[b].pkt # <<name, n>>
                      /\ \A n \in (1..k) \ S : banks[b].pkt # <<name, n>>

LEMMA EmptiedLinked ==
  ASSUME NEW k \in Nat, NEW q \in [1..k -> Packet], NEW S \in SUBSET (1..k), NEW name,
         NEW banks, NEW new, BankOf \in [Addrs -> Banks], Linked(name, q, banks),
         LetGo(name, k, banks, new, S)
  PROVE  Linked(name, Emptied(q, S), new)
<1> DEFINE r == Emptied(q, S)
<1>1. DOMAIN q = 1..k /\ DOMAIN r = 1..k
  BY DEF Emptied
<1>2. \A n \in 1..k : r[n] = IF n \in S THEN Empty ELSE q[n]
  BY DEF Emptied
<1> HIDE DEF r
<1>3. ASSUME NEW n \in 1..k, r[n].scheduled
      PROVE  /\ r[n].address \in Addrs /\ r[n].forward_checked
             /\ new[BankOf[r[n].address]].pkt = <<name, n>>
  <2>1. n \notin S /\ r[n] = q[n]
    BY <1>2, <1>3, EmptyType
  <2>2. /\ q[n].address \in Addrs /\ q[n].forward_checked
        /\ banks[BankOf[q[n].address]].pkt = <<name, n>>
    BY <1>1, <1>3, <2>1 DEF Linked
  <2>3. BankOf[q[n].address] \in Banks
    BY <2>2
  <2>4. new[BankOf[q[n].address]].pkt = banks[BankOf[q[n].address]].pkt
    BY <2>1, <2>2, <2>3 DEF LetGo
  <2> QED BY <2>1, <2>2, <2>4
<1>4. ASSUME NEW n \in 1..k, NEW b \in Banks, new[b].pkt = <<name, n>>
      PROVE  r[n].scheduled /\ BankOf[r[n].address] = b
  <2>1. banks[b].pkt = <<name, n>> /\ n \notin S
    BY <1>4 DEF LetGo
  <2> QED BY <1>1, <1>2, <2>1 DEF Linked
<1>5. Linked(name, r, new)
  BY <1>1, <1>3, <1>4 DEF Linked
<1> QED BY <1>5 DEF r

\* Scheduling and time leave alone who waits where.
SamePackets(q, r) ==
  /\ DOMAIN r = DOMAIN q
  /\ \A n \in DOMAIN q : /\ r[n].address = q[n].address /\ r[n].to_return = q[n].to_return
                         /\ r[n].forward_checked = q[n].forward_checked

LEMMA SamePacketsKeep ==
  ASSUME NEW q, NEW r, SamePackets(q, r), NEW O
  PROVE  /\ Distinct(q) => Distinct(r)
         /\ Checked(q) => Checked(r)
         /\ NobodyWaits(q) => NobodyWaits(r)
         /\ Waits(q, O) => Waits(r, O)
         /\ Occupied(r) = Occupied(q)
<1>1. Distinct(q) => Distinct(r)
  BY DEF SamePackets, Distinct, IsValid
<1>2. Checked(q) => Checked(r)
  BY DEF SamePackets, Checked, IsValid
<1>3. NobodyWaits(q) => NobodyWaits(r)
  BY DEF SamePackets, NobodyWaits
<1>4. Waits(q, O) => Waits(r, O)
  BY DEF SamePackets, Waits, IsValid
<1>5. Occupied(r) = Occupied(q)
  BY DEF SamePackets, Occupied, IsValid
<1> QED BY <1>1, <1>2, <1>3, <1>4, <1>5

\* A queue whose times only have changed.
LEMMA SameLinked ==
  ASSUME NEW q, NEW r, SamePackets(q, r), \A n \in DOMAIN q : r[n].scheduled = q[n].scheduled,
         NEW name, NEW banks, NEW new, \A b \in Banks : new[b].pkt = banks[b].pkt,
         BankOf \in [Addrs -> Banks], Linked(name, q, banks)
  PROVE  Linked(name, r, new)
<1>1. ASSUME NEW n \in DOMAIN q, r[n].scheduled
      PROVE  /\ r[n].address \in Addrs /\ r[n].forward_checked
             /\ new[BankOf[r[n].address]].pkt = <<name, n>>
  <2>1. q[n].scheduled
    BY <1>1
  <2>2. q[n].address \in Addrs /\ q[n].forward_checked
        /\ banks[BankOf[q[n].address]].pkt = <<name, n>>
    BY <2>1 DEF Linked
  <2>3. r[n].address = q[n].address /\ r[n].forward_checked = q[n].forward_checked
    BY DEF SamePackets
  <2>4. BankOf[q[n].address] \in Banks
    BY <2>2
  <2> QED BY <2>2, <2>3, <2>4
<1>2. ASSUME NEW n \in DOMAIN q, NEW b \in Banks, new[b].pkt = <<name, n>>
      PROVE  r[n].scheduled /\ BankOf[r[n].address] = b
  BY <1>2 DEF SamePackets, Linked
<1>3. DOMAIN r = DOMAIN q
  BY DEF SamePackets
<1> QED BY <1>1, <1>2, <1>3 DEF Linked

-----------------------------------------------------------------------------
(* The parts of operate.                                                   *)

LEMMA Sizes ==
  /\ RQ_SIZE \in Nat /\ WQ_SIZE \in Nat /\ BANKS \in Nat \ {0} /\ BankOf \in [Addrs -> Banks]
  /\ NoBank \notin Banks /\ Banks \subseteq Nat /\ IsFiniteSet(Banks)
  /\ NoPacket \notin Slots
<1>1. RQ_SIZE \in Nat /\ WQ_SIZE \in Nat /\ BANKS \in Nat \ {0} /\ BankOf \in [Addrs -> Banks]
  BY ChannelAssumption
<1>2. IsFiniteSet(Banks)
  BY <1>1, FS_Interval DEF Banks
<1> QED BY <1>1, <1>2 DEF Banks, NoBank, NoPacket, Slots

LEMMA ChannelFields ==
  ASSUME NEW c \in Channel
  PROVE  /\ c.RQ \in [1..RQ_SIZE -> Packet] /\ c.WQ \in [1..WQ_SIZE -> Packet]
         /\ c.bank_request \in [Banks -> BankRequest]
         /\ c.active_request \in Banks \cup {NoBank} /\ c.write_mode \in BOOLEAN
         /\ c.dbus_cycle_available \in Nat /\ c.answered \in SUBSET Requests
         /\ DOMAIN c.RQ = 1..RQ_SIZE /\ DOMAIN c.WQ = 1..WQ_SIZE
         /\ \A b \in Banks : /\ c.bank_request[b] \in BankRequest
                             /\ c.bank_request[b].pkt \in Slots \cup {NoPacket}
                             /\ c.bank_request[b].event_cycle \in Int
                             /\ c.bank_request[b].open_row \in Rows \cup {NoRow}
BY DEF Channel, BankRequest

\* The name and the position of a slot.
LEMMA SlotFields ==
  ASSUME NEW s \in Slots
  PROVE  /\ s = <<s[1], s[2]>>
         /\ \/ s[1] = "RQ" /\ s[2] \in 1..RQ_SIZE
            \/ s[1] = "WQ" /\ s[2] \in 1..WQ_SIZE
         /\ s # NoPacket
BY DEF Slots, NoPacket

LEMMA FreeType ==
  ASSUME NEW row \in Rows \cup {NoRow}
  PROVE  Free(row) \in BankRequest /\ Free(row).pkt = NoPacket
BY DEF Free, BankRequest

\* In warmup the queues are empty from Clear on.
Quiet(c) == warmup => Occupied(c.RQ) = {} /\ Occupied(c.WQ) = {}

LEMMA ClearKeeps ==
  ASSUME ChannelInv
  PROVE  Inv(Clear(channel)) /\ Quiet(Clear(channel))
<1> DEFINE c == channel
           d == Clear(c)
<1>1. c \in Channel /\ c.answered = {}
  BY DEF ChannelInv, Inv
<1>2. CASE ~warmup
  BY <1>2 DEF ChannelInv, Clear, Quiet
<1>3. CASE warmup
  <2> DEFINE U == UNION {c.RQ[n].to_return : n \in DOMAIN c.RQ}
             R == Emptied(c.RQ, 1..RQ_SIZE)
             W == Emptied(c.WQ, 1..WQ_SIZE)
             S == UNION {c.RQ[n].to_return : n \in 1..RQ_SIZE}
  <2>1. U \in SUBSET Requests /\ S = U
    <3>1. \A n \in DOMAIN c.RQ : c.RQ[n].to_return \in SUBSET Requests
      BY <1>1, ChannelFields, PacketFields
    <3>2. DOMAIN c.RQ = 1..RQ_SIZE
      BY <1>1, ChannelFields
    <3> QED BY <3>1, <3>2
  <2>2. d = [c EXCEPT !.answered = U, !.RQ = R, !.WQ = W]
    <3>1. /\ [n \in DOMAIN c.RQ |-> Empty] = R
          /\ [n \in DOMAIN c.WQ |-> Empty] = W
      BY <1>1, ChannelFields DEF Emptied
    <3> HIDE DEF U, R, W, c
    <3> QED BY <1>3, <3>1 DEF Clear, U
  <2>3. R \in [1..RQ_SIZE -> Packet] /\ W \in [1..WQ_SIZE -> Packet]
    BY <1>1, ChannelFields, Sizes, EmptiedKeeps
  <2>4. /\ d \in Channel /\ d.RQ = R /\ d.WQ = W /\ d.bank_request = c.bank_request
        /\ d.active_request = c.active_request /\ d.answered = U
    <3> HIDE DEF U, R, W, c, d
    <3> QED BY <1>1, <2>1, <2>2, <2>3 DEF Channel
  <2>5. \A b \in Banks : c.bank_request[b].pkt = NoPacket
    BY <1>3 DEF ChannelInv, Inv, Cold
  <2>6. /\ Linked("RQ", R, c.bank_request) /\ Linked("WQ", W, c.bank_request)
    <3>1. \A n : NoPacket # <<"RQ", n>> /\ NoPacket # <<"WQ", n>>
      BY DEF NoPacket
    <3>2. /\ c.RQ \in [1..RQ_SIZE -> Packet] /\ c.WQ \in [1..WQ_SIZE -> Packet]
          /\ Linked("RQ", c.RQ, c.bank_request) /\ Linked("WQ", c.WQ, c.bank_request)
      BY <1>1, ChannelFields DEF ChannelInv, Inv
    <3> HIDE DEF R, W, c
    <3>3. Linked("RQ", R, c.bank_request)
      BY <2>5, <3>1, <3>2, Sizes, EmptiedLinked DEF R, LetGo
    <3>4. Linked("WQ", W, c.bank_request)
      BY <2>5, <3>1, <3>2, Sizes, EmptiedLinked DEF W, LetGo
    <3> QED BY <3>3, <3>4
  <2>7. /\ Distinct(R) /\ Distinct(W) /\ NobodyWaits(W) /\ Waits(R, outstanding \ U)
    <3>1. /\ Distinct(c.RQ) /\ Distinct(c.WQ) /\ NobodyWaits(c.WQ) /\ Waits(c.RQ, outstanding)
      BY <1>1 DEF ChannelInv, Inv
    <3>2. c.RQ \in [1..RQ_SIZE -> Packet] /\ c.WQ \in [1..WQ_SIZE -> Packet]
      BY <1>1, ChannelFields
    <3> HIDE DEF U, c
    <3> QED BY <2>1, <3>1, <3>2, Sizes, EmptiedKeeps
  <2>8. Occupied(R) = {} /\ Occupied(W) = {}
    <3>1. DOMAIN c.RQ = 1..RQ_SIZE /\ DOMAIN c.WQ = 1..WQ_SIZE
      BY <1>1, ChannelFields
    <3> QED BY <3>1, EmptyType DEF Emptied, Occupied
  <2>9. BusHeld(d) /\ Cold(d)
    <3> HIDE DEF d
    <3> QED BY <2>4 DEF ChannelInv, Inv, BusHeld, Cold
  <2> HIDE DEF U, R, W, d, c
  <2> QED BY <2>4, <2>6, <2>7, <2>8, <2>9 DEF Inv, Quiet, d, c
<1> QED BY <1>2, <1>3

\* What the invariant says of the two queues, for c and for what c becomes.
LEMMA InvParts ==
  ASSUME NEW c, Inv(c)
  PROVE  /\ c \in Channel
         /\ c.RQ \in [1..RQ_SIZE -> Packet] /\ c.WQ \in [1..WQ_SIZE -> Packet]
         /\ Linked("RQ", c.RQ, c.bank_request) /\ Linked("WQ", c.WQ, c.bank_request)
         /\ BusHeld(c) /\ Cold(c)
         /\ Distinct(c.RQ) /\ Distinct(c.WQ)
         /\ Waits(c.RQ, outstanding \ c.answered) /\ NobodyWaits(c.WQ)
BY ChannelFields DEF Inv

LEMMA CheckCollisionKeeps ==
  ASSUME NEW c, Inv(c), Quiet(c)
  PROVE  LET d == CheckCollision(c)
         IN  Inv(d) /\ Quiet(d) /\ Checked(d.RQ) /\ Checked(d.WQ)
<1> DEFINE W == Collided(c.WQ)
           F == {n \in Occupied(c.RQ) : /\ ~c.RQ[n].forward_checked
                                        /\ SlotsFor(W, c.RQ[n].address) # {}}
           rest == Emptied(c.RQ, F)
           R == Collided(rest)
           served == UNION {c.RQ[n].to_return : n \in F}
           A == c.answered \cup served
           d == CheckCollision(c)
<1>1. /\ c \in Channel /\ DOMAIN c.RQ = 1..RQ_SIZE
      /\ c.RQ \in [1..RQ_SIZE -> Packet] /\ c.WQ \in [1..WQ_SIZE -> Packet]
  BY InvParts, ChannelFields
<1>2. F \in SUBSET (1..RQ_SIZE) /\ \A n \in F : ~c.RQ[n].forward_checked
  BY <1>1 DEF Occupied
<1>3. rest \in [1..RQ_SIZE -> Packet]
  BY <1>1, <1>2, Sizes, EmptiedKeeps
<1>4. R \in [1..RQ_SIZE -> Packet] /\ Checked(R) /\ W \in [1..WQ_SIZE -> Packet] /\ Checked(W)
  BY <1>1, <1>3, Sizes, CollidedType
<1>5. A \in SUBSET Requests
  <2>1. \A n \in F : c.RQ[n].to_return \in SUBSET Requests
    BY <1>1, <1>2, PacketFields
  <2>2. c.answered \in SUBSET Requests
    BY <1>1, ChannelFields
  <2> QED BY <2>1, <2>2
<1>6. d = [c EXCEPT !.WQ = W, !.RQ = R, !.answered = A]
  BY DEF CheckCollision, Emptied
<1>7. /\ d \in Channel /\ d.RQ = R /\ d.WQ = W /\ d.bank_request = c.bank_request
      /\ d.active_request = c.active_request /\ d.answered = A
  <2> HIDE DEF R, W, A, d
  <2> QED BY <1>1, <1>4, <1>5, <1>6 DEF Channel
<1>8. Linked("RQ", rest, c.bank_request)
  <2>1. \A b \in Banks, n \in F : c.bank_request[b].pkt # <<"RQ", n>>
    BY <1>1, <1>2, InvParts DEF Linked
  <2> HIDE DEF F
  <2> QED BY <1>1, <1>2, <2>1, InvParts, Sizes, EmptiedLinked DEF LetGo
<1>9. Linked("RQ", R, c.bank_request) /\ Linked("WQ", W, c.bank_request)
  <2> HIDE DEF rest
  <2> QED BY <1>1, <1>3, <1>8, InvParts, Sizes, CollidedLinked
<1>10. /\ Distinct(rest) /\ Waits(rest, (outstanding \ c.answered) \ served)
  <2> HIDE DEF F
  <2> QED BY <1>1, <1>2, InvParts, Sizes, EmptiedKeeps
<1>11. outstanding \ A = (outstanding \ c.answered) \ served
  OBVIOUS
<1>12. Distinct(R) /\ Distinct(W) /\ Waits(R, outstanding \ A) /\ NobodyWaits(W)
  <2> HIDE DEF rest, A, served
  <2> QED BY <1>1, <1>3, <1>10, <1>11, InvParts, Sizes, CollidedDistinct, CollidedWaits, CollidedNobody
<1>13. warmup => Occupied(R) = {} /\ Occupied(W) = {}
  <2> SUFFICES ASSUME warmup
               PROVE  Occupied(R) = {} /\ Occupied(W) = {}
    OBVIOUS
  <2>1. \A n \in 1..RQ_SIZE : ~IsValid(c.RQ[n])
    BY <1>1 DEF Quiet, Occupied
  <2>2. \A n \in 1..WQ_SIZE : ~IsValid(c.WQ[n])
    BY <1>1 DEF Quiet, Occupied
  <2>3. \A n \in 1..RQ_SIZE : ~IsValid(rest[n])
    BY <1>1, <2>1, EmptyType DEF Emptied
  <2> HIDE DEF rest
  <2>4. \A n \in 1..RQ_SIZE : R[n] = Empty
    BY <1>3, <2>3, Sizes, CollidedSlot
  <2>5. \A n \in 1..WQ_SIZE : W[n] = Empty
    BY <1>1, <2>2, Sizes, CollidedSlot
  <2> HIDE DEF R, W
  <2> QED BY <1>4, <2>4, <2>5, EmptyType DEF Occupied
<1>14. BusHeld(d) /\ Cold(d)
  <2> HIDE DEF d
  <2> QED BY <1>7, InvParts DEF BusHeld, Cold
<1> HIDE DEF R, W, A, d, rest, F
<1> QED BY <1>4, <1>7, <1>9, <1>12, <1>13, <1>14 DEF Inv, Quiet, d

\* After Finish the data bus is free or in use.
BusInUse(c) == c.active_request # NoBank => c.bank_request[c.active_request].event_cycle > 0

Settled(c) == Inv(c) /\ Quiet(c) /\ Checked(c.RQ) /\ Checked(c.WQ)

\* What bank a holds, is free, and no other bank holds it.
LEMMA HeldOnce ==
  ASSUME NEW c, Inv(c), NEW a \in Banks, NEW b \in Banks,
         c.bank_request[a].pkt # NoPacket, c.bank_request[b].pkt = c.bank_request[a].pkt
  PROVE  a = b
<1>1. c.bank_request[a].pkt \in Slots
  BY InvParts, ChannelFields
<1>2. DOMAIN c.RQ = 1..RQ_SIZE /\ DOMAIN c.WQ = 1..WQ_SIZE
  BY InvParts, ChannelFields
<1>3. CASE \E n \in 1..RQ_SIZE : c.bank_request[a].pkt = <<"RQ", n>>
  <2>1. PICK n \in 1..RQ_SIZE : c.bank_request[a].pkt = <<"RQ", n>>
    BY <1>3
  <2>2. Linked("RQ", c.RQ, c.bank_request)
    BY InvParts
  <2>3. BankOf[c.RQ[n].address] = a /\ BankOf[c.RQ[n].address] = b
    BY <1>2, <2>1, <2>2 DEF Linked
  <2> QED BY <2>3
<1>4. CASE \E n \in 1..WQ_SIZE : c.bank_request[a].pkt = <<"WQ", n>>
  <2>1. PICK n \in 1..WQ_SIZE : c.bank_request[a].pkt = <<"WQ", n>>
    BY <1>4
  <2>2. Linked("WQ", c.WQ, c.bank_request)
    BY InvParts
  <2>3. BankOf[c.WQ[n].address] = a /\ BankOf[c.WQ[n].address] = b
    BY <1>2, <2>1, <2>2 DEF Linked
  <2> QED BY <2>3
<1> QED BY <1>1, <1>3, <1>4 DEF Slots

\* A bank gives up its slot, which is emptied if it is in the queue of that name.
GivesUp(name, k, banks, new, a, S) ==
  /\ new[a].pkt = NoPacket
  /\ \A b \in Banks \ {a} : new[b].pkt = banks[b].pkt /\ banks[b].pkt # banks[a].pkt
  /\ \A n \in 1..k : n \in S <=> banks[a].pkt = <<name, n>>

LEMMA FreedLinked ==
  ASSUME NEW k \in Nat, NEW q \in [1..k -> Packet], NEW name, NEW banks, NEW new,
         BankOf \in [Addrs -> Banks], Linked(name, q, banks), name # "none",
         NEW a \in Banks, NEW S \in SUBSET (1..k), GivesUp(name, k, banks, new, a, S)
  PROVE  Linked(name, Emptied(q, S), new)
<1>1. LetGo(name, k, banks, new, S)
  <2>1. \A n : NoPacket # <<name, n>>
    BY DEF NoPacket
  <2>2. \A n \in S : banks[a].pkt = <<name, n>>
    BY DEF GivesUp
  <2>3. \A n \in (1..k) \ S : banks[a].pkt # <<name, n>>
    BY DEF GivesUp
  <2>4. \A n \in 1..k : new[a].pkt # <<name, n>>
    BY <2>1 DEF GivesUp
  <2>5. ASSUME NEW b \in Banks, b # a
        PROVE  new[b].pkt = banks[b].pkt /\ (\A n \in S : banks[b].pkt # <<name, n>>)
    BY <2>2, <2>5 DEF GivesUp
  <2> QED BY <2>3, <2>4, <2>5 DEF LetGo
<1> QED BY <1>1, EmptiedLinked

LEMMA FinishKeeps ==
  ASSUME NEW c, Settled(c)
  PROVE  Settled(Finish(c)) /\ BusInUse(Finish(c))
<1> DEFINE a == c.active_request
           active == c.bank_request[a]
           d == Finish(c)
<1>1. /\ c \in Channel /\ Inv(c) /\ Quiet(c) /\ Checked(c.RQ) /\ Checked(c.WQ)
      /\ c.RQ \in [1..RQ_SIZE -> Packet] /\ c.WQ \in [1..WQ_SIZE -> Packet]
      /\ DOMAIN c.RQ = 1..RQ_SIZE /\ DOMAIN c.WQ = 1..WQ_SIZE
  BY InvParts, ChannelFields DEF Settled
<1>2. CASE a = NoBank \/ active.event_cycle > 0
  <2>1. d = c
    BY <1>2 DEF Finish
  <2>2. BusInUse(c)
    BY <1>2 DEF BusInUse
  <2> HIDE DEF d
  <2> QED BY <2>1, <2>2 DEF d
<1>3. CASE a # NoBank /\ ~(active.event_cycle > 0)
  <2>1. a \in Banks /\ active.pkt \in Slots /\ active \in BankRequest
        /\ active.open_row \in Rows \cup {NoRow}
    BY <1>1, <1>3, ChannelFields, InvParts DEF BusHeld
  <2> DEFINE s == active.pkt
             free == Free(active.open_row)
             B == [c.bank_request EXCEPT ![a] = free]
  <2>2. s = <<s[1], s[2]>> /\ (\/ s[1] = "RQ" /\ s[2] \in 1..RQ_SIZE
                               \/ s[1] = "WQ" /\ s[2] \in 1..WQ_SIZE) /\ s # NoPacket
    BY <2>1, SlotFields
  <2>3. free \in BankRequest /\ free.pkt = NoPacket
    BY <2>1, FreeType
  <2>4. /\ B \in [Banks -> BankRequest] /\ B[a].pkt = NoPacket
        /\ \A b \in Banks \ {a} : B[b] = c.bank_request[b] /\ c.bank_request[b].pkt # s
    <3>1. \A b \in Banks \ {a} : c.bank_request[b].pkt # s
      BY <1>1, <2>1, <2>2, HeldOnce
    <3>2. c.bank_request \in [Banks -> BankRequest]
      BY <1>1, ChannelFields
    <3> HIDE DEF a, free
    <3> QED BY <2>1, <2>3, <3>1, <3>2
  <2> DEFINE SR == {n \in 1..RQ_SIZE : s = <<"RQ", n>>}
             SW == {n \in 1..WQ_SIZE : s = <<"WQ", n>>}
             R == Emptied(c.RQ, SR)
             W == Emptied(c.WQ, SW)
             served == UNION {c.RQ[n].to_return : n \in SR}
             A == c.answered \cup served
  <2>5. d = [c EXCEPT !.answered = A, !.bank_request = B, !.RQ = R, !.WQ = W,
                      !.active_request = NoBank]
    <3> DEFINE n == s[2]
    <3>1. CASE s[1] = "RQ" /\ n \in 1..RQ_SIZE
      <4>1. SR = {n} /\ SW = {}
        BY <2>2, <3>1
      <4>2. R = [c.RQ EXCEPT ![n] = Empty] /\ W = c.WQ /\ served = c.RQ[n].to_return
        <5> HIDE DEF SR, SW
        <5> QED BY <1>1, <4>1 DEF Emptied
      <4>3. d = [c EXCEPT !.answered = @ \cup c.RQ[n].to_return,
                          !.bank_request[a] = free, !.RQ[n] = Empty, !.active_request = NoBank]
        BY <1>3, <3>1 DEF Finish
      <4> HIDE DEF a, free, R, W, n, d, served
      <4> QED BY <1>1, <4>2, <4>3 DEF Channel
    <3>2. CASE s[1] = "WQ" /\ n \in 1..WQ_SIZE
      <4>1. SR = {} /\ SW = {n}
        BY <2>2, <3>2
      <4>2. W = [c.WQ EXCEPT ![n] = Empty] /\ R = c.RQ /\ served = {}
        <5> HIDE DEF SR, SW
        <5> QED BY <1>1, <4>1 DEF Emptied
      <4>3. c.WQ[n].to_return = {}
        BY <1>1, <3>2, InvParts DEF NobodyWaits
      <4>4. d = [c EXCEPT !.answered = @ \cup c.WQ[n].to_return,
                          !.bank_request[a] = free, !.WQ[n] = Empty, !.active_request = NoBank]
        BY <1>3, <3>2 DEF Finish
      <4> HIDE DEF a, free, R, W, n, d, served
      <4> QED BY <1>1, <4>2, <4>3, <4>4 DEF Channel
    <3> QED BY <2>2, <3>1, <3>2
  <2>6. SR \in SUBSET (1..RQ_SIZE) /\ SW \in SUBSET (1..WQ_SIZE)
    OBVIOUS
  <2>7. A \in SUBSET Requests
    <3>1. \A n \in SR : c.RQ[n].to_return \in SUBSET Requests
      BY <1>1, PacketFields
    <3>2. c.answered \in SUBSET Requests
      BY <1>1, ChannelFields
    <3> HIDE DEF SR
    <3> QED BY <3>1, <3>2
  <2>8. Linked("RQ", R, B) /\ Linked("WQ", W, B)
    <3> HIDE DEF B, a
    <3>1. \A b \in Banks \ {a} : /\ B[b].pkt = c.bank_request[b].pkt
                                 /\ c.bank_request[b].pkt # c.bank_request[a].pkt
      BY <2>4
    <3>2. Linked("RQ", R, B)
      <4>1. Linked("RQ", c.RQ, c.bank_request) /\ "RQ" # "none"
        BY <1>1, InvParts
      <4>2. a \in Banks /\ B[a].pkt = NoPacket
        BY <2>1, <2>4
      <4>3. \A n \in 1..RQ_SIZE : n \in SR <=> c.bank_request[a].pkt = <<"RQ", n>>
        OBVIOUS
      <4> HIDE DEF active, s, SR
      <4>4. GivesUp("RQ", RQ_SIZE, c.bank_request, B, a, SR)
        BY <3>1, <4>2, <4>3 DEF GivesUp
      <4> QED BY <1>1, <2>6, <4>1, <4>2, <4>4, Sizes, FreedLinked
    <3>3. Linked("WQ", W, B)
      <4>1. Linked("WQ", c.WQ, c.bank_request) /\ "WQ" # "none"
        BY <1>1, InvParts
      <4>2. a \in Banks /\ B[a].pkt = NoPacket
        BY <2>1, <2>4
      <4>3. \A n \in 1..WQ_SIZE : n \in SW <=> c.bank_request[a].pkt = <<"WQ", n>>
        OBVIOUS
      <4> HIDE DEF active, s, SW
      <4>4. GivesUp("WQ", WQ_SIZE, c.bank_request, B, a, SW)
        BY <3>1, <4>2, <4>3 DEF GivesUp
      <4> QED BY <1>1, <2>6, <4>1, <4>2, <4>4, Sizes, FreedLinked
    <3> QED BY <3>2, <3>3
  <2>9. /\ R \in [1..RQ_SIZE -> Packet] /\ W \in [1..WQ_SIZE -> Packet]
        /\ Distinct(R) /\ Distinct(W) /\ Checked(R) /\ Checked(W) /\ NobodyWaits(W)
        /\ Waits(R, (outstanding \ c.answered) \ served)
    <3> HIDE DEF SR, SW
    <3> QED BY <1>1, <2>6, Sizes, InvParts, EmptiedKeeps
  <2>10. outstanding \ A = (outstanding \ c.answered) \ served
    OBVIOUS
  <2>11. Occupied(R) \subseteq Occupied(c.RQ) /\ Occupied(W) \subseteq Occupied(c.WQ)
    BY <1>1, EmptyType DEF Emptied, Occupied
  <2> HIDE DEF A, R, W, B, d
  <2>12. /\ d \in Channel /\ d.RQ = R /\ d.WQ = W /\ d.bank_request = B
         /\ d.active_request = NoBank /\ d.answered = A
    BY <1>1, <2>4, <2>5, <2>7, <2>9 DEF Channel
  <2>13. Cold(d)
    <3>1. Cold(c)
      BY <1>1, InvParts
    <3> HIDE DEF free, a
    <3> QED BY <2>4, <2>12, <3>1 DEF Cold
  <2>14. Inv(d)
    BY <2>8, <2>9, <2>10, <2>12, <2>13 DEF Inv, BusHeld
  <2>15. Quiet(d) /\ BusInUse(d)
    BY <1>1, <2>11, <2>12 DEF Quiet, BusInUse
  <2> QED BY <2>9, <2>12, <2>14, <2>15 DEF Settled, d
<1> QED BY <1>2, <1>3

LEMMA UnscheduledType ==
  ASSUME NEW k \in Nat, NEW q \in [1..k -> Packet], NEW name, NEW packets
  PROVE  /\ Unscheduled(name, q, packets) \in [1..k -> Packet]
         /\ SamePackets(q, Unscheduled(name, q, packets))
         /\ \A n \in 1..k : Unscheduled(name, q, packets)[n].scheduled <=>
              q[n].scheduled /\ <<name, n>> \notin packets
<1> DEFINE r == Unscheduled(name, q, packets)
<1>1. DOMAIN q = 1..k /\ DOMAIN r = 1..k /\ r = [n \in 1..k |-> r[n]]
  BY DEF Unscheduled
<1>2. ASSUME NEW n \in 1..k
      PROVE  /\ r[n] \in Packet
             /\ r[n].address = q[n].address /\ r[n].to_return = q[n].to_return
             /\ r[n].forward_checked = q[n].forward_checked
             /\ r[n].scheduled <=> q[n].scheduled /\ <<name, n>> \notin packets
  <2> DEFINE p == q[n]
             reset == [p EXCEPT !.scheduled = FALSE, !.event_cycle = 0]
  <2>1. p \in Packet
    OBVIOUS
  <2>2. r[n] = IF <<name, n>> \in packets THEN reset ELSE p
    BY DEF Unscheduled
  <2> HIDE DEF p, r
  <2>3. /\ reset \in Packet /\ reset.address = p.address /\ reset.to_return = p.to_return
        /\ reset.forward_checked = p.forward_checked /\ ~reset.scheduled
    <3>1. reset \in Packet
      BY <2>1, RescheduledType, Zenon
    <3>2. /\ reset.address = p.address /\ reset.to_return = p.to_return
          /\ reset.forward_checked = p.forward_checked
      BY <2>1 DEF Packet
    <3>3. reset.scheduled = FALSE
      BY <2>1 DEF Packet
    <3> QED BY <3>1, <3>2, <3>3
  <2> HIDE DEF reset
  <2> QED BY <2>1, <2>2, <2>3 DEF p
<1> HIDE DEF r
<1>3. r \in [1..k -> Packet] /\ SamePackets(q, r)
  BY <1>1, <1>2 DEF SamePackets
<1> QED BY <1>2, <1>3 DEF r

\* The banks of gone give up their slots, packets.
Withdrawn(banks, new, gone, packets) ==
  /\ packets = {banks[b].pkt : b \in gone} /\ gone \subseteq Banks
  /\ \A b \in Banks : new[b].pkt = IF b \in gone THEN NoPacket ELSE banks[b].pkt

LEMMA UnscheduledLinked ==
  ASSUME NEW k \in Nat, NEW q \in [1..k -> Packet], NEW name, NEW banks, NEW new, NEW gone,
         NEW packets, Withdrawn(banks, new, gone, packets), name # "none",
         BankOf \in [Addrs -> Banks], Linked(name, q, banks)
  PROVE  Linked(name, Unscheduled(name, q, packets), new)
<1> DEFINE r == Unscheduled(name, q, packets)
<1>1. /\ DOMAIN q = 1..k /\ DOMAIN r = 1..k
      /\ \A n \in 1..k : /\ r[n].address = q[n].address
                         /\ r[n].forward_checked = q[n].forward_checked
                         /\ r[n].scheduled <=> q[n].scheduled /\ <<name, n>> \notin packets
  BY UnscheduledType DEF SamePackets
<1> HIDE DEF r
<1>2. ASSUME NEW n \in 1..k, r[n].scheduled
      PROVE  /\ r[n].address \in Addrs /\ r[n].forward_checked
             /\ new[BankOf[r[n].address]].pkt = <<name, n>>
  <2>1. /\ q[n].address \in Addrs /\ q[n].forward_checked /\ <<name, n>> \notin packets
        /\ banks[BankOf[q[n].address]].pkt = <<name, n>>
    BY <1>1, <1>2 DEF Linked
  <2>2. BankOf[q[n].address] \in Banks
    BY <2>1
  <2>3. BankOf[q[n].address] \notin gone
    BY <2>1 DEF Withdrawn
  <2> QED BY <1>1, <2>1, <2>2, <2>3 DEF Withdrawn
<1>3. ASSUME NEW n \in 1..k, NEW b \in Banks, new[b].pkt = <<name, n>>
      PROVE  r[n].scheduled /\ BankOf[r[n].address] = b
  <2>1. b \notin gone /\ banks[b].pkt = <<name, n>>
    BY <1>3 DEF Withdrawn, NoPacket
  <2>2. q[n].scheduled /\ BankOf[q[n].address] = b
    BY <1>1, <2>1 DEF Linked
  <2>3. \A x \in gone : banks[x].pkt # <<name, n>>
    BY <1>1, <2>1, <2>2 DEF Linked, Withdrawn
  <2>4. <<name, n>> \notin packets
    BY <2>3 DEF Withdrawn
  <2> QED BY <1>1, <2>2, <2>4
<1>4. Linked(name, r, new)
  BY <1>1, <1>2, <1>3 DEF Linked
<1> QED BY <1>4 DEF r

LEMMA SwitchModeKeeps ==
  ASSUME NEW c, Settled(c), BusInUse(c)
  PROVE  Settled(SwitchMode(c))
<1> DEFINE d == SwitchMode(c)
           gone == ScheduledBanks(c)
           packets == {c.bank_request[b].pkt : b \in gone}
           reset(r) == Free(IF r.event_cycle < tCAS THEN NoRow ELSE r.open_row)
           B == [b \in Banks |-> IF b \in gone THEN reset(c.bank_request[b])
                                              ELSE c.bank_request[b]]
           R == Unscheduled("RQ", c.RQ, packets)
           W == Unscheduled("WQ", c.WQ, packets)
           busy == IF c.active_request = NoBank THEN 0
                   ELSE c.bank_request[c.active_request].event_cycle
           wait == busy + TURN_AROUND_TIME
<1>1. /\ c \in Channel /\ Inv(c) /\ Quiet(c) /\ Checked(c.RQ) /\ Checked(c.WQ)
      /\ c.RQ \in [1..RQ_SIZE -> Packet] /\ c.WQ \in [1..WQ_SIZE -> Packet]
  BY InvParts, ChannelFields DEF Settled
<1>2. CASE ~Unbalanced(c)
  BY <1>2 DEF SwitchMode
<1>3. CASE Unbalanced(c)
  <2>1. d = [c EXCEPT !.bank_request = B, !.RQ = R, !.WQ = W,
                      !.dbus_cycle_available = wait, !.write_mode = ~c.write_mode]
    <3> HIDE DEF R, W, wait, gone
    <3> QED BY <1>3 DEF SwitchMode, R, W, wait, gone
  <2>2. wait \in Nat
    <3>1. busy \in Nat
      <4>1. CASE c.active_request = NoBank
        BY <4>1
      <4>2. CASE c.active_request # NoBank
        <5>1. c.bank_request[c.active_request].event_cycle \in Int
          BY <1>1, <4>2, ChannelFields
        <5> QED BY <4>2, <5>1 DEF BusInUse
      <4> QED BY <4>1, <4>2
    <3>2. TURN_AROUND_TIME \in Nat
      BY ChannelAssumption
    <3> HIDE DEF busy
    <3> QED BY <3>1, <3>2
  <2>3. gone \subseteq Banks /\ c.active_request \notin gone
    BY DEF ScheduledBanks
  <2>4. ASSUME NEW b \in Banks
        PROVE  /\ B[b] \in BankRequest
               /\ B[b].pkt = IF b \in gone THEN NoPacket ELSE c.bank_request[b].pkt
    <3>1. /\ c.bank_request[b] \in BankRequest
          /\ c.bank_request[b].open_row \in Rows \cup {NoRow}
      BY <1>1, ChannelFields
    <3>2. reset(c.bank_request[b]) \in BankRequest /\ reset(c.bank_request[b]).pkt = NoPacket
      BY <3>1, FreeType
    <3> HIDE DEF gone, reset
    <3> QED BY <3>1, <3>2
  <2>5. B \in [Banks -> BankRequest]
    <3> HIDE DEF reset, gone
    <3> QED BY <2>4
  <2> HIDE DEF B, wait
  <2>6. Withdrawn(c.bank_request, B, gone, packets)
    <3> HIDE DEF gone
    <3> QED BY <2>3, <2>4 DEF Withdrawn
  <2> HIDE DEF gone, packets
  <2>7. /\ R \in [1..RQ_SIZE -> Packet] /\ SamePackets(c.RQ, R)
        /\ W \in [1..WQ_SIZE -> Packet] /\ SamePackets(c.WQ, W)
    BY <1>1, Sizes, UnscheduledType
  <2>8. Linked("RQ", R, B) /\ Linked("WQ", W, B)
    <3>1. Linked("RQ", c.RQ, c.bank_request) /\ "RQ" # "none"
      BY <1>1, InvParts
    <3>2. Linked("WQ", c.WQ, c.bank_request) /\ "WQ" # "none"
      BY <1>1, InvParts
    <3>3. Linked("RQ", R, B)
      BY <1>1, <2>6, <3>1, Sizes, UnscheduledLinked
    <3>4. Linked("WQ", W, B)
      BY <1>1, <2>6, <3>2, Sizes, UnscheduledLinked
    <3> QED BY <3>3, <3>4
  <2> HIDE DEF R, W
  <2>9. /\ Distinct(R) /\ Distinct(W) /\ Checked(R) /\ Checked(W) /\ NobodyWaits(W)
        /\ Waits(R, outstanding \ c.answered)
        /\ Occupied(R) = Occupied(c.RQ) /\ Occupied(W) = Occupied(c.WQ)
    BY <1>1, <2>7, InvParts, SamePacketsKeep
  <2> HIDE DEF d
  <2>10. /\ d \in Channel /\ d.RQ = R /\ d.WQ = W /\ d.bank_request = B
         /\ d.active_request = c.active_request /\ d.answered = c.answered
    BY <1>1, <2>1, <2>2, <2>5, <2>7 DEF Channel
  <2>11. BusHeld(d) /\ Cold(d)
    <3>1. BusHeld(c) /\ Cold(c) /\ c.active_request \in Banks \cup {NoBank}
      BY <1>1, InvParts, ChannelFields
    <3> QED BY <2>3, <2>4, <2>10, <3>1 DEF BusHeld, Cold
  <2>12. Inv(d) /\ Quiet(d)
    BY <1>1, <2>8, <2>9, <2>10, <2>11 DEF Inv, Quiet
  <2> QED BY <2>9, <2>10, <2>12 DEF Settled, d
<1> QED BY <1>2, <1>3

LEMMA PutOnBusKeeps ==
  ASSUME NEW c, Settled(c)
  PROVE  Settled(PutOnBus(c))
<1> DEFINE valid == {b \in Banks : c.bank_request[b].pkt # NoPacket}
           next == Earliest(valid, c.bank_request)
           ready == /\ valid # {} /\ c.bank_request[next].event_cycle <= 0
                    /\ c.active_request = NoBank /\ c.dbus_cycle_available <= 0
           d == PutOnBus(c)
<1>1. /\ c \in Channel /\ Inv(c) /\ Quiet(c) /\ Checked(c.RQ) /\ Checked(c.WQ)
      /\ c.bank_request \in [Banks -> BankRequest]
  BY InvParts, ChannelFields DEF Settled
<1>2. CASE ~ready
  BY <1>2 DEF PutOnBus
<1>3. CASE ready
  <2>1. next \in valid
    <3>1. valid \in SUBSET Nat /\ IsFiniteSet(valid) /\ valid # {}
      BY <1>3, Sizes, FS_Subset
    <3>2. \A b \in valid : c.bank_request[b].event_cycle \in Int
      BY <1>1, ChannelFields
    <3> HIDE DEF valid
    <3> QED BY <3>1, <3>2, EarliestIsOne
  <2> DEFINE B == [c.bank_request EXCEPT ![next].event_cycle = RETURN_TIME]
  <2>2. d = [c EXCEPT !.active_request = next, !.bank_request = B]
    <3>1. d = [c EXCEPT !.active_request = next,
                        !.bank_request[next].event_cycle = RETURN_TIME]
      BY <1>3 DEF PutOnBus
    <3> HIDE DEF next, d
    <3> QED BY <1>1, <3>1 DEF Channel
  <2>3. next \in Banks /\ c.bank_request[next].pkt # NoPacket
    BY <2>1
  <2> HIDE DEF next
  <2>4. /\ B \in [Banks -> BankRequest]
        /\ \A b \in Banks : B[b].pkt = c.bank_request[b].pkt
    <3>1. RETURN_TIME \in Int
      BY ChannelAssumption
    <3> QED BY <1>1, <2>3, <3>1 DEF BankRequest
  <2> HIDE DEF B, d
  <2>5. /\ d \in Channel /\ d.RQ = c.RQ /\ d.WQ = c.WQ /\ d.bank_request = B
        /\ d.active_request = next /\ d.answered = c.answered
    BY <1>1, <2>2, <2>3, <2>4 DEF Channel
  <2>6. Linked("RQ", c.RQ, B) /\ Linked("WQ", c.WQ, B)
    <3>1. SamePackets(c.RQ, c.RQ) /\ SamePackets(c.WQ, c.WQ)
      BY DEF SamePackets
    <3> QED BY <1>1, <2>4, <3>1, InvParts, Sizes, SameLinked
  <2>7. BusHeld(d) /\ Cold(d)
    <3>1. Cold(c)
      BY <1>1, InvParts
    <3> QED BY <2>3, <2>4, <2>5, <3>1 DEF BusHeld, Cold
  <2>8. Inv(d) /\ Quiet(d)
    BY <1>1, <2>5, <2>6, <2>7, InvParts DEF Inv, Quiet
  <2> QED BY <1>1, <2>5, <2>8 DEF Settled, d
<1> QED BY <1>2, <1>3

\* In r packet x is scheduled, and the others are as in q.
Joins(k, q, r, x) ==
  /\ q[x].forward_checked /\ ~q[x].scheduled /\ r[x].scheduled
  /\ \A n \in (1..k) \ {x} : r[n].scheduled = q[n].scheduled

\* Bank home was free and refers to slot s.
Takes(banks, new, home, s) ==
  /\ banks[home].pkt = NoPacket /\ new[home].pkt = s
  /\ \A b \in Banks \ {home} : new[b].pkt = banks[b].pkt

LEMMA ScheduledLinked ==
  ASSUME NEW k \in Nat, NEW q \in [1..k -> Packet], NEW name, NEW banks, NEW new,
         BankOf \in [Addrs -> Banks], Linked(name, q, banks), name # "none",
         NEW x \in 1..k, q[x].address \in Addrs,
         NEW r, SamePackets(q, r), Joins(k, q, r, x),
         NEW home, home = BankOf[q[x].address], Takes(banks, new, home, <<name, x>>)
  PROVE  Linked(name, r, new)
<1>1. /\ DOMAIN q = 1..k /\ DOMAIN r = 1..k /\ home \in Banks
      /\ \A n \in 1..k : /\ r[n].address = q[n].address
                         /\ r[n].forward_checked = q[n].forward_checked
  BY DEF SamePackets
<1>0. /\ q[x].forward_checked /\ ~q[x].scheduled /\ r[x].scheduled
      /\ \A n \in (1..k) \ {x} : r[n].scheduled = q[n].scheduled
      /\ banks[home].pkt = NoPacket /\ new[home].pkt = <<name, x>>
      /\ \A b \in Banks \ {home} : new[b].pkt = banks[b].pkt
  BY DEF Joins, Takes
<1>2. \A n : NoPacket # <<name, n>>
  BY DEF NoPacket
<1>3. ASSUME NEW n \in 1..k, r[n].scheduled
      PROVE  /\ r[n].address \in Addrs /\ r[n].forward_checked
             /\ new[BankOf[r[n].address]].pkt = <<name, n>>
  <2>1. CASE n = x
    BY <1>0, <1>1, <2>1
  <2>2. CASE n # x
    <3>1. /\ q[n].address \in Addrs /\ q[n].forward_checked
          /\ banks[BankOf[q[n].address]].pkt = <<name, n>>
      BY <1>0, <1>1, <1>3, <2>2 DEF Linked
    <3>2. BankOf[q[n].address] \in Banks \ {home}
      BY <1>0, <1>2, <3>1
    <3> QED BY <1>0, <1>1, <3>1, <3>2
  <2> QED BY <2>1, <2>2
<1>4. ASSUME NEW n \in 1..k, NEW b \in Banks, new[b].pkt = <<name, n>>
      PROVE  r[n].scheduled /\ BankOf[r[n].address] = b
  <2>1. CASE b = home
    <3>1. <<name, n>> = <<name, x>>
      BY <1>0, <1>4, <2>1
    <3>2. n = x
      BY <3>1
    <3> QED BY <1>0, <1>1, <2>1, <3>2
  <2>2. CASE b # home
    <3>1. banks[b].pkt = <<name, n>>
      BY <1>0, <1>4, <2>2
    <3>2. q[n].scheduled /\ BankOf[q[n].address] = b
      BY <1>1, <3>1 DEF Linked
    <3>3. n # x
      BY <1>0, <3>2
    <3> QED BY <1>0, <1>1, <3>2, <3>3
  <2> QED BY <2>1, <2>2
<1> QED BY <1>1, <1>3, <1>4 DEF Linked

\* The other queue is left alone.
LEMMA OtherLinked ==
  ASSUME NEW k \in Nat, NEW q \in [1..k -> Packet], NEW name, NEW banks, NEW new,
         BankOf \in [Addrs -> Banks], Linked(name, q, banks), name # "none",
         NEW home \in Banks, NEW other, NEW x, Takes(banks, new, home, <<other, x>>),
         other # name
  PROVE  Linked(name, q, new)
<1>1. DOMAIN q = 1..k /\ (\A n : NoPacket # <<name, n>> /\ <<other, x>> # <<name, n>>)
  BY DEF NoPacket
<1>2. ASSUME NEW n \in 1..k, q[n].scheduled
      PROVE  new[BankOf[q[n].address]].pkt = <<name, n>>
  <2>1. q[n].address \in Addrs /\ banks[BankOf[q[n].address]].pkt = <<name, n>>
    BY <1>1, <1>2 DEF Linked
  <2>2. BankOf[q[n].address] \in Banks \ {home}
    BY <1>1, <2>1 DEF Takes
  <2> QED BY <2>1, <2>2 DEF Takes
<1>3. ASSUME NEW n \in 1..k, NEW b \in Banks, new[b].pkt = <<name, n>>
      PROVE  banks[b].pkt = <<name, n>>
  BY <1>1, <1>3 DEF Takes
<1> QED BY <1>1, <1>2, <1>3 DEF Linked

\* What Schedule makes of the queue of the mode, k long.
LEMMA ScheduledSlot ==
  ASSUME NEW k \in Nat, NEW q \in [1..k -> Packet], Checked(q),
         NEW x \in Occupied(q), ~q[x].scheduled,
         NEW p, p = [q[x] EXCEPT !.scheduled = TRUE, !.event_cycle = 0],
         NEW r, r = [q EXCEPT ![x] = p]
  PROVE  /\ x \in 1..k /\ r \in [1..k -> Packet] /\ SamePackets(q, r)
         /\ q[x].address \in Addrs /\ Joins(k, q, r, x)
<1>1. /\ x \in 1..k /\ q[x] \in Packet /\ q[x].address \in Addrs /\ q[x].forward_checked
      /\ ~q[x].scheduled
  BY PacketFields DEF Occupied, Checked
<1>2. p \in Packet
  BY <1>1, RescheduledType, Zenon
<1>3. /\ p.address = q[x].address /\ p.to_return = q[x].to_return
      /\ p.forward_checked = q[x].forward_checked /\ p.scheduled = TRUE
  BY <1>1 DEF Packet
<1>4. /\ r \in [1..k -> Packet] /\ r[x] = p /\ \A n \in (1..k) \ {x} : r[n] = q[n]
  <2>1. r = [q EXCEPT ![x] = p]
    OBVIOUS
  <2> QED BY <1>1, <1>2, <2>1
<1>5. DOMAIN q = 1..k /\ DOMAIN r = 1..k
  BY <1>4
<1>6. SamePackets(q, r)
  BY <1>3, <1>4, <1>5 DEF SamePackets
<1> QED BY <1>1, <1>3, <1>4, <1>6 DEF Joins

LEMMA ScheduleKeeps ==
  ASSUME NEW c, Settled(c)
  PROVE  Inv(Schedule(c))
<1> DEFINE name == IF c.write_mode THEN "WQ" ELSE "RQ"
           q == c[name]
           waiting == {n \in Occupied(q) : ~q[n].scheduled}
           next == Earliest(waiting, q)
           bank == BankOf[q[next].address]
           row == RowOf[q[next].address]
           idle == waiting = {} \/ c.bank_request[bank].pkt # NoPacket
           d == Schedule(c)
<1>1. /\ c \in Channel /\ Inv(c) /\ Quiet(c) /\ Checked(c.RQ) /\ Checked(c.WQ)
      /\ c.RQ \in [1..RQ_SIZE -> Packet] /\ c.WQ \in [1..WQ_SIZE -> Packet]
      /\ c.bank_request \in [Banks -> BankRequest]
      /\ Linked("RQ", c.RQ, c.bank_request) /\ Linked("WQ", c.WQ, c.bank_request)
  BY InvParts, ChannelFields DEF Settled
<1>2. CASE idle
  BY <1>1, <1>2 DEF Schedule
<1>3. CASE ~idle
  <2>1. PICK k \in Nat : q \in [1..k -> Packet] /\ Checked(q)
    BY <1>1, Sizes
  <2>2. next \in waiting
    <3>1. waiting \in SUBSET Nat /\ IsFiniteSet(waiting) /\ waiting # {}
      <4>1. waiting \in SUBSET (1..k)
        BY <2>1 DEF Occupied
      <4>2. IsFiniteSet(1..k)
        BY <2>1, FS_Interval
      <4>3. waiting # {}
        BY <1>3
      <4> HIDE DEF waiting
      <4>4. IsFiniteSet(waiting)
        BY <4>1, <4>2, FS_Subset
      <4>5. 1..k \in SUBSET Nat
        BY <2>1
      <4> HIDE DEF q
      <4> QED BY <4>1, <4>3, <4>4, <4>5
    <3>2. \A n \in waiting : q[n].event_cycle \in Int
      BY <2>1, PacketFields DEF Occupied
    <3> HIDE DEF waiting, q
    <3> QED BY <3>1, <3>2, EarliestIsOne
  <2> DEFINE p == [q[next] EXCEPT !.scheduled = TRUE, !.event_cycle = 0]
             r == [q EXCEPT ![next] = p]
             cycle == tCAS + (IF c.bank_request[bank].open_row = row THEN 0 ELSE tRP_RCD)
             request == [pkt |-> <<name, next>>, open_row |-> row, event_cycle |-> cycle]
             B == [c.bank_request EXCEPT ![bank] = request]
  <2>3. d = [c EXCEPT ![name][next] = [@ EXCEPT !.scheduled = TRUE, !.event_cycle = 0],
                      !.bank_request[bank] = request]
    BY <1>3 DEF Schedule
  <2>4. /\ next \in 1..k /\ r \in [1..k -> Packet] /\ SamePackets(q, r)
        /\ q[next].address \in Addrs /\ Joins(k, q, r, next)
    <3>1. next \in Occupied(q) /\ ~q[next].scheduled
      BY <2>2
    <3> HIDE DEF next, q, waiting
    <3> QED BY <2>1, <3>1, ScheduledSlot
  <2>5. bank \in Banks /\ row \in Rows /\ cycle \in Int
    <3>1. tCAS \in Int /\ tRP_RCD \in Int
      BY ChannelAssumption
    <3> HIDE DEF next, q
    <3> QED BY <2>4, <3>1, Sizes DEF Rows
  <2>6. c.bank_request[bank].pkt = NoPacket
    BY <1>3
  <2>7. <<name, next>> \in Slots
    <3>1. DOMAIN c.RQ = 1..RQ_SIZE /\ DOMAIN c.WQ = 1..WQ_SIZE /\ DOMAIN q = 1..k
      BY <1>1, <2>1
    <3>2. (name = "RQ" /\ next \in 1..RQ_SIZE) \/ (name = "WQ" /\ next \in 1..WQ_SIZE)
      <4> HIDE DEF next
      <4> QED BY <2>4, <3>1
    <3> HIDE DEF next, name
    <3> QED BY <3>2 DEF Slots
  <2>8. /\ B \in [Banks -> BankRequest] /\ B[bank].pkt = <<name, next>>
        /\ \A b \in Banks \ {bank} : B[b] = c.bank_request[b]
    <3> HIDE DEF bank, row, cycle, next, name
    <3>1. request \in BankRequest
      BY <2>5, <2>7 DEF BankRequest
    <3> QED BY <1>1, <2>5, <3>1
  <2>9. Linked(name, r, B)
    <3>1. Linked(name, q, c.bank_request) /\ name # "none"
      BY <1>1
    <3>2. Takes(c.bank_request, B, bank, <<name, next>>) /\ bank = BankOf[q[next].address]
      <4> HIDE DEF q, next, name, B
      <4> QED BY <2>6, <2>8 DEF Takes
    <3> HIDE DEF q, next, name, B, r, bank
    <3> QED BY <2>1, <2>4, <3>1, <3>2, Sizes, ScheduledLinked
  <2> DEFINE other == IF c.write_mode THEN "RQ" ELSE "WQ"
  <2>10. Linked(other, c[other], B)
    <3>1. Takes(c.bank_request, B, bank, <<name, next>>)
      <4> HIDE DEF q, next, name, B, bank
      <4> QED BY <2>6, <2>8 DEF Takes
    <3>2. PICK l \in Nat : c[other] \in [1..l -> Packet]
      BY <1>1, Sizes
    <3>3. Linked(other, c[other], c.bank_request) /\ other # "none" /\ name # other
      BY <1>1
    <3> HIDE DEF next, name, other, B, bank
    <3> QED BY <2>5, <3>1, <3>2, <3>3, Sizes, OtherLinked
  <2> DEFINE R == IF c.write_mode THEN c.RQ ELSE r
             W == IF c.write_mode THEN r ELSE c.WQ
  <2>11. d = [c EXCEPT !.RQ = R, !.WQ = W, !.bank_request = B]
    <3>1. CASE c.write_mode
      <4>1. d = [c EXCEPT !.WQ[next] = [@ EXCEPT !.scheduled = TRUE, !.event_cycle = 0],
                          !.bank_request[bank] = request]
        BY <2>3, <3>1
      <4>2. R = c.RQ /\ W = [c.WQ EXCEPT ![next] = [@ EXCEPT !.scheduled = TRUE, !.event_cycle = 0]]
        BY <3>1
      <4> HIDE DEF next, bank, request, name, R, W, d
      <4> QED BY <1>1, <4>1, <4>2 DEF Channel
    <3>2. CASE ~c.write_mode
      <4>1. d = [c EXCEPT !.RQ[next] = [@ EXCEPT !.scheduled = TRUE, !.event_cycle = 0],
                          !.bank_request[bank] = request]
        BY <2>3, <3>2
      <4>2. W = c.WQ /\ R = [c.RQ EXCEPT ![next] = [@ EXCEPT !.scheduled = TRUE, !.event_cycle = 0]]
        BY <3>2
      <4> HIDE DEF next, bank, request, name, R, W, d
      <4> QED BY <1>1, <4>1, <4>2 DEF Channel
    <3> QED BY <3>1, <3>2
  <2>12. Linked("RQ", R, B) /\ Linked("WQ", W, B) /\ SamePackets(c.RQ, R) /\ SamePackets(c.WQ, W)
         /\ R \in [1..RQ_SIZE -> Packet] /\ W \in [1..WQ_SIZE -> Packet]
    <3>0. DOMAIN c.RQ = 1..RQ_SIZE /\ DOMAIN c.WQ = 1..WQ_SIZE /\ DOMAIN q = 1..k
          /\ SamePackets(c.RQ, c.RQ) /\ SamePackets(c.WQ, c.WQ)
      BY <1>1, <2>1 DEF SamePackets
    <3>1. CASE c.write_mode
      <4>1. q = c.WQ /\ R = c.RQ /\ W = r /\ name = "WQ" /\ other = "RQ" /\ c[other] = c.RQ
        BY <3>1
      <4> HIDE DEF q, R, W, r, name, other, B
      <4> QED BY <1>1, <2>4, <2>9, <2>10, <3>0, <4>1
    <3>2. CASE ~c.write_mode
      <4>1. q = c.RQ /\ W = c.WQ /\ R = r /\ name = "RQ" /\ other = "WQ" /\ c[other] = c.WQ
        BY <3>2
      <4> HIDE DEF q, R, W, r, name, other, B
      <4> QED BY <1>1, <2>4, <2>9, <2>10, <3>0, <4>1
    <3> QED BY <3>1, <3>2
  <2>13. ~warmup
    BY <1>1, <2>2 DEF Quiet
  <2> HIDE DEF R, W, B, d, bank, name, next
  <2>14. /\ Distinct(R) /\ Distinct(W) /\ NobodyWaits(W) /\ Waits(R, outstanding \ c.answered)
    BY <1>1, <2>12, InvParts, SamePacketsKeep
  <2>15. /\ d \in Channel /\ d.RQ = R /\ d.WQ = W /\ d.bank_request = B
         /\ d.active_request = c.active_request /\ d.answered = c.answered
    BY <1>1, <2>8, <2>11, <2>12 DEF Channel
  <2>16. BusHeld(d)
    <3>1. BusHeld(c) /\ c.active_request \in Banks \cup {NoBank}
      BY <1>1, InvParts, ChannelFields
    <3>2. <<name, next>> # NoPacket
      BY <2>7, Sizes
    <3> QED BY <2>8, <2>15, <3>1, <3>2 DEF BusHeld
  <2> QED BY <2>12, <2>13, <2>14, <2>15, <2>16 DEF Inv, Cold, d
<1> QED BY <1>2, <1>3

\* The next cycle changes the event cycles alone.
LEMMA ImageCount ==
  ASSUME NEW S, IsFiniteSet(S), NEW q
  PROVE  Cardinality({q[m].event_cycle : m \in S}) \in Nat
<1> DEFINE T == {q[m].event_cycle : m \in S}
           f == [m \in S |-> q[m].event_cycle]
<1>1. f \in Surjection(S, T)
  <2>1. f \in [S -> T] /\ \A t \in T : \E m \in S : f[m] = t
    OBVIOUS
  <2> HIDE DEF f, T
  <2> QED BY <2>1 DEF Surjection
<1>2. IsFiniteSet(T)
  <2> HIDE DEF f, T
  <2> QED BY <1>1, FS_Surjection
<1> HIDE DEF T
<1>3. Cardinality(T) \in Nat
  BY <1>2, FS_CardinalityType
<1> QED BY <1>3 DEF T

Ages(D, q, r) ==
  /\ DOMAIN r = D /\ r = [n \in D |-> r[n]]
  /\ \A n \in D : \E e \in Int : r[n] \in {q[n], [q[n] EXCEPT !.event_cycle = e]}

LEMMA AgedSlot ==
  ASSUME NEW D, NEW q, DOMAIN q = D, \A n \in D : q[n].event_cycle \in Int,
         NEW S \in SUBSET D, IsFiniteSet(S), NEW latest \in Int
  PROVE  Ages(D, q, Aged(q, S, latest))
<1> DEFINE r == Aged(q, S, latest)
           later(n) == {k \in S : q[k].event_cycle <= 1 /\ q[k].event_cycle > q[n].event_cycle}
           rank(n) == latest - Cardinality({q[m].event_cycle : m \in later(n)})
<1>1. DOMAIN r = D /\ r = [n \in D |-> r[n]]
  BY DEF Aged
<1>2. ASSUME NEW n \in D
      PROVE  \E e \in Int : r[n] \in {q[n], [q[n] EXCEPT !.event_cycle = e]}
  <2>1. rank(n) \in Int
    <3>1. IsFiniteSet(later(n))
      BY FS_Subset
    <3> HIDE DEF later
    <3>2. Cardinality({q[m].event_cycle : m \in later(n)}) \in Nat
      BY <3>1, ImageCount
    <3> QED BY <3>2
  <2>2. r[n] = IF n \notin S THEN q[n]
               ELSE IF q[n].event_cycle > 1 THEN [q[n] EXCEPT !.event_cycle = @ - 1]
               ELSE [q[n] EXCEPT !.event_cycle = rank(n)]
    BY DEF Aged
  <2> HIDE DEF r, rank
  <2>3. CASE n \notin S
    <3>1. r[n] = q[n] /\ 0 \in Int
      BY <2>2, <2>3
    <3> QED BY <3>1
  <2>4. CASE n \in S /\ q[n].event_cycle > 1
    <3> DEFINE e == q[n].event_cycle - 1
    <3>1. r[n] = [q[n] EXCEPT !.event_cycle = e] /\ e \in Int
      BY <2>2, <2>4
    <3> HIDE DEF e
    <3> QED BY <3>1
  <2>5. CASE n \in S /\ ~(q[n].event_cycle > 1)
    <3>1. r[n] = [q[n] EXCEPT !.event_cycle = rank(n)]
      BY <2>2, <2>5
    <3> QED BY <2>1, <3>1
  <2> QED BY <2>3, <2>4, <2>5
<1> HIDE DEF r
<1>3. Ages(D, q, r)
  BY <1>1, <1>2 DEF Ages
<1> QED BY <1>3 DEF r

LEMMA AgedQueue ==
  ASSUME NEW k \in Nat, NEW q \in [1..k -> Packet], NEW S \in SUBSET (1..k), NEW latest \in Int
  PROVE  LET r == Aged(q, S, latest)
         IN  /\ r \in [1..k -> Packet] /\ SamePackets(q, r)
             /\ \A n \in DOMAIN q : r[n].scheduled = q[n].scheduled
<1> DEFINE r == Aged(q, S, latest)
<1>1. DOMAIN q = 1..k /\ IsFiniteSet(S) /\ \A n \in 1..k : q[n].event_cycle \in Int
  <2>1. IsFiniteSet(1..k)
    BY FS_Interval
  <2>2. IsFiniteSet(S)
    BY <2>1, FS_Subset
  <2>3. \A n \in 1..k : q[n].event_cycle \in Int
    BY PacketFields
  <2> QED BY <2>2, <2>3
<1>2. Ages(1..k, q, r)
  BY <1>1, AgedSlot
<1> HIDE DEF r
<1>3. ASSUME NEW n \in 1..k
      PROVE  /\ r[n] \in Packet /\ r[n].scheduled = q[n].scheduled
             /\ r[n].address = q[n].address /\ r[n].to_return = q[n].to_return
             /\ r[n].forward_checked = q[n].forward_checked
  <2>1. PICK e \in Int : r[n] \in {q[n], [q[n] EXCEPT !.event_cycle = e]}
    BY <1>2 DEF Ages
  <2>2. q[n] \in Packet
    OBVIOUS
  <2> DEFINE p == q[n]
             t == [p EXCEPT !.event_cycle = e]
  <2>3. t \in Packet
    <3> HIDE DEF p
    <3> QED BY <2>2, RescheduledType, Zenon DEF p
  <2>4. /\ t.scheduled = p.scheduled /\ t.address = p.address /\ t.to_return = p.to_return
        /\ t.forward_checked = p.forward_checked
    <3> HIDE DEF p
    <3> QED BY <2>2 DEF Packet, p
  <2>5. r[n] = p \/ r[n] = t
    BY <2>1
  <2> HIDE DEF p, t
  <2> QED BY <2>2, <2>3, <2>4, <2>5 DEF p
<1>4. r \in [1..k -> Packet] /\ SamePackets(q, r)
  BY <1>1, <1>2, <1>3 DEF SamePackets, Ages
<1> QED BY <1>1, <1>3, <1>4 DEF r

LEMMA AgedBanks ==
  ASSUME NEW q \in [Banks -> BankRequest], NEW S \in SUBSET Banks, NEW latest \in Int
  PROVE  LET r == Aged(q, S, latest)
         IN  /\ r \in [Banks -> BankRequest]
             /\ \A b \in Banks : r[b].pkt = q[b].pkt
<1> DEFINE r == Aged(q, S, latest)
<1>1. DOMAIN q = Banks /\ IsFiniteSet(S) /\ \A n \in Banks : q[n].event_cycle \in Int
  BY Sizes, FS_Subset DEF BankRequest
<1>2. Ages(Banks, q, r)
  BY <1>1, AgedSlot
<1> HIDE DEF r
<1>3. ASSUME NEW n \in Banks
      PROVE  r[n] \in BankRequest /\ r[n].pkt = q[n].pkt
  <2>1. PICK e \in Int : r[n] \in {q[n], [q[n] EXCEPT !.event_cycle = e]}
    BY <1>2 DEF Ages
  <2>2. q[n] \in BankRequest
    OBVIOUS
  <2> DEFINE p == q[n]
             t == [p EXCEPT !.event_cycle = e]
  <2>3. t \in BankRequest /\ t.pkt = p.pkt
    <3> HIDE DEF p
    <3> QED BY <2>2 DEF BankRequest, p
  <2>4. r[n] = p \/ r[n] = t
    BY <2>1
  <2> HIDE DEF p, t
  <2> QED BY <2>2, <2>3, <2>4 DEF p
<1>4. r \in [Banks -> BankRequest]
  BY <1>2, <1>3 DEF Ages
<1> QED BY <1>3, <1>4 DEF r

LEMMA TickKeeps ==
  ASSUME NEW c, Inv(c)
  PROVE  Inv(Tick(c)) /\ Tick(c).answered = c.answered
<1> DEFINE waiting(q) == {n \in Occupied(q) : ~q[n].scheduled}
           SR == waiting(c.RQ)
           SW == waiting(c.WQ)
           SB == {b \in Banks : c.bank_request[b].pkt # NoPacket}
           early == -1
           late == 0
           R == Aged(c.RQ, SR, early)
           W == Aged(c.WQ, SW, early)
           B == Aged(c.bank_request, SB, late)
           wait == IF c.dbus_cycle_available = 0 THEN 0 ELSE c.dbus_cycle_available - 1
           d == Tick(c)
<1>1. /\ c \in Channel
      /\ c.RQ \in [1..RQ_SIZE -> Packet] /\ c.WQ \in [1..WQ_SIZE -> Packet]
      /\ c.bank_request \in [Banks -> BankRequest]
  BY InvParts, ChannelFields
<1>2. d = [c EXCEPT !.RQ = R, !.WQ = W, !.bank_request = B, !.dbus_cycle_available = wait]
  <2>1. d = [c EXCEPT !.RQ = Aged(@, waiting(@), -1), !.WQ = Aged(@, waiting(@), -1),
                      !.bank_request = Aged(@, {b \in Banks : @[b].pkt # NoPacket}, 0),
                      !.dbus_cycle_available = IF @ = 0 THEN 0 ELSE @ - 1]
    BY DEF Tick
  <2> QED BY <2>1
<1>3. wait \in Nat
  <2>1. c.dbus_cycle_available \in Nat
    BY <1>1, ChannelFields
  <2> QED BY <2>1
<1>4. SR \in SUBSET (1..RQ_SIZE) /\ SW \in SUBSET (1..WQ_SIZE) /\ SB \in SUBSET Banks
  BY <1>1 DEF Occupied
<1>0. early \in Int /\ late \in Int
  OBVIOUS
<1> HIDE DEF SR, SW, SB, early, late
<1>5. /\ R \in [1..RQ_SIZE -> Packet] /\ SamePackets(c.RQ, R)
      /\ \A n \in DOMAIN c.RQ : R[n].scheduled = c.RQ[n].scheduled
  <2>1. RQ_SIZE \in Nat /\ c.RQ \in [1..RQ_SIZE -> Packet] /\ SR \in SUBSET (1..RQ_SIZE)
    BY <1>1, <1>4, Sizes
  <2> QED BY <1>0, <2>1, AgedQueue
<1>6. /\ W \in [1..WQ_SIZE -> Packet] /\ SamePackets(c.WQ, W)
      /\ \A n \in DOMAIN c.WQ : W[n].scheduled = c.WQ[n].scheduled
  <2>1. WQ_SIZE \in Nat /\ c.WQ \in [1..WQ_SIZE -> Packet] /\ SW \in SUBSET (1..WQ_SIZE)
    BY <1>1, <1>4, Sizes
  <2> QED BY <1>0, <2>1, AgedQueue
<1>7. /\ B \in [Banks -> BankRequest]
      /\ \A b \in Banks : B[b].pkt = c.bank_request[b].pkt
  BY <1>0, <1>1, <1>4, AgedBanks
<1> HIDE DEF R, W, B, wait, d
<1>8. Linked("RQ", R, B) /\ Linked("WQ", W, B)
  <2>1. Linked("RQ", c.RQ, c.bank_request) /\ Linked("WQ", c.WQ, c.bank_request)
    BY InvParts
  <2>2. Linked("RQ", R, B)
    BY <1>5, <1>7, <2>1, Sizes, SameLinked
  <2>3. Linked("WQ", W, B)
    BY <1>6, <1>7, <2>1, Sizes, SameLinked
  <2> QED BY <2>2, <2>3
<1>9. /\ Distinct(R) /\ Distinct(W) /\ NobodyWaits(W) /\ Waits(R, outstanding \ c.answered)
  BY <1>5, <1>6, InvParts, SamePacketsKeep
<1>10. /\ d \in Channel /\ d.RQ = R /\ d.WQ = W /\ d.bank_request = B
       /\ d.active_request = c.active_request /\ d.answered = c.answered
  BY <1>1, <1>2, <1>3, <1>5, <1>6, <1>7 DEF Channel
<1>11. BusHeld(d) /\ Cold(d)
  <2>1. BusHeld(c) /\ Cold(c) /\ c.active_request \in Banks \cup {NoBank}
    BY <1>1, InvParts, ChannelFields
  <2> QED BY <1>7, <1>10, <2>1 DEF BusHeld, Cold
<1> QED BY <1>8, <1>9, <1>10, <1>11 DEF Inv, d

-----------------------------------------------------------------------------
(* The invariant is inductive.                                             *)

LEMMA ChannelInit ==
  ASSUME Init
  PROVE  ChannelInv
<1> DEFINE R == [n \in 1..RQ_SIZE |-> Empty]
           W == [n \in 1..WQ_SIZE |-> Empty]
           B == [b \in Banks |-> Free(NoRow)]
<1>1. channel = [RQ |-> R, WQ |-> W, bank_request |-> B, active_request |-> NoBank,
                 write_mode |-> FALSE, dbus_cycle_available |-> 0, answered |-> {}]
  BY DEF Init
<1>2. R \in [1..RQ_SIZE -> Packet] /\ W \in [1..WQ_SIZE -> Packet]
  BY EmptyType
<1>3. B \in [Banks -> BankRequest] /\ \A b \in Banks : B[b].pkt = NoPacket
  <2>1. Free(NoRow) \in BankRequest /\ Free(NoRow).pkt = NoPacket
    BY FreeType
  <2> QED BY <2>1
<1>4. /\ DOMAIN R = 1..RQ_SIZE /\ DOMAIN W = 1..WQ_SIZE
      /\ \A n \in 1..RQ_SIZE : R[n] = Empty
      /\ \A n \in 1..WQ_SIZE : W[n] = Empty
  OBVIOUS
<1> HIDE DEF R, W, B
<1>5. \A n : NoPacket # <<"RQ", n>> /\ NoPacket # <<"WQ", n>>
  BY DEF NoPacket
<1>6. Linked("RQ", R, B) /\ Linked("WQ", W, B)
  BY <1>3, <1>4, <1>5, EmptyType DEF Linked
<1>7. Distinct(R) /\ Distinct(W) /\ NobodyWaits(W) /\ Waits(R, {})
  BY <1>4, EmptyType DEF Distinct, NobodyWaits, Waits
<1>8. /\ channel \in Channel /\ channel.RQ = R /\ channel.WQ = W
      /\ channel.bank_request = B /\ channel.active_request = NoBank /\ channel.answered = {}
  BY <1>1, <1>2, <1>3 DEF Channel
<1>9. /\ outstanding = {} /\ warmup \in BOOLEAN /\ sent = 0 /\ 0 \in 0..MaxRequests
  BY ChannelAssumption DEF Init
<1>10. outstanding \ channel.answered = {}
  BY <1>9
<1>11. Inv(channel)
  BY <1>3, <1>6, <1>7, <1>8, <1>10 DEF Inv, BusHeld, Cold
<1> QED BY <1>8, <1>9, <1>11 DEF ChannelInv

\* A new packet is put in an empty slot.
Put(k, q, n, p, r) ==
  /\ n \in 1..k /\ ~IsValid(q[n]) /\ r = [q EXCEPT ![n] = p]
  /\ p \in Packet /\ ~p.scheduled /\ ~p.forward_checked /\ IsValid(p)

LEMMA PutSlots ==
  ASSUME NEW k \in Nat, NEW q \in [1..k -> Packet], NEW n, NEW p, NEW r, Put(k, q, n, p, r)
  PROVE  /\ DOMAIN q = 1..k /\ DOMAIN r = 1..k /\ r \in [1..k -> Packet] /\ n \in 1..k
         /\ r[n] = p /\ \A m \in (1..k) \ {n} : r[m] = q[m]
         /\ ~IsValid(q[n]) /\ ~p.scheduled /\ ~p.forward_checked /\ IsValid(p)
BY DEF Put

LEMMA PutKeeps ==
  ASSUME NEW k \in Nat, NEW q \in [1..k -> Packet], NEW n, NEW p, NEW r, Put(k, q, n, p, r),
         NEW name, NEW banks, Linked(name, q, banks), Distinct(q)
  PROVE  /\ r \in [1..k -> Packet] /\ Linked(name, r, banks) /\ Distinct(r)
<1>1. /\ DOMAIN q = 1..k /\ DOMAIN r = 1..k /\ r \in [1..k -> Packet] /\ n \in 1..k
      /\ r[n] = p /\ \A m \in (1..k) \ {n} : r[m] = q[m]
      /\ ~IsValid(q[n]) /\ ~p.scheduled /\ ~p.forward_checked /\ IsValid(p)
  BY PutSlots
<1>2. ~q[n].scheduled
  BY <1>1, PacketFields DEF Linked
<1>3. Linked(name, r, banks)
  <2>1. ASSUME NEW m \in 1..k, r[m].scheduled
        PROVE  /\ r[m].address \in Addrs /\ r[m].forward_checked
               /\ banks[BankOf[r[m].address]].pkt = <<name, m>>
    <3>1. m # n
      BY <1>1, <2>1
    <3>2. r[m] = q[m]
      BY <1>1, <3>1
    <3> QED BY <1>1, <2>1, <3>2 DEF Linked
  <2>2. ASSUME NEW m \in 1..k, NEW b \in Banks, banks[b].pkt = <<name, m>>
        PROVE  r[m].scheduled /\ BankOf[r[m].address] = b
    <3>1. q[m].scheduled /\ BankOf[q[m].address] = b
      BY <1>1, <2>2 DEF Linked
    <3>2. m # n
      BY <1>2, <3>1
    <3> QED BY <1>1, <3>1, <3>2
  <2> QED BY <1>1, <2>1, <2>2 DEF Linked
<1>4. Distinct(r)
  BY <1>1 DEF Distinct
<1> QED BY <1>1, <1>3, <1>4

LEMMA PutNobody ==
  ASSUME NEW k \in Nat, NEW q \in [1..k -> Packet], NEW n, NEW p, NEW r, Put(k, q, n, p, r),
         NobodyWaits(q), p.to_return = {}
  PROVE  NobodyWaits(r)
<1>1. /\ DOMAIN q = 1..k /\ DOMAIN r = 1..k
      /\ r[n] = p /\ \A m \in (1..k) \ {n} : r[m] = q[m]
  BY PutSlots
<1> QED BY <1>1 DEF NobodyWaits

\* Those who wait for the new packet wait there.
LEMMA PutWaits ==
  ASSUME NEW k \in Nat, NEW q \in [1..k -> Packet], NEW n, NEW p, NEW r, Put(k, q, n, p, r),
         NEW O, Waits(q, O), p.to_return \cap O = {}
  PROVE  Waits(r, O \cup p.to_return)
<1>1. /\ DOMAIN q = 1..k /\ DOMAIN r = 1..k /\ n \in 1..k
      /\ r[n] = p /\ \A m \in (1..k) \ {n} : r[m] = q[m]
  BY PutSlots
<1>2. ~IsValid(q[n]) /\ IsValid(p)
  BY PutSlots
<1>3. q[n].to_return = {}
  BY <1>1, <1>2 DEF Waits
<1>4. \A m \in 1..k : m # n => r[m].to_return \subseteq O /\ r[m] = q[m]
  BY <1>1, <1>2 DEF Waits
<1>5. \A m \in 1..k : r[m].to_return \subseteq O \cup p.to_return
  BY <1>1, <1>4
<1>6. \A m \in 1..k : r[m].to_return # {} => IsValid(r[m])
  BY <1>1, <1>2 DEF Waits
<1>7. ASSUME NEW x \in O \cup p.to_return
      PROVE  \E m \in 1..k : x \in r[m].to_return
  <2>1. CASE x \in p.to_return
    BY <1>1, <2>1
  <2>2. CASE x \in O
    <3>1. PICK m \in 1..k : x \in q[m].to_return
      BY <1>1, <1>2, <2>2 DEF Waits
    <3>2. m # n
      BY <1>3, <3>1
    <3> QED BY <1>1, <3>1, <3>2
  <2> QED BY <2>1, <2>2
<1>8. ASSUME NEW x, NEW l \in 1..k, NEW m \in 1..k,
             x \in r[l].to_return, x \in r[m].to_return
      PROVE  l = m
  <2>1. CASE l = n
    <3>1. x \in p.to_return
      BY <1>1, <1>8, <2>1
    <3> QED BY <1>4, <1>8, <2>1, <3>1
  <2>2. CASE m = n
    <3>1. x \in p.to_return
      BY <1>1, <1>8, <2>2
    <3> QED BY <1>4, <1>8, <2>2, <3>1
  <2>3. CASE l # n /\ m # n
    <3>1. x \in O /\ x \in q[l].to_return /\ x \in q[m].to_return
      BY <1>4, <1>8, <2>3
    <3> QED BY <1>1, <1>2, <3>1 DEF Waits
  <2> QED BY <2>1, <2>2, <2>3
<1> QED BY <1>1, <1>5, <1>6, <1>7, <1>8 DEF Waits

LEMMA NewPacket ==
  ASSUME NEW a \in Addrs, NEW S \in SUBSET Requests
  PROVE  /\ [Empty EXCEPT !.address = a] \in Packet
         /\ [Empty EXCEPT !.address = a, !.to_return = S] \in Packet
         /\ \A p \in {[Empty EXCEPT !.address = a], [Empty EXCEPT !.address = a, !.to_return = S]} :
              ~p.scheduled /\ ~p.forward_checked /\ IsValid(p)
         /\ [Empty EXCEPT !.address = a].to_return = {}
         /\ [Empty EXCEPT !.address = a, !.to_return = S].to_return = S
<1> DEFINE t == [Empty EXCEPT !.address = a]
           u == [t EXCEPT !.to_return = S]
<1>1. /\ t \in Packet /\ t.to_return = {} /\ t.address = a
      /\ t.scheduled = FALSE /\ t.forward_checked = FALSE
  <2>1. t \in Packet /\ t.address = a /\ t.to_return = Empty.to_return
        /\ t.scheduled = Empty.scheduled /\ t.forward_checked = Empty.forward_checked
    BY EmptyType DEF Packet
  <2>2. Empty.scheduled = FALSE /\ Empty.forward_checked = FALSE /\ Empty.to_return = {}
    BY DEF Empty
  <2> QED BY <2>1, <2>2
<1>2. u = [Empty EXCEPT !.address = a, !.to_return = S]
  BY EmptyType DEF Packet
<1> HIDE DEF t
<1>3. /\ u \in Packet /\ u.to_return = S /\ u.address = a
  BY <1>1 DEF Packet
<1>4. u.scheduled = t.scheduled /\ u.forward_checked = t.forward_checked
  BY <1>1 DEF Packet
<1>5. IsValid(t) /\ IsValid(u)
  BY <1>1, <1>3, ChannelAssumption DEF IsValid, NoAddress
<1> HIDE DEF u
<1> QED BY <1>1, <1>2, <1>3, <1>4, <1>5 DEF t

LEMMA AddRqKeeps ==
  ASSUME ChannelInv, NEW a \in Addrs, AddRq(a)
  PROVE  ChannelInv'
<1> DEFINE p == [Empty EXCEPT !.address = a, !.to_return = {sent + 1}]
           c == channel
<1>1. PICK n \in DOMAIN c.RQ \ Occupied(c.RQ) : channel' = [channel EXCEPT !.RQ[n] = p]
  BY DEF AddRq, AddTo
<1>2. /\ c \in Channel /\ Inv(c) /\ c.answered = {} /\ n \in 1..RQ_SIZE /\ ~IsValid(c.RQ[n])
      /\ c.RQ \in [1..RQ_SIZE -> Packet]
  BY <1>1, InvParts, ChannelFields DEF ChannelInv, Occupied
<1>3. /\ sent' = sent + 1 /\ sent \in 0..MaxRequests /\ sent < MaxRequests /\ MaxRequests \in Nat
      /\ outstanding' = outstanding \cup {sent + 1} /\ outstanding \subseteq 1..sent
      /\ warmup' = warmup /\ warmup \in BOOLEAN
  BY ChannelAssumption DEF AddRq, ChannelInv
<1>4. /\ p \in Packet /\ ~p.scheduled /\ ~p.forward_checked /\ IsValid(p)
      /\ p.to_return = {sent + 1}
  <2>1. {sent + 1} \in SUBSET Requests
    BY <1>3 DEF Requests
  <2> QED BY <2>1, NewPacket
<1> DEFINE r == [c.RQ EXCEPT ![n] = p]
<1> HIDE DEF p
<1>5. /\ r \in [1..RQ_SIZE -> Packet] /\ Linked("RQ", r, c.bank_request) /\ Distinct(r)
      /\ Waits(r, outstanding')
  <2>1. p.to_return \cap outstanding = {}
    BY <1>3, <1>4
  <2>2. Waits(c.RQ, outstanding) /\ Linked("RQ", c.RQ, c.bank_request) /\ Distinct(c.RQ)
    <3>1. outstanding \ c.answered = outstanding
      BY <1>2
    <3> QED BY <1>2, <3>1, InvParts
  <2> HIDE DEF c
  <2>3. outstanding' = outstanding \cup p.to_return
    BY <1>3, <1>4
  <2>4. r = [c.RQ EXCEPT ![n] = p] /\ RQ_SIZE \in Nat
    BY Sizes
  <2> HIDE DEF r
  <2>5. Put(RQ_SIZE, c.RQ, n, p, r)
    BY <1>2, <1>4, <2>4 DEF Put
  <2>6. /\ r \in [1..RQ_SIZE -> Packet] /\ Linked("RQ", r, c.bank_request) /\ Distinct(r)
    BY <1>2, <2>2, <2>4, <2>5, PutKeeps
  <2>7. Waits(r, outstanding \cup p.to_return)
    BY <1>2, <2>1, <2>2, <2>4, <2>5, PutWaits
  <2> QED BY <2>3, <2>6, <2>7
<1> HIDE DEF r
<1>6. /\ channel' \in Channel /\ channel'.RQ = r /\ channel'.WQ = c.WQ
      /\ channel'.bank_request = c.bank_request /\ channel'.active_request = c.active_request
      /\ channel'.answered = {}
  <2>1. channel' = [c EXCEPT !.RQ = r]
    <3>1. channel' = [c EXCEPT !.RQ[n] = p]
      BY <1>1
    <3> HIDE DEF c
    <3> QED BY <1>2, <3>1 DEF Channel, r
  <2> HIDE DEF c
  <2> QED BY <1>2, <1>5, <2>1 DEF Channel
<1>7. outstanding' \ channel'.answered = outstanding'
  BY <1>6
<1>8. Inv(channel)'
  BY <1>2, <1>3, <1>5, <1>6, <1>7, InvParts DEF Inv, BusHeld, Cold
<1>9. sent' \in 0..MaxRequests /\ outstanding' \subseteq 1..sent'
  BY <1>3
<1> QED BY <1>3, <1>6, <1>8, <1>9 DEF ChannelInv

LEMMA AddWqKeeps ==
  ASSUME ChannelInv, NEW a \in Addrs, AddWq(a)
  PROVE  ChannelInv'
<1> DEFINE p == [Empty EXCEPT !.address = a]
           c == channel
<1>1. PICK n \in DOMAIN c.WQ \ Occupied(c.WQ) : channel' = [channel EXCEPT !.WQ[n] = p]
  BY DEF AddWq, AddTo
<1>2. /\ c \in Channel /\ Inv(c) /\ c.answered = {} /\ n \in 1..WQ_SIZE /\ ~IsValid(c.WQ[n])
      /\ c.WQ \in [1..WQ_SIZE -> Packet]
  BY <1>1, InvParts, ChannelFields DEF ChannelInv, Occupied
<1>3. /\ sent' = sent + 1 /\ sent \in 0..MaxRequests /\ sent < MaxRequests /\ MaxRequests \in Nat
      /\ outstanding' = outstanding /\ outstanding \subseteq 1..sent
      /\ warmup' = warmup /\ warmup \in BOOLEAN
  BY ChannelAssumption DEF AddWq, ChannelInv
<1>4. /\ p \in Packet /\ ~p.scheduled /\ ~p.forward_checked /\ IsValid(p)
      /\ p.to_return = {}
  <2>1. {} \in SUBSET Requests
    OBVIOUS
  <2> QED BY <2>1, NewPacket
<1> DEFINE r == [c.WQ EXCEPT ![n] = p]
<1> HIDE DEF p
<1>5. /\ r \in [1..WQ_SIZE -> Packet] /\ Linked("WQ", r, c.bank_request) /\ Distinct(r)
      /\ NobodyWaits(r)
  <2>1. NobodyWaits(c.WQ) /\ Linked("WQ", c.WQ, c.bank_request) /\ Distinct(c.WQ)
    BY <1>2, InvParts
  <2>2. r = [c.WQ EXCEPT ![n] = p] /\ WQ_SIZE \in Nat
    BY Sizes
  <2> HIDE DEF c, r
  <2>3. Put(WQ_SIZE, c.WQ, n, p, r)
    BY <1>2, <1>4, <2>2 DEF Put
  <2>4. /\ r \in [1..WQ_SIZE -> Packet] /\ Linked("WQ", r, c.bank_request) /\ Distinct(r)
    BY <1>2, <2>1, <2>2, <2>3, PutKeeps
  <2>5. NobodyWaits(r)
    BY <1>2, <1>4, <2>1, <2>2, <2>3, PutNobody
  <2> QED BY <2>4, <2>5
<1> HIDE DEF r
<1>6. /\ channel' \in Channel /\ channel'.WQ = r /\ channel'.RQ = c.RQ
      /\ channel'.bank_request = c.bank_request /\ channel'.active_request = c.active_request
      /\ channel'.answered = {}
  <2>1. channel' = [c EXCEPT !.WQ = r]
    <3>1. channel' = [c EXCEPT !.WQ[n] = p]
      BY <1>1
    <3> HIDE DEF c
    <3> QED BY <1>2, <3>1 DEF Channel, r
  <2> HIDE DEF c
  <2> QED BY <1>2, <1>5, <2>1 DEF Channel
<1>7. outstanding' \ channel'.answered = outstanding \ c.answered
  BY <1>2, <1>3, <1>6
<1>8. Inv(channel)'
  BY <1>2, <1>3, <1>5, <1>6, <1>7, InvParts DEF Inv, BusHeld, Cold
<1>9. sent' \in 0..MaxRequests /\ outstanding' \subseteq 1..sent'
  BY <1>3
<1> QED BY <1>3, <1>6, <1>8, <1>9 DEF ChannelInv

LEMMA OperateKeeps ==
  ASSUME ChannelInv, Operate
  PROVE  ChannelInv'
<1> DEFINE cleared == Clear(channel)
           checked == CheckCollision(cleared)
           finished == Finish(checked)
           balanced == SwitchMode(finished)
           bussed == PutOnBus(balanced)
           scheduled == Schedule(bussed)
           ticked == Tick(scheduled)
<1>1. /\ channel' = [ticked EXCEPT !.answered = {}]
      /\ outstanding' = outstanding \ scheduled.answered
      /\ warmup' = warmup /\ sent' = sent
  BY DEF Operate
<1>2. Inv(cleared) /\ Quiet(cleared)
  BY ClearKeeps
<1> HIDE DEF cleared
<1>3. Settled(checked)
  BY <1>2, CheckCollisionKeeps DEF Settled
<1> HIDE DEF checked
<1>4. Settled(finished) /\ BusInUse(finished)
  BY <1>3, FinishKeeps
<1> HIDE DEF finished
<1>5. Settled(balanced)
  BY <1>4, SwitchModeKeeps
<1> HIDE DEF balanced
<1>6. Settled(bussed)
  BY <1>5, PutOnBusKeeps
<1> HIDE DEF bussed
<1>7. Inv(scheduled)
  BY <1>6, ScheduleKeeps
<1> HIDE DEF scheduled
<1>8. Inv(ticked) /\ ticked.answered = scheduled.answered
  BY <1>7, TickKeeps
<1> HIDE DEF ticked
<1>9. ticked \in Channel
  BY <1>8, InvParts
<1>10. /\ channel' \in Channel /\ channel'.RQ = ticked.RQ /\ channel'.WQ = ticked.WQ
       /\ channel'.bank_request = ticked.bank_request
       /\ channel'.active_request = ticked.active_request /\ channel'.answered = {}
  BY <1>1, <1>9 DEF Channel
<1>11. outstanding' \ channel'.answered = outstanding \ ticked.answered
  BY <1>1, <1>8, <1>10
<1>12. Inv(channel)'
  BY <1>1, <1>8, <1>10, <1>11, InvParts DEF Inv, BusHeld, Cold
<1> QED BY <1>1, <1>10, <1>12 DEF ChannelInv

LEMMA EndWarmupKeeps ==
  ASSUME ChannelInv, EndWarmup
  PROVE  ChannelInv'
<1>1. channel' = channel /\ outstanding' = outstanding /\ sent' = sent /\ warmup' = FALSE
  BY DEF EndWarmup
<1>2. Inv(channel) /\ channel.answered = {} /\ sent \in 0..MaxRequests /\ outstanding \subseteq 1..sent
  BY DEF ChannelInv
<1>3. Inv(channel)'
  BY <1>1, <1>2, InvParts DEF Inv, BusHeld, Cold
<1> QED BY <1>1, <1>2, <1>3 DEF ChannelInv

\* No dangling pointers, one packet for a block and one place for a waiting read, with
\* all they rest on, hold in every state.
LEMMA Inductive == Spec => []ChannelInv
<1>1. Init => ChannelInv
  BY ChannelInit
<1>2. ChannelInv /\ [Next]_vars => ChannelInv'
  <2> SUFFICES ASSUME ChannelInv, [Next]_vars
               PROVE  ChannelInv'
    OBVIOUS
  <2>1. CASE \E a \in Addrs : AddRq(a) \/ AddWq(a)
    BY <2>1, AddRqKeeps, AddWqKeeps
  <2>2. CASE Operate
    BY <2>2, OperateKeeps
  <2>3. CASE EndWarmup
    BY <2>3, EndWarmupKeeps
  <2>4. CASE UNCHANGED vars
    <3>1. channel' = channel /\ outstanding' = outstanding /\ sent' = sent /\ warmup' = warmup
      BY <2>4 DEF vars
    <3> QED BY <3>1 DEF ChannelInv, Inv, BusHeld, Cold
  <2> QED BY <2>1, <2>2, <2>3, <2>4 DEF Next
<1> QED BY <1>1, <1>2, PTL DEF Spec

-----------------------------------------------------------------------------
(* The theorems.                                                           *)

\* The channel's queues, banks and bus always have their types.
THEOREM TypeCorrect == Spec => []TypeOK
<1>1. ChannelInv => TypeOK
  <2> SUFFICES ASSUME ChannelInv
               PROVE  TypeOK
    OBVIOUS
  <2>1. channel \in Channel
    BY InvParts DEF ChannelInv
  <2>2. outstanding \subseteq Requests /\ sent \in 0..MaxRequests
    BY ChannelAssumption DEF ChannelInv, Requests
  <2> QED BY <2>1, <2>2, ChannelFields DEF ChannelInv, TypeOK
<1> QED BY <1>1, Inductive, PTL

\* The pointers of the banks into the queues (ChannelRequest::pkt) never dangle: a
\* packet is scheduled exactly when its own bank, and no other, refers to its slot.
THEOREM PointersNeverDangle == Spec => []BanksHoldScheduled
<1>1. ChannelInv => BanksHoldScheduled
  <2> SUFFICES ASSUME ChannelInv
               PROVE  BanksHoldScheduled
    OBVIOUS
  <2>1. Inv(channel) /\ channel \in Channel
    BY InvParts DEF ChannelInv
  <2>2. DOMAIN channel.RQ = 1..RQ_SIZE /\ DOMAIN channel.WQ = 1..WQ_SIZE
    BY <2>1, ChannelFields
  <2> DEFINE holders(s) == {b \in Banks : channel.bank_request[b].pkt = s}
  <2>3. ASSUME NEW name, NEW q, Linked(name, q, channel.bank_request), NEW n \in DOMAIN q
        PROVE  holders(<<name, n>>) = IF q[n].scheduled THEN {BankOf[q[n].address]} ELSE {}
    <3>1. CASE q[n].scheduled
      <4>1. /\ q[n].address \in Addrs
            /\ channel.bank_request[BankOf[q[n].address]].pkt = <<name, n>>
        BY <2>3, <3>1 DEF Linked
      <4>2. BankOf[q[n].address] \in Banks
        BY <4>1, Sizes
      <4>3. \A b \in Banks : channel.bank_request[b].pkt = <<name, n>> => b = BankOf[q[n].address]
        BY <2>3 DEF Linked
      <4> QED BY <3>1, <4>1, <4>2, <4>3
    <3>2. CASE ~q[n].scheduled
      <4>1. \A b \in Banks : channel.bank_request[b].pkt # <<name, n>>
        BY <2>3, <3>2 DEF Linked
      <4> QED BY <3>2, <4>1
    <3> QED BY <3>1, <3>2
  <2>4. ASSUME NEW s \in Slots
        PROVE  LET p == Queued(s[1], s[2])
               IN  holders(s) = IF p.scheduled THEN {BankOf[p.address]} ELSE {}
    <3> HIDE DEF holders
    <3>1. Linked("RQ", channel.RQ, channel.bank_request) /\ Linked("WQ", channel.WQ, channel.bank_request)
      BY <2>1, InvParts
    <3>2. s = <<s[1], s[2]>> /\ (\/ s[1] = "RQ" /\ s[2] \in 1..RQ_SIZE
                                 \/ s[1] = "WQ" /\ s[2] \in 1..WQ_SIZE)
      BY SlotFields
    <3>3. CASE s[1] = "RQ" /\ s[2] \in 1..RQ_SIZE
      <4>1. s = <<"RQ", s[2]>> /\ Queued(s[1], s[2]) = channel.RQ[s[2]]
        BY <3>2, <3>3 DEF Queued
      <4> QED BY <2>2, <2>3, <3>1, <3>3, <4>1
    <3>4. CASE s[1] = "WQ" /\ s[2] \in 1..WQ_SIZE
      <4>1. s = <<"WQ", s[2]>> /\ Queued(s[1], s[2]) = channel.WQ[s[2]]
        BY <3>2, <3>4 DEF Queued
      <4> QED BY <2>2, <2>3, <3>1, <3>4, <4>1
    <3> QED BY <3>2, <3>3, <3>4
  <2>5. BusHeld(channel)
    BY <2>1, InvParts
  <2> QED BY <2>4, <2>5 DEF BanksHoldScheduled, BusHeld
<1> QED BY <1>1, Inductive, PTL

\* Two packets of a queue that have been checked are for different blocks: a collision
\* that check_collision has resolved never comes back.
THEOREM BlocksStayApart == Spec => []OnePacketPerBlock
<1>1. ChannelInv => OnePacketPerBlock
  BY InvParts DEF ChannelInv, OnePacketPerBlock, Distinct, Occupied
<1> QED BY <1>1, Inductive, PTL

\* A read that has not been answered waits in exactly one packet, so it is never
\* forgotten by a merge and never answered twice.
THEOREM ReadsAreKept == Spec => []ReadsWaitOnce
<1>1. ChannelInv => ReadsWaitOnce
  <2> SUFFICES ASSUME ChannelInv, NEW r \in Requests
               PROVE  Cardinality({n \in 1..RQ_SIZE : r \in channel.RQ[n].to_return})
                        = IF r \in outstanding THEN 1 ELSE 0
    BY DEF ReadsWaitOnce
  <2> DEFINE T == {n \in 1..RQ_SIZE : r \in channel.RQ[n].to_return}
  <2>1. DOMAIN channel.RQ = 1..RQ_SIZE /\ Waits(channel.RQ, outstanding)
    <3>1. Inv(channel) /\ channel \in Channel
      BY InvParts DEF ChannelInv
    <3>2. outstanding \ channel.answered = outstanding
      BY DEF ChannelInv
    <3> QED BY <3>1, <3>2, InvParts, ChannelFields
  <2>2. CASE r \in outstanding
    <3>1. PICK n \in 1..RQ_SIZE : r \in channel.RQ[n].to_return
      BY <2>1, <2>2 DEF Waits
    <3>2. T = {n}
      BY <2>1, <2>2, <3>1 DEF Waits
    <3> HIDE DEF T
    <3>3. Cardinality(T) = 1
      BY <3>2, FS_Singleton
    <3> QED BY <2>2, <3>3 DEF T
  <2>3. CASE r \notin outstanding
    <3>1. T = {}
      BY <2>1, <2>3 DEF Waits
    <3> HIDE DEF T
    <3>2. Cardinality(T) = 0
      BY <3>1, FS_EmptySet
    <3> QED BY <2>3, <3>2 DEF T
  <2> QED BY <2>2, <2>3
<1> QED BY <1>1, Inductive, PTL
=============================================================================
