-------------------------- MODULE MicroOpCacheProofs --------------------------
(***************************************************************************)
(* Theorems about a set of the micro-op cache, for any number of ways, of  *)
(* windows and of ways that compete.                                       *)
(***************************************************************************)
EXTENDS MicroOpCache, FiniteSetTheorems, TLAPS

-----------------------------------------------------------------------------
(* Types.                                                                  *)

LEMMA WayFields ==
  ASSUME NEW way \in Way
  PROVE  /\ way.window \in Windows \cup {NoWindow} /\ way.last_used \in 0..MaxCycle
         /\ way.active \in BOOLEAN /\ way.terminated_by_taken \in BOOLEAN
         /\ way.num_br \in 0..2 /\ way.alternate_path_prefetch \in BOOLEAN
BY DEF Way

\* A way that takes an instruction has room for another branch.
LEMMA OpenedHasRoom ==
  ASSUME NEW way \in Way, NEW taken_end \in BOOLEAN
  PROVE  /\ Opened(way, taken_end) \in BOOLEAN
         /\ Opened(way, taken_end) => way.num_br \in 0..1
<1>1. way.num_br \in 0..2
  BY WayFields
<1>2. CASE way.num_br = 2
  BY <1>2 DEF Opened
<1>3. CASE way.num_br # 2
  BY <1>1, <1>3 DEF Opened
<1> QED BY <1>2, <1>3

\* Kinds are told apart by two bits.
LEMMA KindBits == ASSUME NEW kind PROVE EndsTaken(kind) \in BOOLEAN /\ IsBranch(kind) \in BOOLEAN
BY DEF EndsTaken, IsBranch

\* The ways after each has been opened or closed for an instruction of the window.
Reopened(window, taken_end) ==
  [w \in Ways |-> IF UOP[w].window = window
                  THEN [UOP[w] EXCEPT !.active = Opened(UOP[w], taken_end)] ELSE UOP[w]]

LEMMA ReopenedType ==
  ASSUME TypeOK, NEW window, NEW taken_end \in BOOLEAN
  PROVE  /\ Reopened(window, taken_end) \in [Ways -> Way]
         /\ \A w \in Ways :
              LET way == Reopened(window, taken_end)[w]
              IN  /\ way.window = UOP[w].window
                  /\ way.window = window /\ way.active => way.num_br \in 0..1
<1> SUFFICES ASSUME NEW w \in Ways
             PROVE  LET way == Reopened(window, taken_end)[w]
                    IN  /\ way \in Way
                        /\ way.window = UOP[w].window
                        /\ way.window = window /\ way.active => way.num_br \in 0..1
  BY DEF Reopened
<1> DEFINE old == UOP[w]
           opened == Opened(old, taken_end)
<1>1. old \in Way
  BY DEF TypeOK
<1>2. opened \in BOOLEAN /\ (opened => old.num_br \in 0..1)
  BY <1>1, OpenedHasRoom
<1>3. Reopened(window, taken_end)[w] =
        IF old.window = window THEN [old EXCEPT !.active = opened] ELSE old
  BY DEF Reopened
<1> HIDE DEF old, opened
<1>4. [old EXCEPT !.active = opened] \in Way
  BY <1>1, <1>2 DEF Way
<1>5. /\ [old EXCEPT !.active = opened].window = old.window
      /\ [old EXCEPT !.active = opened].num_br = old.num_br
      /\ [old EXCEPT !.active = opened].active = opened
  BY <1>1 DEF Way
<1>6. CASE old.window = window
  BY <1>2, <1>3, <1>4, <1>5, <1>6 DEF old
<1>7. CASE old.window # window
  BY <1>1, <1>3, <1>7 DEF old
<1> QED BY <1>6, <1>7

\* The two outcomes of Insert, in terms of the ways it has opened and closed.
Joins(window, kind, alternate) ==
  \E w \in Ways :
    LET way == Reopened(window, EndsTaken(kind))[w]
    IN  /\ way.window = window /\ way.active
        /\ UOP' = [Reopened(window, EndsTaken(kind)) EXCEPT ![w] =
                    [way EXCEPT !.terminated_by_taken = EndsTaken(kind),
                                !.num_br = IF IsBranch(kind) THEN @ + 1 ELSE @,
                                !.last_used = current_cycle,
                                !.alternate_path_prefetch = @ \/ alternate]]

NewWay(window, alternate) ==
  [window |-> window, last_used |-> current_cycle, active |-> TRUE,
   terminated_by_taken |-> FALSE, num_br |-> 0, alternate_path_prefetch |-> alternate]

Replaces(window, kind, alternate) ==
  \E C \in Competing, w \in Ways :
    /\ Victim(C, w)
    /\ UOP' = [Reopened(window, EndsTaken(kind)) EXCEPT ![w] = NewWay(window, alternate)]

LEMMA InsertSteps ==
  ASSUME TypeOK, NEW window \in Windows, NEW kind \in Kinds, NEW alternate \in BOOLEAN,
         Insert(window, kind, alternate)
  PROVE  /\ current_cycle' = current_cycle
         /\ Joins(window, kind, alternate) \/ Replaces(window, kind, alternate)
<1> DEFINE ways == Reopened(window, EndsTaken(kind))
<1>1. ways \in [Ways -> Way]
  BY KindBits, ReopenedType
<1>2. /\ current_cycle' = current_cycle
      /\ \/ \E w \in Ways :
              /\ ways[w].window = window /\ ways[w].active
              /\ UOP' = [ways EXCEPT
                   ![w].terminated_by_taken = EndsTaken(kind),
                   ![w].num_br = IF IsBranch(kind) THEN @ + 1 ELSE @,
                   ![w].last_used = current_cycle,
                   ![w].alternate_path_prefetch = @ \/ alternate]
         \/ \E C \in Competing, w \in Ways :
              Victim(C, w) /\ UOP' = [ways EXCEPT ![w] = NewWay(window, alternate)]
  BY DEF Insert, Reopened, NewWay
<1>3. ASSUME NEW w \in Ways,
             ways[w].window = window /\ ways[w].active,
             UOP' = [ways EXCEPT
                   ![w].terminated_by_taken = EndsTaken(kind),
                   ![w].num_br = IF IsBranch(kind) THEN @ + 1 ELSE @,
                   ![w].last_used = current_cycle,
                   ![w].alternate_path_prefetch = @ \/ alternate]
      PROVE  Joins(window, kind, alternate)
  <2> DEFINE taken == [ways[w] EXCEPT !.terminated_by_taken = EndsTaken(kind),
                                      !.num_br = IF IsBranch(kind) THEN @ + 1 ELSE @,
                                      !.last_used = current_cycle,
                                      !.alternate_path_prefetch = @ \/ alternate]
  <2> HIDE DEF ways
  <2>1. UOP' = [ways EXCEPT ![w] = taken]
    BY <1>1, <1>3
  <2> QED BY <1>3, <2>1 DEF Joins, ways
<1> QED BY <1>2, <1>3 DEF Replaces

\* An instruction that is added to a way leaves a way, and its window.
LEMMA TakenType ==
  ASSUME TypeOK, NEW way \in Way, way.num_br \in 0..1, NEW branch \in BOOLEAN,
         NEW taken_end \in BOOLEAN, NEW alternate \in BOOLEAN,
         NEW taken,
         taken = [way EXCEPT !.terminated_by_taken = taken_end,
                             !.num_br = IF branch THEN @ + 1 ELSE @,
                             !.last_used = current_cycle,
                             !.alternate_path_prefetch = @ \/ alternate]
  PROVE  taken \in Way /\ taken.window = way.window
<1>1. /\ way.window \in Windows \cup {NoWindow} /\ way.active \in BOOLEAN
      /\ way.alternate_path_prefetch \in BOOLEAN
  BY WayFields
<1>2. (IF branch THEN way.num_br + 1 ELSE way.num_br) \in 0..2
  OBVIOUS
<1>3. current_cycle \in 0..MaxCycle
  BY DEF TypeOK
<1>4. (way.alternate_path_prefetch \/ alternate) \in BOOLEAN
  OBVIOUS
<1>5. taken = [window |-> way.window, last_used |-> current_cycle, active |-> way.active,
               terminated_by_taken |-> taken_end,
               num_br |-> IF branch THEN way.num_br + 1 ELSE way.num_br,
               alternate_path_prefetch |-> way.alternate_path_prefetch \/ alternate]
  BY DEF Way
<1> QED BY <1>1, <1>2, <1>3, <1>4, <1>5 DEF Way

LEMMA InsertType ==
  ASSUME TypeOK, NEW window \in Windows, NEW kind \in Kinds, NEW alternate \in BOOLEAN,
         Insert(window, kind, alternate)
  PROVE  TypeOK'
<1> DEFINE ways == Reopened(window, EndsTaken(kind))
<1>1. ways \in [Ways -> Way]
  BY KindBits, ReopenedType
<1>2. current_cycle \in 0..MaxCycle /\ current_cycle' = current_cycle
  BY InsertSteps DEF TypeOK
<1>3. \E w \in Ways, new \in Way : UOP' = [ways EXCEPT ![w] = new]
  <2>1. CASE Joins(window, kind, alternate)
    <3>1. PICK w \in Ways :
            /\ ways[w].window = window /\ ways[w].active
            /\ UOP' = [ways EXCEPT ![w] =
                 [ways[w] EXCEPT !.terminated_by_taken = EndsTaken(kind),
                                 !.num_br = IF IsBranch(kind) THEN @ + 1 ELSE @,
                                 !.last_used = current_cycle,
                                 !.alternate_path_prefetch = @ \/ alternate]]
      BY <2>1 DEF Joins
    <3>2. ways[w] \in Way /\ ways[w].num_br \in 0..1
      BY <1>1, <3>1, KindBits, ReopenedType
    <3> DEFINE taken_end == EndsTaken(kind)
               branch == IsBranch(kind)
               way == ways[w]
               taken == [way EXCEPT !.terminated_by_taken = taken_end,
                                    !.num_br = IF branch THEN @ + 1 ELSE @,
                                    !.last_used = current_cycle,
                                    !.alternate_path_prefetch = @ \/ alternate]
    <3>3. taken_end \in BOOLEAN /\ branch \in BOOLEAN
      BY KindBits
    <3>4. UOP' = [ways EXCEPT ![w] = taken]
      BY <3>1
    <3>5. taken \in Way
      <4> HIDE DEF way, taken_end, branch
      <4> QED BY <3>2, <3>3, TakenType DEF way
    <3> HIDE DEF ways, taken
    <3> QED BY <3>4, <3>5
  <2>2. CASE Replaces(window, kind, alternate)
    <3>1. NewWay(window, alternate) \in Way
      BY <1>2 DEF NewWay, Way
    <3> QED BY <2>2, <3>1 DEF Replaces
  <2> QED BY <2>1, <2>2, InsertSteps
<1>4. UOP' \in [Ways -> Way]
  <2> HIDE DEF ways
  <2> QED BY <1>1, <1>3
<1> QED BY <1>2, <1>4 DEF TypeOK

\* The ways keep their types in every execution: num_br never passes two, which
\* Insert asserts, although a way is opened, closed and filled by different rules.
THEOREM TypeCorrect == Spec => []TypeOK
<1>1. Init => TypeOK
  BY MicroOpCacheAssumption DEF Init, TypeOK, Way
<1>2. TypeOK /\ [Next]_vars => TypeOK'
  <2> SUFFICES ASSUME TypeOK, [Next]_vars
               PROVE  TypeOK'
    OBVIOUS
  <2>1. CASE Tick
    BY <2>1, MicroOpCacheAssumption DEF TypeOK, Tick
  <2>2. ASSUME NEW window \in Windows, Lookup(window)
        PROVE  TypeOK'
    <3>1. PICK w \in Ways :
            UOP' = [UOP EXCEPT ![w].alternate_path_prefetch = FALSE,
                               ![w].last_used = current_cycle]
      BY <2>2 DEF Lookup
    <3> DEFINE used == [UOP[w] EXCEPT !.alternate_path_prefetch = FALSE,
                                      !.last_used = current_cycle]
    <3>2. UOP[w] \in Way /\ current_cycle \in 0..MaxCycle
      BY DEF TypeOK
    <3>3. used \in Way
      BY <3>2 DEF Way
    <3>4. UOP' = [UOP EXCEPT ![w] = used]
      BY <3>1 DEF TypeOK
    <3> HIDE DEF used
    <3>5. UOP' \in [Ways -> Way] /\ current_cycle' = current_cycle
      BY <2>2, <3>3, <3>4 DEF Lookup, TypeOK
    <3> QED BY <3>2, <3>5 DEF TypeOK
  <2>3. ASSUME NEW window \in Windows, NEW kind \in Kinds, NEW alternate \in BOOLEAN,
               Insert(window, kind, alternate)
        PROVE  TypeOK'
    BY <2>3, InsertType
  <2>4. CASE UNCHANGED vars
    BY <2>4 DEF vars, TypeOK
  <2> QED BY <2>1, <2>2, <2>3, <2>4 DEF Next
<1> QED BY <1>1, <1>2, PTL DEF Spec

-----------------------------------------------------------------------------
(* Replacement.                                                            *)

LEMMA WaysFinite ==
  /\ NUM_WAYS \in Nat \ {0} /\ LRU_WAYS \in Nat \ {0}
  /\ IsFiniteSet(Ways) /\ Cardinality(Ways) = NUM_WAYS
BY MicroOpCacheAssumption, FS_Interval DEF Ways

LEMMA CompetingFacts ==
  ASSUME NEW C \in Competing
  PROVE  /\ C \subseteq Ways /\ IsFiniteSet(C) /\ Cardinality(C) \in Nat
         /\ Cardinality(C) <= LRU_WAYS
         /\ Cardinality(C) < LRU_WAYS => C = Ways
         /\ \A v \in C, u \in Ways \ C : UOP[v].last_used <= UOP[u].last_used
<1>1. C \subseteq Ways /\ \A v \in C, u \in Ways \ C : UOP[v].last_used <= UOP[u].last_used
  BY DEF Competing
<1>2. Cardinality(C) = IF LRU_WAYS < NUM_WAYS THEN LRU_WAYS ELSE NUM_WAYS
  BY DEF Competing
<1>3. IsFiniteSet(C) /\ Cardinality(C) \in Nat /\ (Cardinality(Ways) = Cardinality(C) => C = Ways)
  BY <1>1, WaysFinite, FS_Subset, FS_CardinalityType
<1>4. Cardinality(C) <= LRU_WAYS /\ (Cardinality(C) < LRU_WAYS => Cardinality(C) = NUM_WAYS)
  BY <1>2, WaysFinite
<1> QED BY <1>1, <1>3, <1>4, WaysFinite

\* The way that goes is the right one.
LEMMA VictimAsDocumented ==
  ASSUME TypeOK, NEW C \in Competing, NEW w \in Ways, Victim(C, w)
  PROVE  LET Older(v) == {u \in Ways : UOP[u].last_used < UOP[v].last_used}
             NotYounger(v) == {u \in Ways \ {v} : UOP[u].last_used <= UOP[v].last_used}
             Alternate(v) == UOP[v].alternate_path_prefetch
         IN  /\ Cardinality(Older(w)) < LRU_WAYS
             /\ \A v \in Older(w) : Alternate(w) /\ ~Alternate(v)
             /\ \A v \in Ways : Cardinality(NotYounger(v)) < LRU_WAYS /\ Alternate(v)
                                 => Alternate(w)
<1> DEFINE Older(v) == {u \in Ways : UOP[u].last_used < UOP[v].last_used}
           NotYounger(v) == {u \in Ways \ {v} : UOP[u].last_used <= UOP[v].last_used}
           Alternate(v) == UOP[v].alternate_path_prefetch
<1>1. \A v \in Ways : UOP[v].last_used \in Int /\ Alternate(v) \in BOOLEAN
  BY WayFields, MicroOpCacheAssumption DEF TypeOK
<1>2. w \in C /\ \A v \in C : ~Before(v, w)
  BY DEF Victim
<1>3. \A v \in Older(w) : v \in C
  BY <1>1, <1>2, CompetingFacts
<1>4. Cardinality(Older(w)) < LRU_WAYS
  <2>1. Older(w) \subseteq C \ {w}
    BY <1>1, <1>3
  <2>2. IsFiniteSet(C \ {w}) /\ Cardinality(C \ {w}) = Cardinality(C) - 1
    BY <1>2, CompetingFacts, FS_RemoveElement
  <2>3. Cardinality(Older(w)) \in Nat /\ Cardinality(Older(w)) <= Cardinality(C \ {w})
    BY <2>1, <2>2, FS_Subset, FS_CardinalityType
  <2> HIDE DEF Older
  <2> QED BY <2>2, <2>3, CompetingFacts, WaysFinite
<1>5. ASSUME NEW v \in Older(w)
      PROVE  Alternate(w) /\ ~Alternate(v)
  <2>1. ~Before(v, w) /\ v \in Ways /\ UOP[v].last_used < UOP[w].last_used
    BY <1>2, <1>3
  <2> QED BY <1>1, <2>1 DEF Before
<1>6. ASSUME NEW v \in Ways, Cardinality(NotYounger(v)) < LRU_WAYS, Alternate(v)
      PROVE  Alternate(w)
  <2>1. v \in C
    <3> SUFFICES ASSUME v \notin C
                 PROVE  FALSE
      OBVIOUS
    <3>1. C \subseteq NotYounger(v)
      BY CompetingFacts
    <3>2. IsFiniteSet(NotYounger(v))
      BY WaysFinite, FS_Subset
    <3>3. Cardinality(C) <= Cardinality(NotYounger(v)) /\ Cardinality(NotYounger(v)) \in Nat
      BY <3>1, <3>2, FS_Subset, FS_CardinalityType
    <3> HIDE DEF NotYounger
    <3>4. Cardinality(C) < LRU_WAYS
      BY <1>6, <3>3, CompetingFacts, WaysFinite
    <3> QED BY <3>4, CompetingFacts
  <2>2. ~Before(v, w)
    BY <1>2, <2>1
  <2> QED BY <1>1, <1>6, <2>2 DEF Before
<1> QED BY <1>4, <1>5, <1>6

\* The window of a way changes only by a replacement, in every execution the one the
\* project documents, with any number of ways and however last_used ties.
THEOREM EvictsRightWay == Spec => EvictsAsDocumented
<1> DEFINE RightWay ==
      \A w \in Ways : UOP'[w].window # UOP[w].window =>
        LET Older(v) == {u \in Ways : UOP[u].last_used < UOP[v].last_used}
            NotYounger(v) == {u \in Ways \ {v} : UOP[u].last_used <= UOP[v].last_used}
            Alternate(v) == UOP[v].alternate_path_prefetch
        IN  /\ Cardinality(Older(w)) < LRU_WAYS
            /\ \A v \in Older(w) : Alternate(w) /\ ~Alternate(v)
            /\ \A v \in Ways : Cardinality(NotYounger(v)) < LRU_WAYS /\ Alternate(v)
                                => Alternate(w)
           Victims(w) == \E C \in Competing : Victim(C, w)
<1>1. ASSUME TypeOK, [Next]_vars
      PROVE  \A w \in Ways : UOP'[w].window # UOP[w].window => Victims(w)
  <2>1. CASE Tick \/ UNCHANGED vars
    BY <2>1 DEF Tick, vars
  <2>2. ASSUME NEW window \in Windows, Lookup(window), NEW w \in Ways
        PROVE  UOP'[w].window = UOP[w].window
    <3>1. PICK v \in Ways :
            UOP' = [UOP EXCEPT ![v].alternate_path_prefetch = FALSE,
                               ![v].last_used = current_cycle]
      BY <2>2 DEF Lookup
    <3>2. UOP \in [Ways -> Way]
      BY <1>1 DEF TypeOK
    <3> QED BY <3>1, <3>2 DEF Way
  <2>3. ASSUME NEW window \in Windows, NEW kind \in Kinds, NEW alternate \in BOOLEAN,
               Insert(window, kind, alternate)
        PROVE  \A w \in Ways : UOP'[w].window # UOP[w].window => Victims(w)
    <3> DEFINE ways == Reopened(window, EndsTaken(kind))
    <3>1. ways \in [Ways -> Way] /\ \A w \in Ways : ways[w].window = UOP[w].window
      BY <1>1, KindBits, ReopenedType
    <3>2. CASE Joins(window, kind, alternate)
      <4>1. PICK w \in Ways : UOP' = [ways EXCEPT ![w] =
                    [ways[w] EXCEPT !.terminated_by_taken = EndsTaken(kind),
                                    !.num_br = IF IsBranch(kind) THEN @ + 1 ELSE @,
                                    !.last_used = current_cycle,
                                    !.alternate_path_prefetch = @ \/ alternate]]
        BY <3>2 DEF Joins
      <4> HIDE DEF ways
      <4>2. \A v \in Ways : UOP'[v].window = ways[v].window
        BY <3>1, <4>1 DEF Way
      <4> QED BY <3>1, <4>2
    <3>3. CASE Replaces(window, kind, alternate)
      <4>1. PICK w \in Ways :
              /\ Victims(w)
              /\ UOP' = [ways EXCEPT ![w] = NewWay(window, alternate)]
        BY <3>3 DEF Replaces
      <4> HIDE DEF ways, Victims
      <4>2. \A v \in Ways : v # w => UOP'[v] = ways[v]
        BY <3>1, <4>1
      <4> QED BY <3>1, <4>1, <4>2
    <3> QED BY <1>1, <2>3, <3>2, <3>3, InsertSteps
  <2> QED BY <1>1, <2>1, <2>2, <2>3 DEF Next
<1>2. ASSUME TypeOK, [Next]_vars
      PROVE  RightWay
  BY <1>1, <1>2, VictimAsDocumented
<1>3. TypeOK /\ [Next]_vars => [RightWay]_vars
  BY <1>2
<1> QED BY <1>3, TypeCorrect, PTL DEF Spec, EvictsAsDocumented
=============================================================================
