-------------------------- MODULE UopPrefetchProofs --------------------------
(***************************************************************************)
(* Theorems about UopPrefetch, for every set of paths, every size of its   *)
(* queues and any number of branches and fetches.                          *)
(***************************************************************************)
EXTENDS UopPrefetch, SequenceTheorems, TLAPS

\* Instructions not gathered yet know whether their branch is resolved.
PathKnows ==
  \A n \in DOMAIN ips_to_prefetch :
    ips_to_prefetch[n].by_isntr \in resolved => ips_to_prefetch[n].br_already_resolved

\* The inductive invariant.
PrefetchInv ==
  TypeOK /\ OneEntryPerLine /\ PathKnows /\ ResolutionNotLost /\ IssuedIsInFlight

-----------------------------------------------------------------------------
(* Sequences.                                                              *)

LEMMA SeqFacts ==
  ASSUME NEW S, NEW seq \in Seq(S)
  PROVE  /\ Len(seq) \in Nat
         /\ DOMAIN seq = 1..Len(seq)
         /\ \A n \in DOMAIN seq : seq[n] \in S
BY LenProperties, ElementOfSeq

LEMMA MapIsSeq ==
  ASSUME NEW S, NEW T, NEW seq \in Seq(S), NEW new,
         new = [n \in DOMAIN seq |-> new[n]],
         \A n \in DOMAIN seq : new[n] \in T
  PROVE  new \in Seq(T) /\ Len(new) = Len(seq) /\ DOMAIN new = DOMAIN seq
<1>1. Len(seq) \in Nat /\ DOMAIN seq = 1..Len(seq)
  BY SeqFacts
<1>2. new \in [1..Len(seq) -> T]
  BY <1>1
<1>3. new \in Seq(T)
  BY <1>1, <1>2, IsASeq
<1> QED BY <1>1, <1>2, <1>3, SeqFacts, LenProperties

\* What is left of a sequence without the stretch from n to m, and the stretch.
LEMMA CutProperties ==
  ASSUME NEW S, NEW seq \in Seq(S), NEW n \in DOMAIN seq, NEW m \in n..Len(seq)
  PROVE  LET rest == SubSeq(seq, 1, n - 1) \o SubSeq(seq, m + 1, Len(seq))
         IN  /\ rest \in Seq(S)
             /\ \A k \in DOMAIN rest : \E l \in DOMAIN seq : rest[k] = seq[l]
<1> DEFINE left == SubSeq(seq, 1, n - 1)
           right == SubSeq(seq, m + 1, Len(seq))
<1>1. Len(seq) \in Nat /\ DOMAIN seq = 1..Len(seq) /\ \A i \in 1..Len(seq) : seq[i] \in S
  BY SeqFacts
<1>0. n \in Nat /\ m \in Nat /\ 1 <= n /\ n <= m /\ m <= Len(seq)
  <2> DEFINE L == Len(seq)
  <2>1. n \in 1..L /\ m \in n..L /\ L \in Nat
    BY <1>1
  <2> HIDE DEF L
  <2>2. n \in Nat /\ m \in Nat /\ 1 <= n /\ n <= m /\ m <= L
    BY <2>1
  <2> QED BY <2>2 DEF L
<1>2. left \in Seq(S) /\ Len(left) = n - 1 /\ \A i \in 1..(n - 1) : left[i] = seq[i]
  <2>1. \A i \in 1..(n - 1) : seq[i] \in S
    BY <1>1
  <2> QED BY <2>1, <1>1, SubSeqProperties
<1>3. right \in Seq(S) /\ Len(right) = Len(seq) - m /\ \A i \in 1..(Len(seq) - m) : right[i] = seq[m + i]
  <2>1. \A i \in (m + 1)..Len(seq) : seq[i] \in S
    BY <1>1
  <2>2. m + 1 \in Int /\ Len(seq) \in Int
    BY <1>1
  <2>3. /\ right \in Seq(S)
        /\ Len(right) = IF m + 1 <= Len(seq) THEN Len(seq) - (m + 1) + 1 ELSE 0
        /\ \A i \in 1..(Len(seq) - (m + 1) + 1) : right[i] = seq[(m + 1) + i - 1]
    BY <2>1, <2>2, SubSeqProperties
  <2> HIDE DEF right
  <2>4. Len(right) = Len(seq) - m
    <3> DEFINE L == Len(seq)
    <3>1. Len(right) = IF m + 1 <= L THEN L - (m + 1) + 1 ELSE 0
      BY <2>3
    <3> HIDE DEF L
    <3>2. m \in Nat /\ m <= L /\ L \in Nat
      BY <1>0 DEF L
    <3>3. Len(right) = L - m
      BY <3>1, <3>2
    <3> QED BY <3>3 DEF L
  <2>5. ASSUME NEW i \in 1..(Len(seq) - m) PROVE right[i] = seq[m + i]
    <3>1. i \in 1..(Len(seq) - (m + 1) + 1) /\ (m + 1) + i - 1 = m + i
      BY <1>1
    <3> QED BY <3>1, <2>3
  <2> QED BY <2>3, <2>4, <2>5
<1>4. /\ left \o right \in Seq(S)
      /\ Len(left \o right) = Len(left) + Len(right)
      /\ \A i \in 1..(Len(left) + Len(right)) :
           (left \o right)[i] = IF i <= Len(left) THEN left[i] ELSE right[i - Len(left)]
  BY <1>2, <1>3, ConcatProperties
<1>5. DOMAIN (left \o right) = 1..(n - 1 + Len(seq) - m)
  <2>1. DOMAIN (left \o right) = 1..Len(left \o right)
    BY <1>4, SeqFacts
  <2> HIDE DEF left, right
  <2> QED BY <2>1, <1>1, <1>2, <1>3, <1>4
<1> HIDE DEF left, right
<1>6. ASSUME NEW k \in 1..(n - 1 + Len(seq) - m) PROVE \E i \in DOMAIN seq : (left \o right)[k] = seq[i]
  <2>1. CASE k <= n - 1
    <3>1. k \in 1..(n - 1) /\ k \in 1..(Len(left) + Len(right)) /\ k \in DOMAIN seq
      BY <2>1, <1>1, <1>2, <1>3
    <3>2. (left \o right)[k] = seq[k]
      BY <3>1, <1>2, <1>4
    <3> QED BY <3>1, <3>2
  <2>2. CASE k > n - 1
    <3>1. /\ k - (n - 1) \in 1..(Len(seq) - m) /\ m + (k - (n - 1)) \in DOMAIN seq
          /\ k \in 1..(Len(left) + Len(right)) /\ ~(k <= Len(left)) /\ k - Len(left) = k - (n - 1)
      BY <2>2, <1>1, <1>2, <1>3
    <3>2. (left \o right)[k] = seq[m + (k - (n - 1))]
      BY <3>1, <1>3, <1>4
    <3> QED BY <3>1, <3>2
  <2>3. k \in Int
    OBVIOUS
  <2>4. k <= n - 1 \/ k > n - 1
    BY <2>3, <1>0
  <2> QED BY <2>1, <2>2, <2>4
<1> QED BY <1>4, <1>5, <1>6 DEF left, right

-----------------------------------------------------------------------------
(* The invariant, one lemma per action.                                    *)

THEOREM InitInv == Init => PrefetchInv
<1> SUFFICES ASSUME Init PROVE PrefetchInv
  OBVIOUS
<1>1. TypeOK
  BY UopPrefetchAssumption, EmptySeq DEF Init, TypeOK
<1> QED BY <1>1 DEF Init, PrefetchInv, OneEntryPerLine, PathKnows, ResolutionNotLost, IssuedIsInFlight

\* Actions that leave the entries and the L1I alone.
LEMMA PathOnly ==
  ASSUME PrefetchInv, UNCHANGED <<UOP_CACHE_MSHR, resolved, l1iVars, decodeVars>>,
         fetched' \in {fetched, fetched + 1}, fetched' \in 0..MaxBranches,
         ips_to_prefetch' \in Seq(PrefEntry), PathKnows'
  PROVE  PrefetchInv'
<1>1. TypeOK'
  BY UopPrefetchAssumption DEF PrefetchInv, TypeOK, l1iVars, decodeVars
<1> QED BY <1>1 DEF PrefetchInv, OneEntryPerLine, ResolutionNotLost, IssuedIsInFlight, l1iVars

LEMMA FetchBranchInv == ASSUME PrefetchInv, NEW path \in Paths, FetchBranch(path) PROVE PrefetchInv'
<1> USE UopPrefetchAssumption
<1>1. /\ fetched \in 0..MaxBranches /\ resolved \subseteq 1..fetched
      /\ ips_to_prefetch \in Seq(PrefEntry)
      /\ fetched' = fetched + 1 /\ fetched' \in Branches /\ fetched' \in 0..MaxBranches
      /\ UNCHANGED <<UOP_CACHE_MSHR, resolved, l1iVars, decodeVars>>
  BY DEF PrefetchInv, TypeOK, FetchBranch, Branches
<1>2. CASE UNCHANGED ips_to_prefetch
  BY <1>1, <1>2, PathOnly DEF PrefetchInv, PathKnows
<1>3. CASE ~UNCHANGED ips_to_prefetch
  <2>1. ips_to_prefetch' =
          [n \in DOMAIN path |->
             [ip |-> path[n], by_isntr |-> fetched', btb_checked |-> FALSE,
              dib_check_done |-> FALSE, dib_hit |-> FALSE, br_already_resolved |-> FALSE]]
    BY <1>3 DEF FetchBranch
  <2>2. path \in Seq(Ips)
    OBVIOUS
  <2>3. \A n \in DOMAIN path : path[n] \in Ips
    BY <2>2, SeqFacts
  <2>4. \A n \in DOMAIN path : ips_to_prefetch'[n] \in PrefEntry
    BY <1>1, <2>1, <2>3 DEF PrefEntry
  <2>5. ips_to_prefetch' \in Seq(PrefEntry)
    BY <2>1, <2>2, <2>4, MapIsSeq
  <2>6. \A n \in DOMAIN path : ips_to_prefetch'[n].by_isntr \notin resolved
    BY <1>1, <2>1
  <2>7. PathKnows'
    BY <1>1, <2>1, <2>6 DEF PathKnows
  <2> QED BY <1>1, <2>5, <2>7, PathOnly
<1> QED BY <1>2, <1>3

\* check_contention changes the marks of its accesses only.
LEMMA MarksInv ==
  ASSUME PrefetchInv, UNCHANGED <<UOP_CACHE_MSHR, branchVars, l1iVars, decodeVars>>,
         ips_to_prefetch' = [n \in DOMAIN ips_to_prefetch |-> ips_to_prefetch'[n]],
         \A n \in DOMAIN ips_to_prefetch :
           /\ ips_to_prefetch'[n] \in PrefEntry
           /\ ips_to_prefetch'[n].by_isntr = ips_to_prefetch[n].by_isntr
           /\ ips_to_prefetch'[n].br_already_resolved = ips_to_prefetch[n].br_already_resolved
  PROVE  PrefetchInv'
<1>1. ips_to_prefetch \in Seq(PrefEntry) /\ fetched \in 0..MaxBranches
  BY DEF PrefetchInv, TypeOK
<1>2. ips_to_prefetch' \in Seq(PrefEntry) /\ DOMAIN ips_to_prefetch' = DOMAIN ips_to_prefetch
  BY <1>1, MapIsSeq
<1>3. PathKnows'
  BY <1>2 DEF PrefetchInv, PathKnows, branchVars
<1> QED BY <1>1, <1>2, <1>3, PathOnly DEF branchVars

LEMMA CheckBtbInv == PrefetchInv /\ CheckBtb => PrefetchInv'
<1> SUFFICES ASSUME PrefetchInv, CheckBtb PROVE PrefetchInv'
  OBVIOUS
<1>1. ips_to_prefetch \in Seq(PrefEntry) /\ \A n \in DOMAIN ips_to_prefetch : ips_to_prefetch[n] \in PrefEntry
  BY SeqFacts DEF PrefetchInv, TypeOK
<1>2. PICK n \in DOMAIN ips_to_prefetch :
        ips_to_prefetch' = [ips_to_prefetch EXCEPT ![n].btb_checked = TRUE]
  BY DEF CheckBtb
<1>3. \A k \in DOMAIN ips_to_prefetch :
        ips_to_prefetch'[k] = IF k = n THEN [ips_to_prefetch[k] EXCEPT !.btb_checked = TRUE]
                              ELSE ips_to_prefetch[k]
  BY <1>2
<1>4. \A k \in DOMAIN ips_to_prefetch :
        /\ ips_to_prefetch'[k] \in PrefEntry
        /\ ips_to_prefetch'[k].by_isntr = ips_to_prefetch[k].by_isntr
        /\ ips_to_prefetch'[k].br_already_resolved = ips_to_prefetch[k].br_already_resolved
  BY <1>1, <1>3 DEF PrefEntry
<1> QED BY <1>2, <1>4, MarksInv DEF CheckBtb

LEMMA CheckDibInv == ASSUME PrefetchInv, NEW hit \in BOOLEAN, CheckDib(hit) PROVE PrefetchInv'
<1>1. ips_to_prefetch \in Seq(PrefEntry) /\ \A n \in DOMAIN ips_to_prefetch : ips_to_prefetch[n] \in PrefEntry
  BY SeqFacts DEF PrefetchInv, TypeOK
<1>2. PICK n, m \in DOMAIN ips_to_prefetch :
        ips_to_prefetch' = [k \in DOMAIN ips_to_prefetch |->
           IF k \in n..m THEN [ips_to_prefetch[k] EXCEPT !.dib_check_done = TRUE, !.dib_hit = hit]
           ELSE ips_to_prefetch[k]]
  BY DEF CheckDib
<1>3. \A k \in DOMAIN ips_to_prefetch :
        /\ ips_to_prefetch'[k] \in PrefEntry
        /\ ips_to_prefetch'[k].by_isntr = ips_to_prefetch[k].by_isntr
        /\ ips_to_prefetch'[k].br_already_resolved = ips_to_prefetch[k].br_already_resolved
  BY <1>1, <1>2 DEF PrefEntry
<1> QED BY <1>2, <1>3, MarksInv DEF CheckDib

\* The resolution of a branch marks both queues.
LEMMA ResolveBranchInv == ASSUME PrefetchInv, NEW b \in Branches, ResolveBranch(b) PROVE PrefetchInv'
<1>1. /\ ips_to_prefetch \in Seq(PrefEntry) /\ \A n \in DOMAIN ips_to_prefetch : ips_to_prefetch[n] \in PrefEntry
      /\ UOP_CACHE_MSHR \in Seq(UopMSHREntry) /\ \A n \in DOMAIN UOP_CACHE_MSHR : UOP_CACHE_MSHR[n] \in UopMSHREntry
  BY SeqFacts DEF PrefetchInv, TypeOK
<1>2. /\ b \in 1..fetched
      /\ resolved' = resolved \cup {b}
      /\ ips_to_prefetch' = MarkResolved(b)
      /\ UNCHANGED <<fetched, l1iVars, decodeVars>>
  BY DEF ResolveBranch
<1>3. UOP_CACHE_MSHR' =
       [n \in DOMAIN UOP_CACHE_MSHR |->
          [UOP_CACHE_MSHR[n] EXCEPT !.branch_resolved = @ \/ UOP_CACHE_MSHR[n].by_instr = b]]
  BY DEF ResolveBranch
<1>4. \A n \in DOMAIN ips_to_prefetch :
        /\ ips_to_prefetch'[n] \in PrefEntry
        /\ ips_to_prefetch'[n].by_isntr = ips_to_prefetch[n].by_isntr
        /\ ips_to_prefetch'[n].br_already_resolved
             = (ips_to_prefetch[n].br_already_resolved \/ ips_to_prefetch[n].by_isntr = b)
  BY <1>1, <1>2 DEF PrefEntry, MarkResolved
<1>5. ips_to_prefetch' \in Seq(PrefEntry) /\ DOMAIN ips_to_prefetch' = DOMAIN ips_to_prefetch
  <2>1. ips_to_prefetch' = [n \in DOMAIN ips_to_prefetch |-> ips_to_prefetch'[n]]
    BY <1>2 DEF MarkResolved
  <2> QED BY <1>1, <1>4, <2>1, MapIsSeq
<1>6. \A n \in DOMAIN UOP_CACHE_MSHR :
        /\ UOP_CACHE_MSHR'[n] \in UopMSHREntry
        /\ UOP_CACHE_MSHR'[n].line = UOP_CACHE_MSHR[n].line
        /\ UOP_CACHE_MSHR'[n].by_instr = UOP_CACHE_MSHR[n].by_instr
        /\ UOP_CACHE_MSHR'[n].pref_done = UOP_CACHE_MSHR[n].pref_done
        /\ UOP_CACHE_MSHR'[n].added_to_pq = UOP_CACHE_MSHR[n].added_to_pq
        /\ UOP_CACHE_MSHR'[n].branch_resolved
             = (UOP_CACHE_MSHR[n].branch_resolved \/ UOP_CACHE_MSHR[n].by_instr = b)
  BY <1>1, <1>3 DEF UopMSHREntry
<1>7. /\ UOP_CACHE_MSHR' \in Seq(UopMSHREntry) /\ Len(UOP_CACHE_MSHR') = Len(UOP_CACHE_MSHR)
      /\ DOMAIN UOP_CACHE_MSHR' = DOMAIN UOP_CACHE_MSHR
  <2>1. UOP_CACHE_MSHR' = [n \in DOMAIN UOP_CACHE_MSHR |-> UOP_CACHE_MSHR'[n]]
    BY <1>3
  <2> QED BY <1>1, <1>6, <2>1, MapIsSeq
<1>8. TypeOK'
  BY <1>2, <1>5, <1>7 DEF PrefetchInv, TypeOK, l1iVars, decodeVars
<1>9. OneEntryPerLine'
  BY <1>6, <1>7 DEF PrefetchInv, OneEntryPerLine
<1>10. PathKnows'
  BY <1>2, <1>4, <1>5 DEF PrefetchInv, PathKnows
<1>11. ResolutionNotLost'
  BY <1>2, <1>6, <1>7 DEF PrefetchInv, ResolutionNotLost
<1>12. IssuedIsInFlight'
  BY <1>2, <1>6, <1>7 DEF PrefetchInv, IssuedIsInFlight, l1iVars
<1> QED BY <1>8, <1>9, <1>10, <1>11, <1>12 DEF PrefetchInv

\* Actions that only mark entries as issued or done.
LEMMA MarkEntries ==
  ASSUME PrefetchInv, UNCHANGED <<ips_to_prefetch, branchVars>>,
         UOP_CACHE_MSHR' = [n \in DOMAIN UOP_CACHE_MSHR |-> UOP_CACHE_MSHR'[n]],
         \A n \in DOMAIN UOP_CACHE_MSHR :
           /\ UOP_CACHE_MSHR'[n] \in UopMSHREntry
           /\ UOP_CACHE_MSHR'[n].line = UOP_CACHE_MSHR[n].line
           /\ UOP_CACHE_MSHR'[n].by_instr = UOP_CACHE_MSHR[n].by_instr
           /\ UOP_CACHE_MSHR'[n].branch_resolved = UOP_CACHE_MSHR[n].branch_resolved
  PROVE  /\ UOP_CACHE_MSHR' \in Seq(UopMSHREntry) /\ Len(UOP_CACHE_MSHR') = Len(UOP_CACHE_MSHR)
         /\ DOMAIN UOP_CACHE_MSHR' = DOMAIN UOP_CACHE_MSHR
         /\ OneEntryPerLine' /\ PathKnows' /\ ResolutionNotLost'
<1>1. UOP_CACHE_MSHR \in Seq(UopMSHREntry)
  BY DEF PrefetchInv, TypeOK
<1>2. /\ UOP_CACHE_MSHR' \in Seq(UopMSHREntry) /\ Len(UOP_CACHE_MSHR') = Len(UOP_CACHE_MSHR)
      /\ DOMAIN UOP_CACHE_MSHR' = DOMAIN UOP_CACHE_MSHR
  BY <1>1, MapIsSeq
<1>3. OneEntryPerLine'
  BY <1>2 DEF PrefetchInv, OneEntryPerLine
<1>4. PathKnows'
  BY DEF PrefetchInv, PathKnows, branchVars
<1>5. ResolutionNotLost'
  BY <1>2 DEF PrefetchInv, ResolutionNotLost, branchVars
<1> QED BY <1>2, <1>3, <1>4, <1>5

LEMMA IssuePrefetchInv ==
  ASSUME PrefetchInv, NEW n \in DOMAIN UOP_CACHE_MSHR, IssuePrefetch(n) PROVE PrefetchInv'
<1>1. UOP_CACHE_MSHR \in Seq(UopMSHREntry) /\ \A k \in DOMAIN UOP_CACHE_MSHR : UOP_CACHE_MSHR[k] \in UopMSHREntry
  BY SeqFacts DEF PrefetchInv, TypeOK
<1>2. /\ UOP_CACHE_MSHR' = [UOP_CACHE_MSHR EXCEPT ![n].added_to_pq = TRUE]
      /\ l1i_prefetches' = l1i_prefetches \cup {UOP_CACHE_MSHR[n].line}
      /\ UNCHANGED <<ips_to_prefetch, branchVars, l1i_fetches, processed, fetches, decodeVars>>
  BY DEF IssuePrefetch
<1>3. \A k \in DOMAIN UOP_CACHE_MSHR :
        UOP_CACHE_MSHR'[k] = IF k = n THEN [UOP_CACHE_MSHR[k] EXCEPT !.added_to_pq = TRUE]
                             ELSE UOP_CACHE_MSHR[k]
  BY <1>2
<1>4. \A k \in DOMAIN UOP_CACHE_MSHR :
        /\ UOP_CACHE_MSHR'[k] \in UopMSHREntry
        /\ UOP_CACHE_MSHR'[k].line = UOP_CACHE_MSHR[k].line
        /\ UOP_CACHE_MSHR'[k].by_instr = UOP_CACHE_MSHR[k].by_instr
        /\ UOP_CACHE_MSHR'[k].branch_resolved = UOP_CACHE_MSHR[k].branch_resolved
        /\ UOP_CACHE_MSHR'[k].pref_done = UOP_CACHE_MSHR[k].pref_done
        /\ UOP_CACHE_MSHR'[k].added_to_pq = (k = n \/ UOP_CACHE_MSHR[k].added_to_pq)
  BY <1>1, <1>3 DEF UopMSHREntry
<1>5. /\ UOP_CACHE_MSHR' \in Seq(UopMSHREntry) /\ Len(UOP_CACHE_MSHR') = Len(UOP_CACHE_MSHR)
      /\ DOMAIN UOP_CACHE_MSHR' = DOMAIN UOP_CACHE_MSHR
      /\ OneEntryPerLine' /\ PathKnows' /\ ResolutionNotLost'
  BY <1>2, <1>4, MarkEntries
<1>6. UOP_CACHE_MSHR[n].line \in Lines
  BY <1>1 DEF UopMSHREntry
<1>7. TypeOK'
  BY <1>2, <1>5, <1>6 DEF PrefetchInv, TypeOK, branchVars, decodeVars
<1>8. IssuedIsInFlight'
  BY <1>2, <1>4, <1>5 DEF PrefetchInv, IssuedIsInFlight
<1> QED BY <1>5, <1>7, <1>8 DEF PrefetchInv

\* A line that comes completes the entries that await it, and no other.
LEMMA LineReceivedProperties ==
  ASSUME PrefetchInv, NEW line, LineReceived(line), UNCHANGED <<ips_to_prefetch, branchVars>>
  PROVE  /\ UOP_CACHE_MSHR' \in Seq(UopMSHREntry) /\ Len(UOP_CACHE_MSHR') = Len(UOP_CACHE_MSHR)
         /\ DOMAIN UOP_CACHE_MSHR' = DOMAIN UOP_CACHE_MSHR
         /\ OneEntryPerLine' /\ PathKnows' /\ ResolutionNotLost'
         /\ \A n \in DOMAIN UOP_CACHE_MSHR :
              /\ UOP_CACHE_MSHR'[n].line = UOP_CACHE_MSHR[n].line
              /\ UOP_CACHE_MSHR'[n].added_to_pq = UOP_CACHE_MSHR[n].added_to_pq
              /\ ~UOP_CACHE_MSHR'[n].pref_done =>
                   ~UOP_CACHE_MSHR[n].pref_done /\ UOP_CACHE_MSHR[n].line # line
<1>1. UOP_CACHE_MSHR \in Seq(UopMSHREntry) /\ \A n \in DOMAIN UOP_CACHE_MSHR : UOP_CACHE_MSHR[n] \in UopMSHREntry
  BY SeqFacts DEF PrefetchInv, TypeOK
<1>2. UOP_CACHE_MSHR' = [n \in DOMAIN UOP_CACHE_MSHR |->
                       [UOP_CACHE_MSHR[n] EXCEPT !.pref_done = @ \/ Awaits(n, line)]]
  BY DEF LineReceived
<1>3. \A n \in DOMAIN UOP_CACHE_MSHR :
        /\ UOP_CACHE_MSHR'[n] \in UopMSHREntry
        /\ UOP_CACHE_MSHR'[n].line = UOP_CACHE_MSHR[n].line
        /\ UOP_CACHE_MSHR'[n].by_instr = UOP_CACHE_MSHR[n].by_instr
        /\ UOP_CACHE_MSHR'[n].branch_resolved = UOP_CACHE_MSHR[n].branch_resolved
        /\ UOP_CACHE_MSHR'[n].added_to_pq = UOP_CACHE_MSHR[n].added_to_pq
        /\ UOP_CACHE_MSHR'[n].pref_done = (UOP_CACHE_MSHR[n].pref_done \/ Awaits(n, line))
  <2>1. \A n \in DOMAIN UOP_CACHE_MSHR : Awaits(n, line) \in BOOLEAN
    BY DEF Awaits
  <2> QED BY <1>1, <1>2, <2>1 DEF UopMSHREntry
<1>4. UOP_CACHE_MSHR' = [n \in DOMAIN UOP_CACHE_MSHR |-> UOP_CACHE_MSHR'[n]]
  BY <1>2
<1>5. /\ UOP_CACHE_MSHR' \in Seq(UopMSHREntry) /\ Len(UOP_CACHE_MSHR') = Len(UOP_CACHE_MSHR)
      /\ DOMAIN UOP_CACHE_MSHR' = DOMAIN UOP_CACHE_MSHR
      /\ OneEntryPerLine' /\ PathKnows' /\ ResolutionNotLost'
  BY <1>3, <1>4, MarkEntries
<1> QED BY <1>3, <1>5 DEF Awaits

LEMMA GatheredIsSeq ==
  ASSUME TypeOK, NEW line, NEW alternate \in BOOLEAN
  PROVE  Gathered(line, alternate) \in Seq(DecodeEntry)
<1>1. CASE \E n \in DOMAIN UOP_CACHE_MSHR : Awaits(n, line)
  <2> DEFINE n == CHOOSE k \in DOMAIN UOP_CACHE_MSHR : Awaits(k, line)
             ips == UOP_CACHE_MSHR[n].ips_in_line
             new == [k \in DOMAIN ips |-> [ip |-> ips[k], is_alternate_path |-> alternate]]
  <2>1. n \in DOMAIN UOP_CACHE_MSHR
    BY <1>1
  <2> HIDE DEF n
  <2>2. UOP_CACHE_MSHR[n] \in UopMSHREntry
    BY <2>1, SeqFacts DEF TypeOK
  <2>3. ips \in Seq(Ips)
    BY <2>2 DEF UopMSHREntry
  <2> HIDE DEF ips
  <2>4. \A k \in DOMAIN ips : new[k] \in DecodeEntry
    BY <2>3, SeqFacts DEF DecodeEntry
  <2>5. new \in Seq(DecodeEntry)
    BY <2>3, <2>4, MapIsSeq
  <2> QED BY <1>1, <2>5 DEF Gathered, ips, n
<1>2. CASE ~\E n \in DOMAIN UOP_CACHE_MSHR : Awaits(n, line)
  BY <1>2, EmptySeq DEF Gathered
<1> QED BY <1>1, <1>2

LEMMA ServePrefetchInv == ASSUME PrefetchInv, NEW line \in Lines, ServePrefetch(line) PROVE PrefetchInv'
<1>1. /\ l1i_prefetches' = l1i_prefetches \ {line}
      /\ LineReceived(line)
      /\ cache_pref_decode_buffer' = cache_pref_decode_buffer \o Gathered(line, TRUE)
      /\ UNCHANGED <<ips_to_prefetch, branchVars, l1i_fetches, processed, fetches,
                     PRF_DECODE_BUFFER, last_pref_decoded>>
  BY DEF ServePrefetch
<1>2. cache_pref_decode_buffer' \in Seq(DecodeEntry)
  <2>1. cache_pref_decode_buffer \in Seq(DecodeEntry) /\ Gathered(line, TRUE) \in Seq(DecodeEntry)
    BY GatheredIsSeq DEF PrefetchInv, TypeOK
  <2> QED BY <1>1, <2>1, ConcatProperties
<1>3. /\ UOP_CACHE_MSHR' \in Seq(UopMSHREntry) /\ Len(UOP_CACHE_MSHR') = Len(UOP_CACHE_MSHR)
      /\ OneEntryPerLine' /\ PathKnows' /\ ResolutionNotLost'
  BY <1>1, LineReceivedProperties
<1>4. TypeOK'
  BY <1>1, <1>2, <1>3 DEF PrefetchInv, TypeOK, branchVars
<1>5. IssuedIsInFlight'
  BY <1>1, LineReceivedProperties DEF PrefetchInv, IssuedIsInFlight
<1> QED BY <1>3, <1>4, <1>5 DEF PrefetchInv

\* Actions of the L1I that leave every line in flight that was.
LEMMA StillInFlight ==
  ASSUME PrefetchInv, UNCHANGED <<ips_to_prefetch, UOP_CACHE_MSHR, branchVars, decodeVars>>,
         l1i_prefetches' \subseteq Lines, l1i_fetches' \subseteq Lines,
         processed' \in Seq(Lines), fetches' \in 0..MaxFetches,
         \A line \in l1i_prefetches \cup l1i_fetches :
           \/ line \in l1i_prefetches' \cup l1i_fetches'
           \/ \E k \in DOMAIN processed' : processed'[k] = line,
         \A n \in DOMAIN processed : \E k \in DOMAIN processed' : processed'[k] = processed[n]
  PROVE  PrefetchInv'
<1>1. TypeOK'
  BY DEF PrefetchInv, TypeOK, branchVars, decodeVars
<1>2. OneEntryPerLine' /\ PathKnows' /\ ResolutionNotLost'
  BY DEF PrefetchInv, OneEntryPerLine, PathKnows, ResolutionNotLost, branchVars
<1>3. IssuedIsInFlight'
  BY DEF PrefetchInv, IssuedIsInFlight
<1> QED BY <1>1, <1>2, <1>3 DEF PrefetchInv

LEMMA AbsorbPrefetchInv == ASSUME PrefetchInv, NEW line \in Lines, AbsorbPrefetch(line) PROVE PrefetchInv'
<1>1. /\ l1i_prefetches \subseteq Lines /\ l1i_fetches \subseteq Lines
      /\ processed \in Seq(Lines) /\ fetches \in 0..MaxFetches
  BY DEF PrefetchInv, TypeOK
<1> QED BY <1>1, StillInFlight DEF AbsorbPrefetch

LEMMA DemandFetchInv == ASSUME PrefetchInv, NEW line \in Lines, DemandFetch(line) PROVE PrefetchInv'
<1>1. /\ l1i_prefetches \subseteq Lines /\ l1i_fetches \subseteq Lines
      /\ processed \in Seq(Lines) /\ fetches \in 0..MaxFetches
  BY DEF PrefetchInv, TypeOK
<1>2. fetches' \in 0..MaxFetches
  BY <1>1, UopPrefetchAssumption DEF DemandFetch
<1> QED BY <1>1, <1>2, StillInFlight DEF DemandFetch

LEMMA ReturnFetchInv == ASSUME PrefetchInv, NEW line \in Lines, ReturnFetch(line) PROVE PrefetchInv'
<1>1. /\ l1i_prefetches \subseteq Lines /\ l1i_fetches \subseteq Lines
      /\ processed \in Seq(Lines) /\ fetches \in 0..MaxFetches
  BY DEF PrefetchInv, TypeOK
<1>2. /\ l1i_fetches' = l1i_fetches \ {line}
      /\ processed' = Append(processed, line)
      /\ UNCHANGED <<ips_to_prefetch, UOP_CACHE_MSHR, branchVars, l1i_prefetches, fetches, decodeVars>>
  BY DEF ReturnFetch
<1>3. /\ processed' \in Seq(Lines) /\ Len(processed') = Len(processed) + 1
      /\ \A k \in 1..Len(processed) : processed'[k] = processed[k]
      /\ processed'[Len(processed) + 1] = line
  BY <1>1, <1>2, AppendProperties
<1>4. /\ Len(processed) \in Nat /\ DOMAIN processed = 1..Len(processed)
      /\ DOMAIN processed' = 1..Len(processed')
  BY <1>1, <1>3, SeqFacts
<1>5. Len(processed) + 1 \in DOMAIN processed' /\ DOMAIN processed \subseteq DOMAIN processed'
  BY <1>3, <1>4
<1>6. \A n \in DOMAIN processed : processed'[n] = processed[n]
  BY <1>3, <1>4
<1> QED BY <1>1, <1>2, <1>3, <1>5, <1>6, StillInFlight

LEMMA HandleMemoryReturnInv == PrefetchInv /\ HandleMemoryReturn => PrefetchInv'
<1> SUFFICES ASSUME PrefetchInv, HandleMemoryReturn PROVE PrefetchInv'
  OBVIOUS
<1> DEFINE line == Head(processed)
           all == PRF_DECODE_BUFFER \o Gathered(line, FALSE)
           room == IF Len(all) < PRF_DECODE_SIZE THEN Len(all) ELSE PRF_DECODE_SIZE
<1>1. /\ processed # <<>>
      /\ LineReceived(line)
      /\ PRF_DECODE_BUFFER' = SubSeq(all, 1, room)
      /\ processed' \in {processed, Tail(processed)}
      /\ UNCHANGED <<ips_to_prefetch, branchVars, l1i_prefetches, l1i_fetches, fetches,
                     cache_pref_decode_buffer, last_pref_decoded>>
  BY DEF HandleMemoryReturn
<1>2. PRF_DECODE_BUFFER' \in Seq(DecodeEntry) /\ Len(PRF_DECODE_BUFFER') <= PRF_DECODE_SIZE
  <2>1. PRF_DECODE_BUFFER \in Seq(DecodeEntry) /\ Gathered(line, FALSE) \in Seq(DecodeEntry)
    BY GatheredIsSeq DEF PrefetchInv, TypeOK
  <2>2. all \in Seq(DecodeEntry)
    BY <2>1, ConcatProperties
  <2> HIDE DEF all
  <2>3. Len(all) \in Nat /\ \A k \in 1..Len(all) : all[k] \in DecodeEntry
    BY <2>2, SeqFacts
  <2>4. room \in Nat /\ room <= Len(all) /\ room <= PRF_DECODE_SIZE
    BY <2>3, UopPrefetchAssumption
  <2> HIDE DEF room
  <2>5. \A k \in 1..room : all[k] \in DecodeEntry
    BY <2>3, <2>4
  <2>6. /\ SubSeq(all, 1, room) \in Seq(DecodeEntry)
        /\ Len(SubSeq(all, 1, room)) = IF 1 <= room THEN room - 1 + 1 ELSE 0
    BY <2>4, <2>5, SubSeqProperties
  <2> QED BY <1>1, <2>4, <2>6, UopPrefetchAssumption
<1> HIDE DEF all, room
<1>3. processed \in Seq(Lines) /\ Len(processed) \in Nat /\ DOMAIN processed = 1..Len(processed)
  BY SeqFacts DEF PrefetchInv, TypeOK
<1>4. /\ processed' \in Seq(Lines)
      /\ \A n \in DOMAIN processed : processed[n] # line => \E k \in DOMAIN processed' : processed'[k] = processed[n]
  <2>1. CASE processed' = processed
    BY <1>3, <2>1
  <2>2. CASE processed' = Tail(processed)
    <3>1. /\ processed' \in Seq(Lines) /\ Len(processed') = Len(processed) - 1
          /\ \A i \in 1..Len(processed') : processed'[i] = processed[i + 1]
      BY <1>1, <1>3, <2>2, HeadTailProperties
    <3>2. DOMAIN processed' = 1..Len(processed')
      BY <3>1, SeqFacts
    <3>3. ASSUME NEW n \in DOMAIN processed, processed[n] # line
          PROVE  \E k \in DOMAIN processed' : processed'[k] = processed[n]
      <4>1. line = processed[1]
        BY <1>1, <1>3
      <4>2. n \in 2..Len(processed)
        BY <1>3, <3>3, <4>1
      <4>3. n - 1 \in DOMAIN processed' /\ n - 1 + 1 = n
        BY <1>3, <3>1, <3>2, <4>2
      <4>4. processed'[n - 1] = processed[n]
        BY <3>1, <3>2, <4>3
      <4> QED BY <4>3, <4>4
    <3> QED BY <3>1, <3>3
  <2> QED BY <1>1, <2>1, <2>2
<1> HIDE DEF line
<1>5. /\ UOP_CACHE_MSHR' \in Seq(UopMSHREntry) /\ Len(UOP_CACHE_MSHR') = Len(UOP_CACHE_MSHR)
      /\ OneEntryPerLine' /\ PathKnows' /\ ResolutionNotLost'
  BY <1>1, LineReceivedProperties
<1>6. TypeOK'
  BY <1>1, <1>2, <1>4, <1>5 DEF PrefetchInv, TypeOK, branchVars
<1>7. IssuedIsInFlight'
  BY <1>1, <1>4, LineReceivedProperties DEF PrefetchInv, IssuedIsInFlight
<1> QED BY <1>5, <1>6, <1>7 DEF PrefetchInv

\* Actions of the decoders.
LEMMA DecodersOnly ==
  ASSUME PrefetchInv, UNCHANGED <<ips_to_prefetch, UOP_CACHE_MSHR, branchVars, l1iVars>>,
         cache_pref_decode_buffer' \in Seq(DecodeEntry),
         PRF_DECODE_BUFFER' \in Seq(DecodeEntry), Len(PRF_DECODE_BUFFER') <= PRF_DECODE_SIZE,
         last_pref_decoded' \in DecodeEntry \cup {Nothing}
  PROVE  PrefetchInv'
<1>1. TypeOK'
  BY DEF PrefetchInv, TypeOK, branchVars, l1iVars
<1>2. OneEntryPerLine' /\ PathKnows' /\ ResolutionNotLost' /\ IssuedIsInFlight'
  BY DEF PrefetchInv, OneEntryPerLine, PathKnows, ResolutionNotLost, IssuedIsInFlight, branchVars, l1iVars
<1> QED BY <1>1, <1>2 DEF PrefetchInv

LEMMA DecodePrefetchedInv == PrefetchInv /\ DecodePrefetched => PrefetchInv'
<1> SUFFICES ASSUME PrefetchInv, DecodePrefetched PROVE PrefetchInv'
  OBVIOUS
<1>1. /\ PRF_DECODE_BUFFER \in Seq(DecodeEntry) /\ Len(PRF_DECODE_BUFFER) <= PRF_DECODE_SIZE
      /\ PRF_DECODE_BUFFER # <<>> /\ Len(PRF_DECODE_BUFFER) \in Nat
      /\ cache_pref_decode_buffer \in Seq(DecodeEntry)
  BY LenProperties DEF PrefetchInv, TypeOK, DecodePrefetched
<1>2. /\ Head(PRF_DECODE_BUFFER) \in DecodeEntry
      /\ Tail(PRF_DECODE_BUFFER) \in Seq(DecodeEntry)
      /\ Len(Tail(PRF_DECODE_BUFFER)) = Len(PRF_DECODE_BUFFER) - 1
  BY <1>1, HeadTailProperties
<1>3. Len(Tail(PRF_DECODE_BUFFER)) <= PRF_DECODE_SIZE
  BY <1>1, <1>2, UopPrefetchAssumption
<1> QED BY <1>1, <1>2, <1>3, DecodersOnly DEF DecodePrefetched

LEMMA MoveToDecodeInv == PrefetchInv /\ MoveToDecode => PrefetchInv'
<1> SUFFICES ASSUME PrefetchInv, MoveToDecode PROVE PrefetchInv'
  OBVIOUS
<1>1. /\ PRF_DECODE_BUFFER \in Seq(DecodeEntry) /\ Len(PRF_DECODE_BUFFER) \in Nat
      /\ Len(PRF_DECODE_BUFFER) < PRF_DECODE_SIZE
      /\ cache_pref_decode_buffer \in Seq(DecodeEntry) /\ cache_pref_decode_buffer # <<>>
      /\ last_pref_decoded \in DecodeEntry \cup {Nothing}
  BY LenProperties DEF PrefetchInv, TypeOK, MoveToDecode, HasRoom
<1>2. /\ Head(cache_pref_decode_buffer) \in DecodeEntry
      /\ Tail(cache_pref_decode_buffer) \in Seq(DecodeEntry)
  BY <1>1, HeadTailProperties
<1>3. /\ Append(PRF_DECODE_BUFFER, Head(cache_pref_decode_buffer)) \in Seq(DecodeEntry)
      /\ Len(Append(PRF_DECODE_BUFFER, Head(cache_pref_decode_buffer))) = Len(PRF_DECODE_BUFFER) + 1
  BY <1>1, <1>2, AppendProperties
<1>4. Len(Append(PRF_DECODE_BUFFER, Head(cache_pref_decode_buffer))) <= PRF_DECODE_SIZE
  BY <1>1, <1>3, UopPrefetchAssumption
<1> QED BY <1>1, <1>2, <1>3, <1>4, DecodersOnly DEF MoveToDecode

LEMMA PopUopMSHRInv == PrefetchInv /\ PopUopMSHR => PrefetchInv'
<1> SUFFICES ASSUME PrefetchInv, PopUopMSHR PROVE PrefetchInv'
  OBVIOUS
<1>1. /\ UOP_CACHE_MSHR \in Seq(UopMSHREntry) /\ Len(UOP_CACHE_MSHR) <= UOP_MSHR
      /\ UOP_CACHE_MSHR # <<>>
      /\ UOP_CACHE_MSHR' = Tail(UOP_CACHE_MSHR)
      /\ UNCHANGED <<ips_to_prefetch, branchVars, l1iVars, decodeVars>>
  BY DEF PrefetchInv, TypeOK, PopUopMSHR, FrontDone
<1>2. /\ UOP_CACHE_MSHR' \in Seq(UopMSHREntry) /\ Len(UOP_CACHE_MSHR') = Len(UOP_CACHE_MSHR) - 1
      /\ \A i \in 1..Len(UOP_CACHE_MSHR') : UOP_CACHE_MSHR'[i] = UOP_CACHE_MSHR[i + 1]
  BY <1>1, HeadTailProperties
<1>3. /\ Len(UOP_CACHE_MSHR) \in Nat /\ DOMAIN UOP_CACHE_MSHR = 1..Len(UOP_CACHE_MSHR)
      /\ DOMAIN UOP_CACHE_MSHR' = 1..Len(UOP_CACHE_MSHR')
  BY <1>1, <1>2, SeqFacts
<1>4. \A n \in DOMAIN UOP_CACHE_MSHR' :
        n \in Int /\ n + 1 \in DOMAIN UOP_CACHE_MSHR /\ UOP_CACHE_MSHR'[n] = UOP_CACHE_MSHR[n + 1]
  BY <1>2, <1>3
<1>5. TypeOK'
  <2>1. Len(UOP_CACHE_MSHR') <= UOP_MSHR
    BY <1>1, <1>2, <1>3, UopPrefetchAssumption
  <2> QED BY <1>1, <1>2, <2>1 DEF PrefetchInv, TypeOK, branchVars, l1iVars, decodeVars
<1>6. OneEntryPerLine'
  <2>1. ASSUME NEW m \in DOMAIN UOP_CACHE_MSHR', NEW n \in DOMAIN UOP_CACHE_MSHR',
               UOP_CACHE_MSHR'[m].line = UOP_CACHE_MSHR'[n].line
        PROVE  m = n
    <3>1. m + 1 = n + 1
      BY <1>4, <2>1 DEF PrefetchInv, OneEntryPerLine
    <3> QED BY <1>4, <3>1
  <2> QED BY <2>1 DEF OneEntryPerLine
<1>7. PathKnows'
  BY <1>1 DEF PrefetchInv, PathKnows, branchVars
<1>8. ResolutionNotLost'
  BY <1>1, <1>4 DEF PrefetchInv, ResolutionNotLost, branchVars
<1>9. IssuedIsInFlight'
  BY <1>1, <1>4 DEF PrefetchInv, IssuedIsInFlight, l1iVars
<1> QED BY <1>5, <1>6, <1>7, <1>8, <1>9 DEF PrefetchInv

\* The entry made for a run is well formed, knows what its first instruction
\* knows, and is not issued.
LEMMA NewEntryProperties ==
  ASSUME PrefetchInv, NEW n \in DOMAIN ips_to_prefetch, NEW m \in n..Len(ips_to_prefetch)
  PROVE  /\ NewEntry(n, m) \in UopMSHREntry
         /\ NewEntry(n, m).by_instr \in resolved => NewEntry(n, m).branch_resolved
         /\ ~NewEntry(n, m).added_to_pq
<1> DEFINE L == Len(ips_to_prefetch)
           ips == [k \in 1..(m - n + 1) |-> ips_to_prefetch[n + k - 1].ip]
<1>1. L \in Nat /\ DOMAIN ips_to_prefetch = 1..L /\ \A k \in DOMAIN ips_to_prefetch : ips_to_prefetch[k] \in PrefEntry
  BY SeqFacts DEF PrefetchInv, TypeOK
<1>2. m \in n..L
  OBVIOUS
<1> HIDE DEF L
<1>3. n \in 1..L /\ n \in n..m /\ m - n + 1 \in Nat
  BY <1>1, <1>2
<1>4. \A k \in 1..(m - n + 1) : n + k - 1 \in 1..L
  BY <1>1, <1>2, <1>3
<1>5. \A k \in 1..(m - n + 1) : ips_to_prefetch[n + k - 1].ip \in Ips
  BY <1>1, <1>4 DEF PrefEntry
<1>6. ips \in Seq(Ips)
  <2> DEFINE c == m - n + 1
  <2>1. c \in Nat /\ ips \in [1..c -> Ips]
    BY <1>3, <1>5
  <2> HIDE DEF c, ips
  <2> QED BY <2>1, SeqDef
<1> HIDE DEF ips
<1>7. ips_to_prefetch[n].ip \in Ips /\ ips_to_prefetch[n].by_isntr \in Branches
  BY <1>1 DEF PrefEntry
<1>8. LineOf[ips_to_prefetch[n].ip] \in Lines
  BY <1>7 DEF Lines
<1>9. NewEntry(n, m) =
        [line |-> LineOf[ips_to_prefetch[n].ip], ips_in_line |-> ips,
         by_instr |-> ips_to_prefetch[n].by_isntr,
         branch_resolved |-> \E k \in n..m : ips_to_prefetch[k].br_already_resolved,
         pref_done |-> FALSE, added_to_pq |-> FALSE]
  BY DEF NewEntry, ips
<1>10. NewEntry(n, m) \in UopMSHREntry
  <2>1. (\E k \in n..m : ips_to_prefetch[k].br_already_resolved) \in BOOLEAN
    OBVIOUS
  <2> QED BY <1>6, <1>7, <1>8, <1>9, <2>1 DEF UopMSHREntry
<1>11. NewEntry(n, m).by_instr \in resolved => NewEntry(n, m).branch_resolved
  BY <1>3, <1>9 DEF PrefetchInv, PathKnows
<1> QED BY <1>9, <1>10, <1>11

\* A line that is there gains instructions only.
LEMMA GainInstructions ==
  ASSUME PrefetchInv, NEW k \in DOMAIN UOP_CACHE_MSHR, NEW joined \in Seq(Ips),
         UOP_CACHE_MSHR' = [n \in DOMAIN UOP_CACHE_MSHR |-> UOP_CACHE_MSHR'[n]],
         \A n \in DOMAIN UOP_CACHE_MSHR :
           UOP_CACHE_MSHR'[n] =
             IF n = k THEN [UOP_CACHE_MSHR[k] EXCEPT !.ips_in_line = joined] ELSE UOP_CACHE_MSHR[n],
         UNCHANGED <<branchVars, l1iVars, decodeVars>>,
         ips_to_prefetch' \in Seq(PrefEntry), PathKnows'
  PROVE  PrefetchInv'
<1>1. UOP_CACHE_MSHR \in Seq(UopMSHREntry) /\ \A n \in DOMAIN UOP_CACHE_MSHR : UOP_CACHE_MSHR[n] \in UopMSHREntry
  BY SeqFacts DEF PrefetchInv, TypeOK
<1>2. \A n \in DOMAIN UOP_CACHE_MSHR :
        /\ UOP_CACHE_MSHR'[n] \in UopMSHREntry
        /\ UOP_CACHE_MSHR'[n].line = UOP_CACHE_MSHR[n].line
        /\ UOP_CACHE_MSHR'[n].by_instr = UOP_CACHE_MSHR[n].by_instr
        /\ UOP_CACHE_MSHR'[n].branch_resolved = UOP_CACHE_MSHR[n].branch_resolved
        /\ UOP_CACHE_MSHR'[n].pref_done = UOP_CACHE_MSHR[n].pref_done
        /\ UOP_CACHE_MSHR'[n].added_to_pq = UOP_CACHE_MSHR[n].added_to_pq
  BY <1>1 DEF UopMSHREntry
<1>3. /\ UOP_CACHE_MSHR' \in Seq(UopMSHREntry) /\ Len(UOP_CACHE_MSHR') = Len(UOP_CACHE_MSHR)
      /\ DOMAIN UOP_CACHE_MSHR' = DOMAIN UOP_CACHE_MSHR
  BY <1>1, <1>2, MapIsSeq
<1>4. TypeOK'
  BY <1>3 DEF PrefetchInv, TypeOK, branchVars, l1iVars, decodeVars
<1>5. OneEntryPerLine'
  BY <1>2, <1>3 DEF PrefetchInv, OneEntryPerLine
<1>6. ResolutionNotLost'
  BY <1>2, <1>3 DEF PrefetchInv, ResolutionNotLost, branchVars
<1>7. IssuedIsInFlight'
  BY <1>2, <1>3 DEF PrefetchInv, IssuedIsInFlight, l1iVars
<1> QED BY <1>4, <1>5, <1>6, <1>7 DEF PrefetchInv

\* A line that is not there gets an entry of its own.
LEMMA AddEntry ==
  ASSUME PrefetchInv, NEW new \in UopMSHREntry,
         new.by_instr \in resolved => new.branch_resolved, ~new.added_to_pq,
         \A k \in DOMAIN UOP_CACHE_MSHR : UOP_CACHE_MSHR[k].line # new.line,
         Len(UOP_CACHE_MSHR) < UOP_MSHR,
         UOP_CACHE_MSHR' = Append(UOP_CACHE_MSHR, new),
         UNCHANGED <<branchVars, l1iVars, decodeVars>>,
         ips_to_prefetch' \in Seq(PrefEntry), PathKnows'
  PROVE  PrefetchInv'
<1> DEFINE L == Len(UOP_CACHE_MSHR)
<1>1. UOP_CACHE_MSHR \in Seq(UopMSHREntry)
  BY DEF PrefetchInv, TypeOK
<1>2. /\ UOP_CACHE_MSHR' \in Seq(UopMSHREntry) /\ Len(UOP_CACHE_MSHR') = L + 1
      /\ \A k \in 1..L : UOP_CACHE_MSHR'[k] = UOP_CACHE_MSHR[k]
      /\ UOP_CACHE_MSHR'[L + 1] = new
  BY <1>1, AppendProperties
<1>3. L \in Nat /\ DOMAIN UOP_CACHE_MSHR = 1..L /\ DOMAIN UOP_CACHE_MSHR' = 1..(L + 1)
  BY <1>1, <1>2, SeqFacts
<1>4. L < UOP_MSHR
  OBVIOUS
<1> HIDE DEF L
<1>5. \A n \in DOMAIN UOP_CACHE_MSHR' :
        \/ n \in DOMAIN UOP_CACHE_MSHR /\ UOP_CACHE_MSHR'[n] = UOP_CACHE_MSHR[n]
        \/ n = L + 1 /\ UOP_CACHE_MSHR'[n] = new
  BY <1>2, <1>3
<1>6. TypeOK'
  <2>1. Len(UOP_CACHE_MSHR') <= UOP_MSHR
    BY <1>2, <1>3, <1>4, UopPrefetchAssumption
  <2> QED BY <1>2, <2>1 DEF PrefetchInv, TypeOK, branchVars, l1iVars, decodeVars
<1>7. OneEntryPerLine'
  BY <1>5 DEF PrefetchInv, OneEntryPerLine
<1>8. ResolutionNotLost'
  BY <1>5 DEF PrefetchInv, ResolutionNotLost, branchVars
<1>9. IssuedIsInFlight'
  BY <1>5 DEF PrefetchInv, IssuedIsInFlight, l1iVars
<1> QED BY <1>6, <1>7, <1>8, <1>9 DEF PrefetchInv

\* If no entry is the first for a line, no entry is for it.
LEMMA NoFirstNoEntry ==
  ASSUME TypeOK, NEW line, \A k \in DOMAIN UOP_CACHE_MSHR : ~HasLine(k, line), OneEntryPerLine
  PROVE  \A k \in DOMAIN UOP_CACHE_MSHR : UOP_CACHE_MSHR[k].line # line
<1> SUFFICES ASSUME NEW k \in DOMAIN UOP_CACHE_MSHR, UOP_CACHE_MSHR[k].line = line PROVE FALSE
  OBVIOUS
<1>1. Len(UOP_CACHE_MSHR) \in Nat /\ DOMAIN UOP_CACHE_MSHR = 1..Len(UOP_CACHE_MSHR)
  BY SeqFacts DEF TypeOK
<1>2. PICK l \in 1..(k - 1) : UOP_CACHE_MSHR[l].line = line
  BY DEF HasLine
<1>3. l \in DOMAIN UOP_CACHE_MSHR /\ l # k
  BY <1>1, <1>2
<1> QED BY <1>2, <1>3 DEF OneEntryPerLine

LEMMA IncrementAlternatePathInv == PrefetchInv /\ IncrementAlternatePath => PrefetchInv'
<1> SUFFICES ASSUME PrefetchInv, IncrementAlternatePath PROVE PrefetchInv'
  OBVIOUS
<1>1. PICK n \in DOMAIN ips_to_prefetch, m \in DOMAIN ips_to_prefetch :
        /\ EndsRun(n, m, LineOf)
        /\ LET new == NewEntry(n, m)
           IN  \/ \E k \in DOMAIN UOP_CACHE_MSHR :
                    /\ HasLine(k, new.line)
                    /\ UOP_CACHE_MSHR' =
                         [UOP_CACHE_MSHR EXCEPT ![k].ips_in_line = @ \o new.ips_in_line]
               \/ /\ \A k \in DOMAIN UOP_CACHE_MSHR : ~HasLine(k, new.line)
                  /\ Len(UOP_CACHE_MSHR) < UOP_MSHR
                  /\ UOP_CACHE_MSHR' = Append(UOP_CACHE_MSHR, new)
        /\ ips_to_prefetch' = SubSeq(ips_to_prefetch, 1, n - 1)
                              \o SubSeq(ips_to_prefetch, m + 1, Len(ips_to_prefetch))
  BY DEF IncrementAlternatePath
<1>2. UNCHANGED <<branchVars, l1iVars, decodeVars>>
  BY DEF IncrementAlternatePath
<1>3. m \in n..Len(ips_to_prefetch)
  BY <1>1 DEF EndsRun
<1>4. ips_to_prefetch \in Seq(PrefEntry)
  BY DEF PrefetchInv, TypeOK
<1>5. /\ ips_to_prefetch' \in Seq(PrefEntry)
      /\ \A k \in DOMAIN ips_to_prefetch' : \E l \in DOMAIN ips_to_prefetch : ips_to_prefetch'[k] = ips_to_prefetch[l]
  BY <1>1, <1>3, <1>4, CutProperties
<1>6. PathKnows'
  BY <1>2, <1>5 DEF PrefetchInv, PathKnows, branchVars
<1>7. /\ NewEntry(n, m) \in UopMSHREntry
      /\ NewEntry(n, m).by_instr \in resolved => NewEntry(n, m).branch_resolved
      /\ ~NewEntry(n, m).added_to_pq
  BY <1>3, NewEntryProperties
<1> DEFINE new == NewEntry(n, m)
<1>8. new.ips_in_line \in Seq(Ips)
  BY <1>7 DEF UopMSHREntry
<1>9. CASE \E k \in DOMAIN UOP_CACHE_MSHR :
             UOP_CACHE_MSHR' = [UOP_CACHE_MSHR EXCEPT ![k].ips_in_line = @ \o new.ips_in_line]
  <2>1. PICK k \in DOMAIN UOP_CACHE_MSHR :
          UOP_CACHE_MSHR' = [UOP_CACHE_MSHR EXCEPT ![k].ips_in_line = @ \o new.ips_in_line]
    BY <1>9
  <2> HIDE DEF new
  <2> DEFINE joined == UOP_CACHE_MSHR[k].ips_in_line \o new.ips_in_line
  <2>2. joined \in Seq(Ips)
    <3>1. UOP_CACHE_MSHR[k] \in UopMSHREntry
      BY SeqFacts DEF PrefetchInv, TypeOK
    <3>2. UOP_CACHE_MSHR[k].ips_in_line \in Seq(Ips)
      BY <3>1 DEF UopMSHREntry
    <3> QED BY <1>8, <3>2, ConcatProperties
  <2>3. /\ UOP_CACHE_MSHR' = [i \in DOMAIN UOP_CACHE_MSHR |-> UOP_CACHE_MSHR'[i]]
        /\ \A i \in DOMAIN UOP_CACHE_MSHR :
             UOP_CACHE_MSHR'[i] =
               IF i = k THEN [UOP_CACHE_MSHR[k] EXCEPT !.ips_in_line = joined] ELSE UOP_CACHE_MSHR[i]
    BY <2>1
  <2> HIDE DEF joined
  <2> QED BY <1>2, <1>5, <1>6, <2>2, <2>3, GainInstructions
<1>10. CASE /\ \A k \in DOMAIN UOP_CACHE_MSHR : ~HasLine(k, new.line)
            /\ Len(UOP_CACHE_MSHR) < UOP_MSHR
            /\ UOP_CACHE_MSHR' = Append(UOP_CACHE_MSHR, new)
  <2>1. \A k \in DOMAIN UOP_CACHE_MSHR : UOP_CACHE_MSHR[k].line # new.line
    BY <1>10, NoFirstNoEntry DEF PrefetchInv
  <2> HIDE DEF new
  <2>2. new \in UopMSHREntry /\ (new.by_instr \in resolved => new.branch_resolved) /\ ~new.added_to_pq
    BY <1>7 DEF new
  <2> QED BY <1>2, <1>5, <1>6, <1>10, <2>1, <2>2, AddEntry
<1> QED BY <1>1, <1>9, <1>10

-----------------------------------------------------------------------------
(* The theorems.                                                           *)

\* PrefetchInv is inductive.
THEOREM NextInv == PrefetchInv /\ [Next]_vars => PrefetchInv'
<1> SUFFICES ASSUME PrefetchInv, [Next]_vars PROVE PrefetchInv'
  OBVIOUS
<1>1. ASSUME NEW path \in Paths, FetchBranch(path) PROVE PrefetchInv'
  BY <1>1, FetchBranchInv
<1>2. ASSUME NEW b \in Branches, ResolveBranch(b) PROVE PrefetchInv'
  BY <1>2, ResolveBranchInv
<1>3. CASE CheckBtb
  BY <1>3, CheckBtbInv
<1>4. ASSUME NEW hit \in BOOLEAN, CheckDib(hit) PROVE PrefetchInv'
  BY <1>4, CheckDibInv
<1>5. CASE IncrementAlternatePath
  BY <1>5, IncrementAlternatePathInv
<1>6. CASE PopUopMSHR
  BY <1>6, PopUopMSHRInv
<1>7. ASSUME NEW n \in DOMAIN UOP_CACHE_MSHR, IssuePrefetch(n) PROVE PrefetchInv'
  BY <1>7, IssuePrefetchInv
<1>8. ASSUME NEW line \in Lines, L1I(line) PROVE PrefetchInv'
  BY <1>8, ServePrefetchInv, AbsorbPrefetchInv DEF L1I
<1>9. ASSUME NEW line \in Lines, DemandFetch(line) PROVE PrefetchInv'
  BY <1>9, DemandFetchInv
<1>10. ASSUME NEW line \in Lines, ReturnFetch(line) PROVE PrefetchInv'
  BY <1>10, ReturnFetchInv
<1>11. CASE HandleMemoryReturn
  BY <1>11, HandleMemoryReturnInv
<1>12. CASE DecodePrefetched
  BY <1>12, DecodePrefetchedInv
<1>13. CASE MoveToDecode
  BY <1>13, MoveToDecodeInv
<1>14. CASE UNCHANGED vars
  BY <1>14 DEF vars, PrefetchInv, TypeOK, OneEntryPerLine, PathKnows, ResolutionNotLost, IssuedIsInFlight
<1> QED BY <1>1, <1>2, <1>3, <1>4, <1>5, <1>6, <1>7, <1>8, <1>9, <1>10, <1>11, <1>12, <1>13, <1>14
        DEF Next

\* Every behaviour satisfies PrefetchInv.
THEOREM SpecInv == Spec => []PrefetchInv
<1> QED BY InitInv, NextInv, PTL DEF Spec

\* The queues hold what update_dib_from_prefetch and the decoders expect, and
\* UOP_CACHE_MSHR and PRF_DECODE_BUFFER never exceed their capacity.
THEOREM TypeCorrect == Spec => []TypeOK
<1>1. PrefetchInv => TypeOK
  BY DEF PrefetchInv
<1> QED BY <1>1, SpecInv, PTL

\* increment_alternate_path never gives a line a second entry, so the find_if of
\* update_dib_from_prefetch has one entry to find.
THEOREM LinesAreUnique == Spec => []OneEntryPerLine
<1>1. PrefetchInv => OneEntryPerLine
  BY DEF PrefetchInv
<1> QED BY <1>1, SpecInv, PTL

\* update_mshr and increment_alternate_path, in any order, leave no entry waiting
\* for a branch that is resolved.
THEOREM ResolutionReachesEntries == Spec => []ResolutionNotLost
<1>1. PrefetchInv => ResolutionNotLost
  BY DEF PrefetchInv
<1> QED BY <1>1, SpecInv, PTL

\* However the L1I merges a prefetch with demand fetches, an issued entry that is
\* not done has its line in flight.
THEOREM IssuedStaysInFlight == Spec => []IssuedIsInFlight
<1>1. PrefetchInv => IssuedIsInFlight
  BY DEF PrefetchInv
<1> QED BY <1>1, SpecInv, PTL
=============================================================================
