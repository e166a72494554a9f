----------------------------- MODULE FrontEndProofs -----------------------------
(***************************************************************************)
(* Theorems about FrontEnd, for every trace, every outcome of predictions  *)
(* and lookups, and any sizes and widths.  Instructions in the pipeline    *)
(* are numbered one after the other, so an entry of the fetch target queue *)
(* is known by its number, and the invariants speak of numbers.            *)
(***************************************************************************)
EXTENDS FrontEnd, SequenceTheorems, FiniteSetTheorems, TLAPS

USE DEF INFLIGHT, COMPLETED

-----------------------------------------------------------------------------
(* Sequences.                                                              *)

LEMMA FunctionIsSeq ==
  ASSUME NEW S, NEW n \in Nat, NEW f \in [1..n -> S]
  PROVE  f \in Seq(S) /\ Len(f) = n
<1>1. f \in Seq(S)
  BY IsASeq
<1>2. DOMAIN f = 1..n
  OBVIOUS
<1>3. Len(f) \in Nat /\ DOMAIN f = 1..Len(f)
  BY <1>1, LenProperties
<1>4. Len(f) = n
  BY <1>2, <1>3
<1> QED BY <1>1, <1>4

LEMMA RestProperties ==
  ASSUME NEW S, NEW seq \in Seq(S), NEW k \in 0..Len(seq)
  PROVE  /\ Rest(seq, k) \in Seq(S) /\ Len(Rest(seq, k)) = Len(seq) - k
         /\ \A n \in 1..(Len(seq) - k) : Rest(seq, k)[n] = seq[n + k]
<1> DEFINE length == Len(seq)
           rest == SubSeq(seq, k + 1, length)
<1>1. length \in Nat /\ k \in 0..length
  BY LenProperties
<1>2. \A n \in (k + 1)..length : seq[n] \in S
  <2>1. \A n \in 1..Len(seq) : seq[n] \in S
    BY ElementOfSeq
  <2> QED BY <1>1, <2>1
<1> HIDE DEF length
<1>3. k + 1 \in Int /\ length \in Int
  BY <1>1
<1>4. /\ rest \in Seq(S)
      /\ Len(rest) = IF k + 1 <= length THEN length - (k + 1) + 1 ELSE 0
      /\ \A n \in 1..(length - (k + 1) + 1) : rest[n] = seq[(k + 1) + n - 1]
  BY <1>2, <1>3, SubSeqProperties
<1> HIDE DEF rest
<1>5. length - (k + 1) + 1 = length - k
  BY <1>1
<1>6. \A n \in 1..(length - k) : (k + 1) + n - 1 = n + k
  BY <1>1
<1>7. Len(rest) = length - k
  <2>1. CASE k + 1 <= length
    BY <1>4, <1>5, <2>1
  <2>2. CASE ~(k + 1 <= length)
    <3>1. length - k = 0
      BY <1>1, <2>2
    <3> QED BY <1>4, <2>2, <3>1
  <2> QED BY <2>1, <2>2
<1>8. /\ rest \in Seq(S) /\ Len(rest) = length - k
      /\ \A n \in 1..(length - k) : rest[n] = seq[n + k]
  BY <1>4, <1>5, <1>6, <1>7
<1> QED BY <1>8 DEF rest, length, Rest

LEMMA FirstProperties ==
  ASSUME NEW S, NEW seq \in Seq(S), NEW k \in 0..Len(seq)
  PROVE  /\ SubSeq(seq, 1, k) \in Seq(S) /\ Len(SubSeq(seq, 1, k)) = k
         /\ \A n \in 1..k : SubSeq(seq, 1, k)[n] = seq[n]
<1>1. Len(seq) \in Nat /\ \A n \in 1..Len(seq) : seq[n] \in S
  BY LenProperties, ElementOfSeq
<1>2. k \in Nat /\ \A n \in 1..k : seq[n] \in S
  BY <1>1
<1> QED BY <1>2, SubSeqProperties

LEMMA Joined ==
  ASSUME NEW S, NEW s \in Seq(S), NEW t \in Seq(S)
  PROVE  /\ s \o t \in Seq(S) /\ Len(s \o t) = Len(s) + Len(t)
         /\ \A n \in 1..Len(s) : (s \o t)[n] = s[n]
         /\ \A n \in 1..Len(t) : (s \o t)[Len(s) + n] = t[n]
<1> DEFINE r == s \o t
           a == Len(s)
           b == Len(t)
<1>1. /\ r \in Seq(S) /\ Len(r) = a + b
      /\ \A i \in 1..(a + b) : r[i] = IF i <= a THEN s[i] ELSE t[i - a]
  BY ConcatProperties
<1>2. a \in Nat /\ b \in Nat
  BY LenProperties
<1> HIDE DEF r, a, b
<1>3. ASSUME NEW n \in 1..a PROVE r[n] = s[n]
  <2>1. n \in 1..(a + b) /\ n <= a
    BY <1>2
  <2> QED BY <1>1, <2>1
<1>4. ASSUME NEW n \in 1..b PROVE r[a + n] = t[n]
  <2>1. a + n \in 1..(a + b) /\ ~(a + n <= a) /\ (a + n) - a = n
    BY <1>2
  <2> QED BY <1>1, <2>1
<1> QED BY <1>1, <1>3, <1>4 DEF r, a, b

-----------------------------------------------------------------------------
(* The pipeline.                                                           *)

FTQEntry == [id : Nat, outcome : Outcomes, mispredicted : BOOLEAN, dib_checked : BOOLEAN,
             uop_cache_hit : BOOLEAN, penalty : BOOLEAN, fetched : {0, INFLIGHT, COMPLETED}]

\* Where each buffer begins, when the last number given is at the end of the FTQ.
Front == instr_unique_id - Len(IFETCH_BUFFER)
DecodeFront == Front - Len(DECODE_BUFFER)
DispatchFront == DecodeFront - Len(DISPATCH_BUFFER)

Follow(seq, first) == \A n \in 1..Len(seq) : seq[n].id = first + n - 1

Numbered ==
  /\ instr_unique_id \in Nat
  /\ IFETCH_BUFFER \in Seq(FTQEntry) /\ Follow(IFETCH_BUFFER, Front)
  /\ DECODE_BUFFER \in Seq(FTQEntry) /\ Follow(DECODE_BUFFER, DecodeFront)
  /\ DISPATCH_BUFFER \in Seq(FTQEntry) /\ Follow(DISPATCH_BUFFER, DispatchFront)
  /\ executing \in SUBSET (0..(DispatchFront - 1))
  /\ DispatchFront \in Nat

LEMMA Sizes ==
  ASSUME Numbered
  PROVE  /\ Len(IFETCH_BUFFER) \in Nat /\ Len(DECODE_BUFFER) \in Nat /\ Len(DISPATCH_BUFFER) \in Nat
         /\ Front \in Nat /\ DecodeFront \in Nat /\ DispatchFront \in Nat
         /\ instr_unique_id = Front + Len(IFETCH_BUFFER)
         /\ DOMAIN IFETCH_BUFFER = 1..Len(IFETCH_BUFFER)
         /\ DOMAIN DECODE_BUFFER = 1..Len(DECODE_BUFFER)
         /\ DOMAIN DISPATCH_BUFFER = 1..Len(DISPATCH_BUFFER)
<1>1. /\ Len(IFETCH_BUFFER) \in Nat /\ Len(DECODE_BUFFER) \in Nat /\ Len(DISPATCH_BUFFER) \in Nat
      /\ DOMAIN IFETCH_BUFFER = 1..Len(IFETCH_BUFFER)
      /\ DOMAIN DECODE_BUFFER = 1..Len(DECODE_BUFFER)
      /\ DOMAIN DISPATCH_BUFFER = 1..Len(DISPATCH_BUFFER)
  BY LenProperties DEF Numbered
<1>2. DispatchFront \in Nat /\ instr_unique_id \in Nat
  BY DEF Numbered
<1>3. /\ DecodeFront = DispatchFront + Len(DISPATCH_BUFFER)
      /\ Front = DecodeFront + Len(DECODE_BUFFER)
      /\ instr_unique_id = Front + Len(IFETCH_BUFFER)
  BY <1>1, <1>2 DEF Front, DecodeFront, DispatchFront
<1> QED BY <1>1, <1>2, <1>3

LEMMA NumberedInit == Init => Numbered
BY EmptySeq DEF Init, Numbered, Front, DecodeFront, DispatchFront, Follow

\* Entries with only some fields changed.
LEMMA EntryFields ==
  ASSUME NEW e \in FTQEntry
  PROVE  /\ e.id \in Nat /\ e.mispredicted \in BOOLEAN /\ e.dib_checked \in BOOLEAN
         /\ e.uop_cache_hit \in BOOLEAN /\ e.fetched \in {0, INFLIGHT, COMPLETED}
BY DEF FTQEntry

LEMMA FetchedEntry ==
  ASSUME NEW e \in FTQEntry, NEW f \in {0, INFLIGHT, COMPLETED}
  PROVE  LET d == [e EXCEPT !.fetched = f]
         IN  /\ d \in FTQEntry /\ d.id = e.id /\ d.mispredicted = e.mispredicted
             /\ d.dib_checked = e.dib_checked /\ d.uop_cache_hit = e.uop_cache_hit /\ d.fetched = f
BY DEF FTQEntry

LEMMA PaidEntry ==
  ASSUME NEW e \in FTQEntry
  PROVE  LET d == [e EXCEPT !.penalty = FALSE]
         IN  /\ d \in FTQEntry /\ d.id = e.id /\ d.mispredicted = e.mispredicted
             /\ d.dib_checked = e.dib_checked /\ d.uop_cache_hit = e.uop_cache_hit
             /\ d.fetched = e.fetched
BY DEF FTQEntry

LEMMA DecodedEntry ==
  ASSUME NEW e \in FTQEntry
  PROVE  /\ Decoded(e) \in FTQEntry /\ Decoded(e).id = e.id
         /\ Decoded(e).mispredicted = (e.mispredicted /\ ~ResolvedAtDecode(e.outcome))
BY DEF FTQEntry, Decoded

LEMMA NewEntry ==
  ASSUME NEW id \in Nat, NEW o \in Outcomes
  PROVE  /\ Entry(id, o) \in FTQEntry /\ Entry(id, o).id = id
         /\ Entry(id, o).mispredicted = BranchMiss(o)
         /\ Entry(id, o).dib_checked = FALSE /\ Entry(id, o).uop_cache_hit = FALSE
         /\ Entry(id, o).fetched = 0
<1>1. BranchMiss(o) \in BOOLEAN
  BY DEF BranchMiss
<1> QED BY <1>1 DEF FTQEntry, Entry

LEMMA CheckedEntry ==
  ASSUME NEW n, IFETCH_BUFFER[n] \in FTQEntry, NEW first, NEW hits
  PROVE  LET e == IFETCH_BUFFER[n]
             d == Checked(n, first, hits)
         IN  /\ d \in FTQEntry /\ d.id = e.id /\ d.mispredicted = e.mispredicted
             /\ d.dib_checked /\ d.uop_cache_hit = (n \in hits)
             /\ d.fetched = IF n \in hits THEN COMPLETED ELSE e.fetched
<1> DEFINE streaming == IF n = first THEN fetch_mode = "STREAM" ELSE n - 1 \in hits
           penalty == n \notin hits /\ streaming
           fetched == IF n \in hits THEN COMPLETED ELSE IFETCH_BUFFER[n].fetched
           hit == n \in hits
<1>1. penalty \in BOOLEAN /\ hit \in BOOLEAN /\ fetched \in {0, INFLIGHT, COMPLETED}
  BY EntryFields
<1>2. Checked(n, first, hits) =
        [IFETCH_BUFFER[n] EXCEPT !.dib_checked = TRUE, !.uop_cache_hit = hit,
                                 !.fetched = fetched, !.penalty = penalty]
  BY DEF Checked
<1> HIDE DEF penalty, hit, fetched
<1>3. LET e == IFETCH_BUFFER[n]
          d == Checked(n, first, hits)
      IN  /\ d \in FTQEntry /\ d.id = e.id /\ d.mispredicted = e.mispredicted
          /\ d.dib_checked /\ d.uop_cache_hit = hit /\ d.fetched = fetched
  BY <1>1, <1>2 DEF FTQEntry
<1> QED BY <1>3 DEF hit, fetched

-----------------------------------------------------------------------------
(* The queue by the numbers of its instructions, and the packets.          *)

FTQIds == Front..(instr_unique_id - 1)
At(i) == IFETCH_BUFFER[i - Front + 1]

LEMMA ByNumber ==
  ASSUME Numbered
  PROVE  /\ \A i \in FTQIds : /\ i \in Nat /\ At(i) \in FTQEntry /\ At(i).id = i
                              /\ i - Front + 1 \in 1..Len(IFETCH_BUFFER)
                              /\ i >= Front
         /\ \A n \in 1..Len(IFETCH_BUFFER) :
              /\ Front + n - 1 \in FTQIds /\ IFETCH_BUFFER[n] = At(Front + n - 1)
              /\ IFETCH_BUFFER[n].id = Front + n - 1 /\ IFETCH_BUFFER[n] \in FTQEntry
<1> DEFINE length == Len(IFETCH_BUFFER)
<1>1. length \in Nat /\ Front \in Nat /\ instr_unique_id = Front + length
  BY Sizes
<1>2. \A n \in 1..length : IFETCH_BUFFER[n] \in FTQEntry /\ IFETCH_BUFFER[n].id = Front + n - 1
  BY ElementOfSeq DEF Numbered, Follow
<1> HIDE DEF length
<1>3. ASSUME NEW i \in FTQIds
      PROVE  /\ i \in Nat /\ At(i) \in FTQEntry /\ At(i).id = i
             /\ i - Front + 1 \in 1..length /\ i >= Front
  <2>1. i \in Nat /\ i - Front + 1 \in 1..length /\ i >= Front /\ Front + (i - Front + 1) - 1 = i
    BY <1>1 DEF FTQIds
  <2> QED BY <1>2, <2>1 DEF At
<1>4. ASSUME NEW n \in 1..length
      PROVE  Front + n - 1 \in FTQIds /\ IFETCH_BUFFER[n] = At(Front + n - 1)
  <2>1. Front + n - 1 \in FTQIds /\ (Front + n - 1) - Front + 1 = n
    BY <1>1 DEF FTQIds
  <2> QED BY <2>1 DEF At
<1> QED BY <1>2, <1>3, <1>4 DEF length

\* The packets the L1I has or has returned.
Apart ==
  /\ \A a, b \in asked : a # b => a \cap b = {}
  /\ \A a \in asked : \A p \in 1..Len(PROCESSED) : a \cap PROCESSED[p] = {}
  /\ \A p, q \in 1..Len(PROCESSED) : p # q => PROCESSED[p] \cap PROCESSED[q] = {}

\* A packet that nothing has been served of begins, for each of its instructions, with
\* one that was looked up, missed and waits.
Missing(i) == At(i).dib_checked /\ ~At(i).uop_cache_hit /\ At(i).fetched = INFLIGHT
Whole(packet) == \A j \in packet : \E i \in packet : i <= j /\ Missing(i)

NobodyServed ==
  /\ \A a \in asked : Whole(a)
  /\ \A p \in 2..Len(PROCESSED) : Whole(PROCESSED[p])

AskedInOrder == \A i \in WaitingForLine : \A j \in Front..i : At(j).fetched # 0
CompletedAreHits == \A i \in WaitingForLine : At(i).fetched = COMPLETED => At(i).uop_cache_hit
InFlightWaits == \A i \in FTQIds : At(i).fetched = INFLIGHT => i \in WaitingForLine
LookedUpInOrder == \A j \in FTQIds : \A i \in Front..j : At(j).dib_checked => At(i).dib_checked
HitsAreDone == \A i \in FTQIds : At(i).uop_cache_hit => At(i).dib_checked /\ At(i).fetched # 0

\* Once a packet has been served, what is left of it is out of reach in this cycle, or
\* behind an instruction that missed.
Covered ==
  Len(PROCESSED) > 0 =>
    \A j \in PROCESSED[1] : j >= Front + FETCH_WIDTH \/ \E i \in Front..j : ~At(i).uop_cache_hit

QueueInv ==
  /\ asked \subseteq SUBSET Nat /\ PROCESSED \in Seq(SUBSET Nat)
  /\ WaitingForLine \subseteq FTQIds
  /\ Apart /\ NobodyServed
  /\ AskedInOrder /\ CompletedAreHits /\ InFlightWaits /\ LookedUpInOrder /\ HitsAreDone
  /\ handler \in {"dispatch", "decode", "promote"} => Covered

LEMMA WhoWaits ==
  ASSUME PROCESSED \in Seq(SUBSET Nat)
  PROVE  \A i : i \in WaitingForLine <=> \/ \E a \in asked : i \in a
                                         \/ \E p \in 1..Len(PROCESSED) : i \in PROCESSED[p]
<1>1. DOMAIN PROCESSED = 1..Len(PROCESSED)
  BY LenProperties
<1> QED BY <1>1 DEF WaitingForLine, Entries

\* The lower numbers of the queue down from one of them.
LEMMA Below ==
  ASSUME Numbered, NEW j \in FTQIds, NEW i \in Front..j
  PROVE  i \in FTQIds /\ i <= j
BY Sizes DEF FTQIds

LEMMA QueueInit == Init => QueueInv
<1> SUFFICES ASSUME Init PROVE QueueInv
  OBVIOUS
<1>1. asked = {} /\ PROCESSED = <<>> /\ IFETCH_BUFFER = <<>> /\ instr_unique_id = 1 /\ handler = "l1i"
  BY DEF Init
<1>2. Len(PROCESSED) = 0 /\ DOMAIN PROCESSED = {} /\ PROCESSED \in Seq(SUBSET Nat)
  BY <1>1, EmptySeq
<1>3. WaitingForLine = {}
  BY <1>1, <1>2 DEF WaitingForLine, Entries
<1>4. FTQIds = {}
  BY <1>1, EmptySeq DEF FTQIds, Front
<1> QED BY <1>1, <1>2, <1>3, <1>4 DEF QueueInv, Apart, NobodyServed, AskedInOrder, CompletedAreHits,
             InFlightWaits, LookedUpInOrder, HitsAreDone

\* What leaves the queue and the packets as they are.
LEMMA QueueKept ==
  ASSUME QueueInv, UNCHANGED <<IFETCH_BUFFER, instr_unique_id, asked, PROCESSED>>,
         handler' \in {"dispatch", "decode", "promote"} => handler \in {"dispatch", "decode", "promote"}
  PROVE  QueueInv'
<1>1. Front' = Front /\ FTQIds' = FTQIds /\ WaitingForLine' = WaitingForLine
  BY DEF Front, FTQIds, WaitingForLine
<1>2. \A i : At(i)' = At(i)
  BY <1>1 DEF At
<1>3. \A i : Missing(i)' = Missing(i)
  BY <1>2 DEF Missing
<1>4. \A packet : Whole(packet)' = Whole(packet)
  BY <1>3 DEF Whole
<1> QED BY <1>1, <1>2, <1>4 DEF QueueInv, Apart, NobodyServed, AskedInOrder, CompletedAreHits,
             InFlightWaits, LookedUpInOrder, HitsAreDone, Covered

-----------------------------------------------------------------------------
(* Numbers and marks of sequences that are cut and joined.                 *)

LEMMA FollowRest ==
  ASSUME NEW s \in Seq(FTQEntry), NEW f \in Int, Follow(s, f), NEW k \in 0..Len(s)
  PROVE  /\ Rest(s, k) \in Seq(FTQEntry) /\ Len(Rest(s, k)) = Len(s) - k
         /\ Follow(Rest(s, k), f + k)
<1> DEFINE length == Len(s)
           rest == Rest(s, k)
<1>1. length \in Nat /\ k \in 0..length
  BY LenProperties
<1>2. \A n \in 1..length : s[n].id = f + n - 1
  BY DEF Follow
<1>3. /\ rest \in Seq(FTQEntry) /\ Len(rest) = length - k
      /\ \A n \in 1..(length - k) : rest[n] = s[n + k]
  BY RestProperties
<1> HIDE DEF length, rest
<1>4. ASSUME NEW n \in 1..(length - k) PROVE rest[n].id = (f + k) + n - 1
  <2>1. n + k \in 1..length /\ f + (n + k) - 1 = (f + k) + n - 1
    BY <1>1
  <2>2. rest[n] = s[n + k]
    BY <1>3
  <2>3. s[n + k].id = f + (n + k) - 1
    BY <1>2, <2>1
  <2> QED BY <2>1, <2>2, <2>3
<1>5. Follow(rest, f + k)
  BY <1>3, <1>4 DEF Follow
<1> QED BY <1>3, <1>5 DEF length, rest

LEMMA FollowJoined ==
  ASSUME NEW s \in Seq(FTQEntry), NEW f \in Int, Follow(s, f),
         NEW t \in Seq(FTQEntry), Follow(t, f + Len(s))
  PROVE  s \o t \in Seq(FTQEntry) /\ Len(s \o t) = Len(s) + Len(t) /\ Follow(s \o t, f)
<1> DEFINE a == Len(s)
           b == Len(t)
           r == s \o t
<1>1. a \in Nat /\ b \in Nat
  BY LenProperties
<1>2. (\A n \in 1..a : s[n].id = f + n - 1) /\ \A n \in 1..b : t[n].id = (f + a) + n - 1
  BY DEF Follow
<1>3. /\ r \in Seq(FTQEntry) /\ Len(r) = a + b
      /\ \A n \in 1..a : r[n] = s[n]
      /\ \A n \in 1..b : r[a + n] = t[n]
  BY Joined
<1> HIDE DEF a, b, r
<1>4. ASSUME NEW n \in 1..(a + b) PROVE r[n].id = f + n - 1
  <2>1. CASE n \in 1..a
    BY <1>2, <1>3, <2>1
  <2>2. CASE n \notin 1..a
    <3>1. n - a \in 1..b /\ a + (n - a) = n /\ (f + a) + (n - a) - 1 = f + n - 1
      BY <1>1, <2>2
    <3>2. r[n] = t[n - a]
      BY <1>3, <3>1
    <3>3. t[n - a].id = (f + a) + (n - a) - 1
      BY <1>2, <3>1
    <3> QED BY <3>1, <3>2, <3>3
  <2> QED BY <2>1, <2>2
<1>5. Follow(r, f)
  BY <1>3, <1>4 DEF Follow
<1> QED BY <1>3, <1>5 DEF a, b, r

\* The instructions of a buffer whose branch was mispredicted and is not resolved.
Marked(seq) == {seq[n].id : n \in {m \in 1..Len(seq) : seq[m].mispredicted}}
Unresolved == Marked(IFETCH_BUFFER) \cup Marked(DECODE_BUFFER) \cup Marked(DISPATCH_BUFFER) \cup executing

LEMMA MarkedJoined ==
  ASSUME NEW S, NEW s \in Seq(S), NEW t \in Seq(S)
  PROVE  Marked(s \o t) = Marked(s) \cup Marked(t)
<1> DEFINE a == Len(s)
           b == Len(t)
           r == s \o t
<1>1. a \in Nat /\ b \in Nat
  BY LenProperties
<1>2. /\ Len(r) = a + b
      /\ \A n \in 1..a : r[n] = s[n]
      /\ \A n \in 1..b : r[a + n] = t[n]
  BY Joined
<1> HIDE DEF a, b, r
<1>3. ASSUME NEW n \in 1..(a + b), r[n].mispredicted PROVE r[n].id \in Marked(s) \cup Marked(t)
  <2>1. CASE n \in 1..a
    BY <1>2, <1>3, <2>1 DEF Marked, a
  <2>2. CASE n \notin 1..a
    <3>1. n - a \in 1..b /\ a + (n - a) = n
      BY <1>1, <2>2
    <3>2. r[n] = t[n - a]
      BY <1>2, <3>1
    <3> QED BY <1>3, <3>1, <3>2 DEF Marked, b
  <2> QED BY <2>1, <2>2
<1>4. ASSUME NEW n \in 1..a, s[n].mispredicted PROVE s[n].id \in Marked(r)
  <2>1. n \in 1..(a + b) /\ r[n] = s[n]
    BY <1>1, <1>2
  <2> QED BY <1>2, <1>4, <2>1 DEF Marked
<1>5. ASSUME NEW n \in 1..b, t[n].mispredicted PROVE t[n].id \in Marked(r)
  <2>1. a + n \in 1..(a + b) /\ r[a + n] = t[n]
    BY <1>1, <1>2
  <2> QED BY <1>2, <1>5, <2>1 DEF Marked
<1>6. Marked(r) \subseteq Marked(s) \cup Marked(t)
  BY <1>2, <1>3 DEF Marked
<1>7. Marked(s) \subseteq Marked(r) /\ Marked(t) \subseteq Marked(r)
  BY <1>4, <1>5 DEF Marked, a, b
<1>8. Marked(r) = Marked(s) \cup Marked(t)
  BY <1>6, <1>7
<1> QED BY <1>8 DEF r

\* What is cut off the front, and what stays.
LEMMA MarkedCut ==
  ASSUME NEW S, NEW seq \in Seq(S), NEW k \in 0..Len(seq)
  PROVE  Marked(seq) = {seq[n].id : n \in {m \in 1..k : seq[m].mispredicted}} \cup Marked(Rest(seq, k))
<1> DEFINE length == Len(seq)
           rest == Rest(seq, k)
           going == {seq[n].id : n \in {m \in 1..k : seq[m].mispredicted}}
<1>1. length \in Nat /\ k \in 0..length
  BY LenProperties
<1>2. Len(rest) = length - k /\ \A n \in 1..(length - k) : rest[n] = seq[n + k]
  BY RestProperties
<1> HIDE DEF rest
<1>3. ASSUME NEW n \in 1..length, seq[n].mispredicted PROVE seq[n].id \in going \cup Marked(rest)
  <2>1. CASE n \in 1..k
    BY <1>3, <2>1
  <2>2. CASE n \notin 1..k
    <3> HIDE DEF length
    <3>1. n - k \in 1..(length - k) /\ (n - k) + k = n
      BY <1>1, <2>2
    <3>2. rest[n - k] = seq[n]
      BY <1>2, <3>1
    <3> QED BY <1>2, <1>3, <3>1, <3>2 DEF Marked
  <2> QED BY <2>1, <2>2
<1>4. ASSUME NEW n \in 1..(length - k), rest[n].mispredicted PROVE rest[n].id \in Marked(seq)
  <2>1. n + k \in 1..length
    BY <1>1
  <2>2. rest[n] = seq[n + k]
    BY <1>2
  <2> QED BY <1>4, <2>1, <2>2 DEF Marked
<1>5. going \subseteq Marked(seq)
  <2>1. \A n \in 1..k : n \in 1..length
    BY <1>1
  <2> QED BY <2>1 DEF Marked
<1>6. Marked(rest) \subseteq Marked(seq)
  BY <1>2, <1>4 DEF Marked
<1>7. Marked(seq) \subseteq going \cup Marked(rest)
  BY <1>3 DEF Marked
<1> QED BY <1>5, <1>6, <1>7 DEF rest

LEMMA MarkedRange ==
  ASSUME NEW seq \in Seq(FTQEntry), NEW f \in Int, Follow(seq, f)
  PROVE  \A i \in Marked(seq) : i \in Int /\ f <= i /\ i < f + Len(seq)
<1> DEFINE length == Len(seq)
<1>1. length \in Nat
  BY LenProperties
<1>2. ASSUME NEW n \in 1..length PROVE seq[n].id = f + n - 1
  BY DEF Follow
<1>3. ASSUME NEW i \in Marked(seq) PROVE \E n \in 1..length : i = f + n - 1
  BY <1>2, <1>3 DEF Marked
<1> HIDE DEF length
<1>4. ASSUME NEW i \in Marked(seq) PROVE i \in Int /\ f <= i /\ i < f + length
  <2>1. PICK n \in 1..length : i = f + n - 1
    BY <1>3
  <2> QED BY <1>1, <2>1
<1> QED BY <1>4 DEF length

-----------------------------------------------------------------------------
(* Entries are only changed in place.                                      *)

InPlaceOf(new) ==
  /\ new \in Seq(FTQEntry) /\ Len(new) = Len(IFETCH_BUFFER)
  /\ \A n \in 1..Len(IFETCH_BUFFER) :
       new[n].id = IFETCH_BUFFER[n].id /\ new[n].mispredicted = IFETCH_BUFFER[n].mispredicted

LEMMA InPlace ==
  ASSUME Numbered, NEW new, InPlaceOf(new), IFETCH_BUFFER' = new,
         UNCHANGED <<instr_unique_id, DECODE_BUFFER, DISPATCH_BUFFER, executing>>
  PROVE  /\ Numbered' /\ Front' = Front /\ FTQIds' = FTQIds
         /\ \A i \in FTQIds : At(i)' = new[i - Front + 1]
         /\ Unresolved' = Unresolved
<1>1. Front' = Front /\ DecodeFront' = DecodeFront /\ DispatchFront' = DispatchFront
  BY DEF Front, DecodeFront, DispatchFront, InPlaceOf
<1>2. Follow(new, Front)
  BY DEF Numbered, Follow, InPlaceOf
<1>3. Follow(new, Front)'
  BY <1>1, <1>2 DEF Follow
<1>4. Numbered'
  BY <1>1, <1>3 DEF Numbered, InPlaceOf, Follow
<1>5. FTQIds' = FTQIds
  BY <1>1 DEF FTQIds
<1>6. Marked(new) = Marked(IFETCH_BUFFER)
  BY DEF InPlaceOf, Marked
<1>7. Unresolved' = Unresolved
  BY <1>6 DEF Unresolved, Marked
<1> QED BY <1>1, <1>4, <1>5, <1>7 DEF At

\* What a lookup may do to an entry.
LookUp(old, new) ==
  \/ /\ new.dib_checked = old.dib_checked /\ new.uop_cache_hit = old.uop_cache_hit
     /\ new.fetched = old.fetched
  \/ /\ ~old.dib_checked /\ new.dib_checked
     /\ new.fetched = IF new.uop_cache_hit THEN COMPLETED ELSE old.fetched

OnlyLookUps ==
  /\ Front' = Front /\ FTQIds' = FTQIds /\ LookedUpInOrder'
  /\ \A i \in FTQIds : LookUp(At(i), At(i)')

LEMMA Lookups ==
  ASSUME Numbered, CheckDib, QueueInv
  PROVE  Numbered' /\ OnlyLookUps /\ Unresolved' = Unresolved
<1>0. UNCHANGED <<instr_unique_id, DECODE_BUFFER, DISPATCH_BUFFER, executing>>
  BY DEF CheckDib, reading
<1>1. CASE UNCHANGED IFETCH_BUFFER
  <2>1. Front' = Front /\ FTQIds' = FTQIds
    BY <1>0, <1>1 DEF Front, FTQIds
  <2>2. \A i : At(i)' = At(i)
    BY <1>1, <2>1 DEF At
  <2>3. Numbered'
    BY <1>0, <1>1 DEF Numbered, Front, DecodeFront, DispatchFront, Follow
  <2>4. LookedUpInOrder'
    BY <2>1, <2>2 DEF QueueInv, LookedUpInOrder
  <2>5. Unresolved' = Unresolved
    BY <1>0, <1>1 DEF Unresolved
  <2> QED BY <2>1, <2>2, <2>3, <2>4, <2>5 DEF LookUp, OnlyLookUps
<1>2. CASE ~UNCHANGED IFETCH_BUFFER
  <2> DEFINE length == Len(IFETCH_BUFFER)
  <2>1. DOMAIN IFETCH_BUFFER = 1..length /\ length \in Nat /\ Front \in Nat
    BY Sizes
  <2>2. PICK first \in DOMAIN IFETCH_BUFFER :
          \E last \in first..Len(IFETCH_BUFFER) :
            /\ \A n \in DOMAIN IFETCH_BUFFER : IFETCH_BUFFER[n].dib_checked <=> n < first
            /\ \E hits \in SUBSET (first..last) :
                 IFETCH_BUFFER' = [n \in DOMAIN IFETCH_BUFFER |->
                   IF n \in first..last THEN Checked(n, first, hits) ELSE IFETCH_BUFFER[n]]
    BY <1>2, Zenon DEF CheckDib
  <2>3. PICK last \in first..Len(IFETCH_BUFFER) :
          /\ \A n \in DOMAIN IFETCH_BUFFER : IFETCH_BUFFER[n].dib_checked <=> n < first
          /\ \E hits \in SUBSET (first..last) :
               IFETCH_BUFFER' = [n \in DOMAIN IFETCH_BUFFER |->
                 IF n \in first..last THEN Checked(n, first, hits) ELSE IFETCH_BUFFER[n]]
    BY <2>2
  <2>12. PICK hits \in SUBSET (first..last) :
          IFETCH_BUFFER' = [n \in DOMAIN IFETCH_BUFFER |->
            IF n \in first..last THEN Checked(n, first, hits) ELSE IFETCH_BUFFER[n]]
    BY <2>3
  <2>13. /\ first \in 1..length /\ last \in first..length
         /\ \A n \in 1..length : IFETCH_BUFFER[n].dib_checked <=> n < first
    BY <2>1, <2>3
  <2> DEFINE new == [n \in 1..length |->
                       IF n \in first..last THEN Checked(n, first, hits) ELSE IFETCH_BUFFER[n]]
  <2>4. \A n \in 1..length : IFETCH_BUFFER[n] \in FTQEntry
    BY ByNumber
  <2>5. ASSUME NEW n \in 1..length
        PROVE  /\ new[n] \in FTQEntry /\ new[n].id = IFETCH_BUFFER[n].id
               /\ new[n].mispredicted = IFETCH_BUFFER[n].mispredicted
               /\ LookUp(IFETCH_BUFFER[n], new[n])
               /\ new[n].dib_checked <=> n <= last
    <3>1. CASE n \in first..last
      <4>1. new[n] = Checked(n, first, hits) /\ ~IFETCH_BUFFER[n].dib_checked /\ n <= last
        BY <2>1, <2>13, <3>1
      <4>2. LET d == Checked(n, first, hits)
            IN  /\ d \in FTQEntry /\ d.id = IFETCH_BUFFER[n].id
                /\ d.mispredicted = IFETCH_BUFFER[n].mispredicted /\ d.dib_checked
                /\ d.uop_cache_hit = (n \in hits)
                /\ d.fetched = IF n \in hits THEN COMPLETED ELSE IFETCH_BUFFER[n].fetched
        BY <2>4, CheckedEntry
      <4> HIDE DEF new
      <4> QED BY <4>1, <4>2 DEF LookUp
    <3>2. CASE n \notin first..last
      <4>1. new[n] = IFETCH_BUFFER[n]
        BY <3>2
      <4>2. IFETCH_BUFFER[n].dib_checked <=> n <= last
        BY <2>1, <2>13, <3>2
      <4> HIDE DEF new
      <4> QED BY <2>4, <4>1, <4>2 DEF LookUp
    <3> QED BY <3>1, <3>2
  <2>6. IFETCH_BUFFER' = new
    BY <2>1, <2>12
  <2>7. new \in Seq(FTQEntry) /\ Len(new) = length
    <3>1. new \in [1..length -> FTQEntry]
      BY <2>5
    <3> HIDE DEF new, length
    <3> QED BY <2>1, <3>1, FunctionIsSeq
  <2> HIDE DEF new
  <2>8. InPlaceOf(new)
    BY <2>5, <2>7 DEF InPlaceOf
  <2>9. /\ Numbered' /\ Front' = Front /\ FTQIds' = FTQIds
        /\ \A i \in FTQIds : At(i)' = new[i - Front + 1]
        /\ Unresolved' = Unresolved
    BY <1>0, <2>6, <2>8, InPlace
  <2>10. ASSUME NEW i \in FTQIds
         PROVE  LookUp(At(i), At(i)') /\ (At(i)'.dib_checked <=> i - Front + 1 <= last)
    <3>1. i - Front + 1 \in 1..length
      BY ByNumber
    <3> QED BY <2>5, <2>9, <3>1 DEF At
  <2>11. LookedUpInOrder'
    <3>1. ASSUME NEW j \in FTQIds, NEW i \in Front..j, At(j)'.dib_checked
          PROVE  At(i)'.dib_checked
      <4>1. i \in FTQIds /\ i <= j /\ i \in Nat /\ j \in Nat
        BY Below, ByNumber
      <4>2. j - Front + 1 <= last
        BY <2>10, <3>1
      <4>3. i - Front + 1 <= last
        BY <2>1, <4>1, <4>2
      <4> QED BY <2>10, <4>1, <4>3
    <3> QED BY <2>9, <3>1 DEF LookedUpInOrder
  <2> QED BY <2>9, <2>10, <2>11 DEF OnlyLookUps
<1> QED BY <1>1, <1>2

LEMMA LookUpsKeepQueue ==
  ASSUME Numbered, QueueInv, OnlyLookUps, UNCHANGED <<asked, PROCESSED>>,
         handler' \in {"check", "initialize"}
  PROVE  QueueInv'
<1>1. /\ Front' = Front /\ FTQIds' = FTQIds /\ LookedUpInOrder'
      /\ \A i \in FTQIds : LookUp(At(i), At(i)')
  BY DEF OnlyLookUps
<1>2. UNCHANGED <<asked, PROCESSED>> /\ handler' \notin {"dispatch", "decode", "promote"}
  OBVIOUS
<1>3. WaitingForLine' = WaitingForLine /\ WaitingForLine \subseteq FTQIds
  BY <1>2 DEF WaitingForLine, QueueInv
<1>4. \A i \in WaitingForLine : \A j \in Front..i : j \in FTQIds
  BY <1>3, Below
<1>5. \A i \in FTQIds : Missing(i) => Missing(i)'
  BY <1>1 DEF LookUp, Missing
<1>6. NobodyServed'
  <2>1. ASSUME NEW packet, Whole(packet), packet \subseteq FTQIds PROVE Whole(packet)'
    BY <1>5, <2>1 DEF Whole
  <2>2. \A a \in asked : a \subseteq FTQIds
    BY <1>3, WhoWaits DEF QueueInv
  <2>3. \A p \in 1..Len(PROCESSED) : PROCESSED[p] \subseteq FTQIds
    BY <1>3, WhoWaits DEF QueueInv
  <2>4. \A p \in 2..Len(PROCESSED) : p \in 1..Len(PROCESSED)
    BY LenProperties DEF QueueInv
  <2> QED BY <1>2, <2>1, <2>2, <2>3, <2>4 DEF NobodyServed, QueueInv
<1>7. AskedInOrder'
  <2>1. \A i \in FTQIds : At(i).fetched # 0 => At(i)'.fetched # 0
    BY <1>1 DEF LookUp
  <2> QED BY <1>1, <1>3, <1>4, <2>1 DEF AskedInOrder, QueueInv
<1>8. CompletedAreHits'
  <2>1. ASSUME NEW i \in WaitingForLine, At(i)'.fetched = COMPLETED PROVE At(i)'.uop_cache_hit
    <3>1. i \in FTQIds /\ (At(i).fetched = COMPLETED => At(i).uop_cache_hit)
      BY <1>3 DEF QueueInv, CompletedAreHits
    <3>2. CASE At(i)'.uop_cache_hit = At(i).uop_cache_hit /\ At(i)'.fetched = At(i).fetched
      BY <2>1, <3>1, <3>2
    <3>3. CASE ~At(i).dib_checked /\ ~At(i)'.uop_cache_hit /\ At(i)'.fetched = At(i).fetched
      <4>1. At(i).fetched = COMPLETED
        BY <2>1, <3>3
      <4>2. ~At(i).uop_cache_hit
        BY <3>1, <3>3 DEF QueueInv, HitsAreDone
      <4> QED BY <3>1, <4>1, <4>2
    <3>4. CASE At(i)'.uop_cache_hit
      BY <3>4
    <3> QED BY <1>1, <3>1, <3>2, <3>3, <3>4 DEF LookUp
  <2> QED BY <1>3, <2>1 DEF CompletedAreHits
<1>9. InFlightWaits'
  <2>1. \A i \in FTQIds : At(i)'.fetched = INFLIGHT => At(i).fetched = INFLIGHT
    BY <1>1 DEF LookUp
  <2> QED BY <1>1, <1>3, <2>1 DEF InFlightWaits, QueueInv
<1>10. HitsAreDone'
  <2>1. \A i \in FTQIds : At(i)'.uop_cache_hit => At(i)'.dib_checked /\ At(i)'.fetched # 0
    BY <1>1 DEF LookUp, QueueInv, HitsAreDone
  <2> QED BY <1>1, <2>1 DEF HitsAreDone
<1>11. Apart'
  BY <1>2 DEF Apart, QueueInv
<1> QED BY <1>1, <1>2, <1>3, <1>6, <1>7, <1>8, <1>9, <1>10, <1>11 DEF QueueInv

LEMMA StretchInQueue ==
  ASSUME Numbered, NEW n \in DOMAIN IFETCH_BUFFER
  PROVE  /\ Stretch(n) \subseteq 1..Len(IFETCH_BUFFER)
         /\ n \in 1..Len(IFETCH_BUFFER) /\ n \in Stretch(n)
         /\ \A m \in Stretch(n) : m >= n /\ \A j \in n..m : j \in Stretch(n)
<1> DEFINE length == Len(IFETCH_BUFFER)
<1>1. n \in 1..length /\ length \in Nat
  BY Sizes
<1>2. \A m \in Stretch(n) : m \in n..length
  BY DEF Stretch
<1>3. ASSUME NEW m \in Stretch(n), NEW j \in n..m PROVE j \in Stretch(n)
  <2>1. m \in n..length /\ \A k \in n..m : Line[IFETCH_BUFFER[k].id] = Line[IFETCH_BUFFER[n].id]
    BY <1>3 DEF Stretch
  <2>2. j \in n..length /\ \A k \in n..j : k \in n..m
    BY <1>1, <1>3, <2>1
  <2> QED BY <2>1, <2>2 DEF Stretch
<1>4. n \in Stretch(n)
  <2>1. n \in n..length /\ \A k \in n..n : k = n
    BY <1>1
  <2> QED BY <2>1 DEF Stretch
<1> HIDE DEF length
<1>5. Stretch(n) \subseteq 1..length /\ \A m \in Stretch(n) : m >= n
  BY <1>1, <1>2
<1> QED BY <1>1, <1>3, <1>4, <1>5 DEF length

LEMMA Paying ==
  ASSUME Numbered, QueueInv, PayPenalty,
         UNCHANGED <<instr_unique_id, DECODE_BUFFER, DISPATCH_BUFFER, executing>>
  PROVE  Numbered' /\ OnlyLookUps /\ Unresolved' = Unresolved
<1>1. PICK n \in Starts : \E m \in Penalized(n) :
        IFETCH_BUFFER' = [IFETCH_BUFFER EXCEPT ![m].penalty = FALSE]
  BY DEF PayPenalty
<1>2. PICK m \in Penalized(n) : IFETCH_BUFFER' = [IFETCH_BUFFER EXCEPT ![m].penalty = FALSE]
  BY <1>1
<1> DEFINE length == Len(IFETCH_BUFFER)
           new == [IFETCH_BUFFER EXCEPT ![m].penalty = FALSE]
<1>3. m \in 1..length
  <2>1. n \in DOMAIN IFETCH_BUFFER /\ m \in Stretch(n)
    BY DEF Starts, Penalized
  <2> QED BY <2>1, StretchInQueue
<1>4. DOMAIN IFETCH_BUFFER = 1..length /\ length \in Nat
  BY Sizes
<1>5. \A k \in 1..length : IFETCH_BUFFER[k] \in FTQEntry
  BY ByNumber
<1>6. ASSUME NEW k \in 1..length
      PROVE  /\ new[k] \in FTQEntry /\ new[k].id = IFETCH_BUFFER[k].id
             /\ new[k].mispredicted = IFETCH_BUFFER[k].mispredicted
             /\ new[k].dib_checked = IFETCH_BUFFER[k].dib_checked
             /\ new[k].uop_cache_hit = IFETCH_BUFFER[k].uop_cache_hit
             /\ new[k].fetched = IFETCH_BUFFER[k].fetched
  <2>1. CASE k = m
    <3>1. new[k] = [IFETCH_BUFFER[k] EXCEPT !.penalty = FALSE]
      BY <1>4, <2>1
    <3> HIDE DEF new
    <3> QED BY <1>5, <3>1, PaidEntry
  <2>2. CASE k # m
    <3>1. new[k] = IFETCH_BUFFER[k]
      BY <1>4, <2>2
    <3> QED BY <1>5, <3>1
  <2> QED BY <2>1, <2>2
<1>7. new \in Seq(FTQEntry) /\ Len(new) = length
  <2>1. DOMAIN new = 1..length /\ new = [k \in 1..length |-> new[k]]
    BY <1>4
  <2>2. new \in [1..length -> FTQEntry]
    BY <1>6, <2>1
  <2> HIDE DEF new, length
  <2> QED BY <1>4, <2>2, FunctionIsSeq
<1>8. IFETCH_BUFFER' = new
  BY <1>2
<1> HIDE DEF new
<1>9. InPlaceOf(new)
  BY <1>6, <1>7 DEF InPlaceOf
<1>10. /\ Numbered' /\ Front' = Front /\ FTQIds' = FTQIds
       /\ \A i \in FTQIds : At(i)' = new[i - Front + 1]
       /\ Unresolved' = Unresolved
  BY <1>8, <1>9, InPlace
<1>11. ASSUME NEW i \in FTQIds
       PROVE  /\ At(i)'.dib_checked = At(i).dib_checked /\ At(i)'.uop_cache_hit = At(i).uop_cache_hit
              /\ At(i)'.fetched = At(i).fetched
  <2>1. i - Front + 1 \in 1..length
    BY ByNumber
  <2> QED BY <1>6, <1>10, <2>1 DEF At
<1>12. LookedUpInOrder'
  <2>1. \A j \in FTQIds : \A i \in Front..j : i \in FTQIds
    BY Below
  <2> QED BY <1>10, <1>11, <2>1 DEF LookedUpInOrder, QueueInv
<1> QED BY <1>10, <1>11, <1>12 DEF OnlyLookUps, LookUp

\* The packet asked for, by number: it begins at b.
Asks(b, packet) ==
  /\ b \in packet /\ packet \subseteq FTQIds
  /\ \A i \in packet : i >= b /\ \A j \in b..i : j \in packet
  /\ At(b).dib_checked /\ At(b).fetched = 0
  /\ \A j \in Front..(b - 1) : ~At(j).dib_checked \/ At(j).fetched # 0

\* Only the entries of a packet become fetched.
Fetched(packet, f) ==
  /\ Front' = Front /\ FTQIds' = FTQIds
  /\ \A i \in FTQIds :
       /\ At(i)'.dib_checked = At(i).dib_checked /\ At(i)'.uop_cache_hit = At(i).uop_cache_hit
       /\ At(i)'.fetched = IF i \in packet THEN f ELSE At(i).fetched

LEMMA Asking ==
  ASSUME Numbered, QueueInv, AskForLine,
         UNCHANGED <<instr_unique_id, DECODE_BUFFER, DISPATCH_BUFFER, executing>>
  PROVE  /\ Numbered' /\ Unresolved' = Unresolved
         /\ \E b, packet : Asks(b, packet) /\ Fetched(packet, INFLIGHT) /\ asked' = asked \cup {packet}
<1>1. PICK n \in DOMAIN IFETCH_BUFFER :
        /\ Ready(n) /\ \A m \in 1..(n - 1) : ~Ready(m)
        /\ asked' = asked \cup {Dependents(n)}
        /\ IFETCH_BUFFER' = [m \in DOMAIN IFETCH_BUFFER |->
             IF m \in Stretch(n) THEN Fetching(IFETCH_BUFFER[m]) ELSE IFETCH_BUFFER[m]]
  BY DEF AskForLine
<1> DEFINE length == Len(IFETCH_BUFFER)
           new == [m \in 1..length |->
                     IF m \in Stretch(n) THEN Fetching(IFETCH_BUFFER[m]) ELSE IFETCH_BUFFER[m]]
           b == Front + n - 1
           packet == Dependents(n)
<1>2. DOMAIN IFETCH_BUFFER = 1..length /\ length \in Nat /\ Front \in Nat
  BY Sizes
<1>3. /\ Stretch(n) \subseteq 1..length /\ n \in 1..length /\ n \in Stretch(n)
      /\ \A m \in Stretch(n) : m >= n /\ \A j \in n..m : j \in Stretch(n)
  BY StretchInQueue
<1>4. \A m \in 1..length : /\ IFETCH_BUFFER[m] \in FTQEntry /\ IFETCH_BUFFER[m].id = Front + m - 1
                           /\ Front + m - 1 \in FTQIds /\ IFETCH_BUFFER[m] = At(Front + m - 1)
  BY ByNumber
<1>5. ASSUME NEW m \in 1..length
      PROVE  /\ new[m] \in FTQEntry /\ new[m].id = IFETCH_BUFFER[m].id
             /\ new[m].mispredicted = IFETCH_BUFFER[m].mispredicted
             /\ new[m].dib_checked = IFETCH_BUFFER[m].dib_checked
             /\ new[m].uop_cache_hit = IFETCH_BUFFER[m].uop_cache_hit
             /\ new[m].fetched = IF m \in Stretch(n) THEN INFLIGHT ELSE IFETCH_BUFFER[m].fetched
  <2>1. CASE m \in Stretch(n)
    <3>1. new[m] = [IFETCH_BUFFER[m] EXCEPT !.fetched = INFLIGHT]
      BY <2>1 DEF Fetching
    <3> HIDE DEF new
    <3> DEFINE old == IFETCH_BUFFER[m]
               d == [old EXCEPT !.fetched = INFLIGHT]
    <3>2. /\ d \in FTQEntry /\ d.id = old.id /\ d.mispredicted = old.mispredicted
          /\ d.dib_checked = old.dib_checked /\ d.uop_cache_hit = old.uop_cache_hit
          /\ d.fetched = INFLIGHT
      BY <1>4, FetchedEntry
    <3> QED BY <2>1, <3>1, <3>2
  <2>2. CASE m \notin Stretch(n)
    <3>1. new[m] = IFETCH_BUFFER[m]
      BY <2>2
    <3> HIDE DEF new
    <3> QED BY <1>4, <2>2, <3>1
  <2> QED BY <2>1, <2>2
<1>6. new \in Seq(FTQEntry) /\ Len(new) = length
  <2>1. new \in [1..length -> FTQEntry]
    BY <1>5
  <2> HIDE DEF new, length
  <2> QED BY <1>2, <2>1, FunctionIsSeq
<1>7. IFETCH_BUFFER' = new
  BY <1>1, <1>2
<1> HIDE DEF new
<1>8. InPlaceOf(new)
  BY <1>5, <1>6 DEF InPlaceOf
<1>9. /\ Numbered' /\ Front' = Front /\ FTQIds' = FTQIds
      /\ \A i \in FTQIds : At(i)' = new[i - Front + 1]
      /\ Unresolved' = Unresolved
  BY <1>7, <1>8, InPlace
<1>10. \A i \in FTQIds : i \in Nat /\ i - Front + 1 \in 1..length /\ At(i) = IFETCH_BUFFER[i - Front + 1]
  BY ByNumber DEF At
<1> HIDE DEF length
<1>11. \A i \in FTQIds : i \in packet <=> i - Front + 1 \in Stretch(n)
  <2>1. packet = {Front + m - 1 : m \in Stretch(n)}
    BY <1>3, <1>4 DEF Dependents
  <2>2. ASSUME NEW i \in FTQIds, i \in packet PROVE i - Front + 1 \in Stretch(n)
    <3>1. PICK m \in Stretch(n) : i = Front + m - 1
      BY <2>1, <2>2
    <3>2. m \in 1..length /\ i - Front + 1 = m
      BY <1>2, <1>3, <3>1
    <3> QED BY <3>2, <3>1
  <2>3. ASSUME NEW i \in FTQIds, i - Front + 1 \in Stretch(n) PROVE i \in packet
    <3>1. i = Front + (i - Front + 1) - 1
      BY <1>2, <1>10
    <3> QED BY <2>1, <2>3, <3>1
  <2> QED BY <2>2, <2>3
<1>12. packet \subseteq FTQIds
  BY <1>3, <1>4 DEF Dependents
<1>13. b \in FTQIds /\ b - Front + 1 = n /\ At(b) = IFETCH_BUFFER[n]
  BY <1>2, <1>3, <1>4
<1> HIDE DEF packet
<1>14. ASSUME NEW i \in packet PROVE i >= b /\ \A j \in b..i : j \in packet
  <2>1. i \in FTQIds /\ i - Front + 1 \in Stretch(n) /\ i \in Nat
    BY <1>10, <1>11, <1>12
  <2>2. i - Front + 1 >= n
    BY <1>3, <2>1
  <2>3. i >= b
    BY <1>2, <1>3, <2>1, <2>2
  <2>4. ASSUME NEW j \in b..i PROVE j \in packet
    <3>1. j \in FTQIds
      <4>1. b \in Nat /\ b >= Front
        BY <1>2, <1>3
      <4>2. j \in Front..i
        BY <1>2, <2>1, <4>1
      <4> QED BY <2>1, <4>2, Below
    <3>2. j - Front + 1 \in n..(i - Front + 1)
      BY <1>2, <1>3, <2>1, <2>4
    <3>3. j - Front + 1 \in Stretch(n)
      BY <1>3, <2>1, <3>2
    <3> QED BY <1>11, <3>1, <3>3
  <2> QED BY <2>3, <2>4
<1>15. ASSUME NEW j \in Front..(b - 1) PROVE ~At(j).dib_checked \/ At(j).fetched # 0
  <2>1. j - Front + 1 \in 1..(n - 1)
    BY <1>2, <1>3
  <2> QED BY <1>1, <2>1 DEF Ready, At
<1>16. Asks(b, packet)
  <2>1. b \in packet
    BY <1>3, <1>11, <1>13
  <2>2. At(b).dib_checked /\ At(b).fetched = 0
    BY <1>1, <1>13 DEF Ready
  <2> HIDE DEF b
  <2> QED BY <1>12, <1>14, <1>15, <2>1, <2>2 DEF Asks
<1>17. Fetched(packet, INFLIGHT)
  BY <1>5, <1>9, <1>10, <1>11 DEF Fetched
<1> QED BY <1>1, <1>9, <1>16, <1>17 DEF packet

LEMMA AskKeepsQueue ==
  ASSUME Numbered, QueueInv, NEW b, NEW packet, Asks(b, packet), Fetched(packet, INFLIGHT),
         asked' = asked \cup {packet}, UNCHANGED PROCESSED, handler' = "check"
  PROVE  QueueInv'
<1>1. Front' = Front /\ FTQIds' = FTQIds
  BY DEF Fetched
<1>2. \A i \in FTQIds :
        /\ At(i)'.dib_checked = At(i).dib_checked /\ At(i)'.uop_cache_hit = At(i).uop_cache_hit
        /\ At(i)'.fetched = IF i \in packet THEN INFLIGHT ELSE At(i).fetched
  BY DEF Fetched
<1>3. b \in packet /\ packet \subseteq FTQIds /\ b \in FTQIds
  BY DEF Asks
<1>4. \A i \in FTQIds : i \in Nat /\ i >= Front
  BY ByNumber
<1>5. Front \in Nat
  BY Sizes
<1>6. WaitingForLine' = WaitingForLine \cup packet /\ WaitingForLine \subseteq FTQIds
  BY DEF WaitingForLine, QueueInv
<1>7. packet \cap WaitingForLine = {}
  <2> SUFFICES ASSUME NEW i \in packet, i \in WaitingForLine PROVE FALSE
    OBVIOUS
  <2>1. i >= b /\ i \in Nat /\ b \in Nat /\ b >= Front
    BY <1>3, <1>4 DEF Asks
  <2>2. b \in Front..i
    BY <1>5, <2>1
  <2>3. At(b).fetched # 0
    BY <2>2 DEF QueueInv, AskedInOrder
  <2> QED BY <2>3 DEF Asks
<1>8. \A a \in asked : a \subseteq WaitingForLine
  BY WhoWaits DEF QueueInv
<1>9. \A p \in 1..Len(PROCESSED) : PROCESSED[p] \subseteq WaitingForLine
  BY WhoWaits DEF QueueInv
<1>10. Apart'
  <2>1. \A a \in asked' : a \in asked \/ a = packet
    OBVIOUS
  <2>2. \A a \in asked : a \cap packet = {}
    BY <1>7, <1>8
  <2>3. \A p \in 1..Len(PROCESSED) : packet \cap PROCESSED[p] = {}
    BY <1>7, <1>9
  <2>4. Apart
    BY DEF QueueInv
  <2>5. \A a, c \in asked' : a # c => a \cap c = {}
    BY <2>1, <2>2, <2>4 DEF Apart
  <2>6. \A a \in asked' : \A p \in 1..Len(PROCESSED) : a \cap PROCESSED[p] = {}
    BY <2>1, <2>3, <2>4 DEF Apart
  <2> QED BY <2>4, <2>5, <2>6 DEF Apart
<1>11. NobodyServed'
  <2>1. \A i \in FTQIds : Missing(i) => Missing(i)'
    BY <1>2 DEF Missing
  <2>2. ASSUME NEW c, Whole(c), c \subseteq FTQIds PROVE Whole(c)'
    BY <2>1, <2>2 DEF Whole
  <2>3. Whole(packet)'
    <3>1. At(b).dib_checked /\ ~At(b).uop_cache_hit
      BY <1>3 DEF Asks, QueueInv, HitsAreDone
    <3>2. Missing(b)'
      BY <1>2, <1>3, <3>1 DEF Missing
    <3>3. \A i \in packet : b <= i
      BY <1>3, <1>4 DEF Asks
    <3> QED BY <1>3, <3>2, <3>3 DEF Whole
  <2>4. \A p \in 2..Len(PROCESSED) : p \in 1..Len(PROCESSED)
    BY LenProperties DEF QueueInv
  <2>5. \A a \in asked : Whole(a)'
    BY <1>6, <1>8, <2>2 DEF QueueInv, NobodyServed
  <2>6. \A p \in 2..Len(PROCESSED) : Whole(PROCESSED[p])'
    BY <1>6, <1>9, <2>2, <2>4 DEF QueueInv, NobodyServed
  <2> QED BY <2>3, <2>5, <2>6 DEF NobodyServed
<1>12. AskedInOrder'
  <2>1. ASSUME NEW i \in WaitingForLine, NEW j \in Front..i PROVE At(j)'.fetched # 0
    <3>1. j \in FTQIds /\ At(j).fetched # 0
      BY <1>6, Below DEF QueueInv, AskedInOrder
    <3> QED BY <1>2, <3>1
  <2>2. ASSUME NEW i \in packet, NEW j \in Front..i PROVE At(j)'.fetched # 0
    <3>1. i \in FTQIds /\ i \in Nat /\ b \in Nat /\ b >= Front
      BY <1>3, <1>4
    <3>2. j \in FTQIds
      BY <3>1, Below
    <3>3. CASE j >= b
      <4>1. j \in b..i
        BY <1>5, <3>1, <3>3
      <4>2. j \in packet
        BY <4>1 DEF Asks
      <4> QED BY <1>2, <3>2, <4>2
    <3>4. CASE ~(j >= b)
      <4>1. j \in Front..(b - 1) /\ j \in Front..b
        BY <1>5, <3>1, <3>4
      <4>2. At(j).dib_checked
        BY <1>3, <4>1 DEF Asks, QueueInv, LookedUpInOrder
      <4>3. At(j).fetched # 0
        BY <4>1, <4>2 DEF Asks
      <4> QED BY <1>2, <3>2, <4>3
    <3> QED BY <3>3, <3>4
  <2> QED BY <1>1, <1>6, <2>1, <2>2 DEF AskedInOrder
<1>13. CompletedAreHits'
  BY <1>2, <1>3, <1>6 DEF CompletedAreHits, QueueInv
<1>14. InFlightWaits'
  BY <1>1, <1>2, <1>6 DEF InFlightWaits, QueueInv
<1>15. LookedUpInOrder'
  <2>1. \A j \in FTQIds : \A i \in Front..j : i \in FTQIds
    BY Below
  <2> QED BY <1>1, <1>2, <2>1 DEF LookedUpInOrder, QueueInv
<1>16. HitsAreDone'
  BY <1>1, <1>2 DEF HitsAreDone, QueueInv
<1>17. asked' \subseteq SUBSET Nat
  BY <1>3, <1>4 DEF QueueInv
<1> QED BY <1>1, <1>3, <1>6, <1>10, <1>11, <1>12, <1>13, <1>14, <1>15, <1>16, <1>17 DEF QueueInv

-----------------------------------------------------------------------------
(* handle_memory_return.                                                   *)

Left(p) == PROCESSED[p] \ Served(p)

LEMMA InFrontIsFinite ==
  ASSUME Numbered, QueueInv, NEW p \in 0..Len(PROCESSED)
  PROVE  IsFiniteSet(InFront(p)) /\ Cardinality(InFront(p)) \in Nat
<1>1. Len(PROCESSED) \in Nat /\ p \in Nat /\ \A n \in 1..p : n \in 1..Len(PROCESSED)
  BY LenProperties DEF QueueInv
<1>2. IsFiniteSet(1..p) /\ IsFiniteSet(FTQIds)
  <2>1. instr_unique_id - 1 \in Int /\ Front \in Int
    BY Sizes DEF Numbered
  <2> QED BY <1>1, <2>1, FS_Interval DEF FTQIds
<1>3. IsFiniteSet((1..p) \X FTQIds)
  BY <1>2, FS_Product
<1>4. InFront(p) \subseteq (1..p) \X FTQIds
  <2>1. \A n \in 1..p : PROCESSED[n] \subseteq FTQIds
    BY <1>1, WhoWaits DEF QueueInv
  <2> QED BY <2>1 DEF InFront
<1>5. IsFiniteSet(InFront(p))
  BY <1>3, <1>4, FS_Subset
<1> QED BY <1>5, FS_CardinalityType

\* What lies in front of a number of the queue.
LEMMA FewInFront ==
  ASSUME Numbered, NEW j \in FTQIds, NEW packet, packet \subseteq FTQIds
  PROVE  /\ IsFiniteSet({i \in packet : i < j})
         /\ Cardinality({i \in packet : i < j}) \in Nat
         /\ Cardinality({i \in packet : i < j}) <= j - Front
<1> DEFINE S == {i \in packet : i < j}
<1>1. Front \in Nat /\ j \in Nat /\ j >= Front
  BY Sizes, ByNumber
<1>2. \A i \in packet : i \in Nat /\ i >= Front
  BY ByNumber
<1>3. S \subseteq Front..(j - 1)
  <2>1. ASSUME NEW i \in packet, i < j PROVE i \in Front..(j - 1)
    BY <1>1, <1>2, <2>1
  <2> QED BY <2>1
<1> HIDE DEF S
<1>4. Front \in Int /\ j - 1 \in Int
  BY <1>1
<1>5. IsFiniteSet(Front..(j - 1)) /\ Cardinality(Front..(j - 1)) = j - Front
  <2>1. /\ IsFiniteSet(Front..(j - 1))
        /\ Cardinality(Front..(j - 1)) = IF Front > j - 1 THEN 0 ELSE (j - 1) - Front + 1
    BY <1>4, FS_Interval
  <2>2. CASE Front > j - 1
    <3>1. j - Front = 0
      BY <1>1, <2>2
    <3> QED BY <2>1, <2>2, <3>1
  <2>3. CASE ~(Front > j - 1)
    <3>1. (j - 1) - Front + 1 = j - Front
      BY <1>1
    <3> QED BY <2>1, <2>3, <3>1
  <2> QED BY <2>2, <2>3
<1>6. IsFiniteSet(S) /\ Cardinality(S) <= j - Front
  BY <1>3, <1>5, FS_Subset
<1>7. Cardinality(S) \in Nat
  BY <1>6, FS_CardinalityType
<1> QED BY <1>6, <1>7 DEF S

\* What is left of the first packet is as far away as the width.
LEMMA FirstLeft ==
  ASSUME Numbered, QueueInv, NEW j \in Left(1), 1 \in 1..Len(PROCESSED)
  PROVE  j >= Front + FETCH_WIDTH
<1> DEFINE S == {i \in PROCESSED[1] : i < j}
<1>1. Served(1) = Least(PROCESSED[1], FETCH_WIDTH)
  <2>1. InFront(0) = {}
    BY DEF InFront
  <2>2. FETCH_WIDTH \in Nat /\ L1I_BANDWIDTH \in Nat \ {0}
    BY FrontEndAssumption
  <2>3. Bandwidth(0) = FETCH_WIDTH
    BY <2>1, <2>2, FS_EmptySet DEF Bandwidth
  <2>4. ~(1 > L1I_BANDWIDTH) /\ 1 - 1 = 0
    BY <2>2
  <2> QED BY <2>3, <2>4 DEF Served
<1>2. ~(Cardinality(S) < FETCH_WIDTH)
  BY <1>1 DEF Left, Least
<1>3. PROCESSED[1] \subseteq FTQIds /\ j \in FTQIds
  BY WhoWaits DEF QueueInv, Left
<1>4. Cardinality(S) \in Nat /\ Cardinality(S) <= j - Front
  BY <1>3, FewInFront
<1> HIDE DEF S
<1>5. Front \in Nat /\ j \in Nat /\ FETCH_WIDTH \in Nat
  BY <1>3, Sizes, ByNumber, FrontEndAssumption
<1> QED BY <1>2, <1>4, <1>5

\* A packet that is not served to the end has taken all of the width.
LEMMA NothingBehind ==
  ASSUME Numbered, QueueInv, NEW d \in 1..Len(PROCESSED), Left(d) # {},
         NEW p \in 1..Len(PROCESSED), p > d
  PROVE  Served(p) = {}
<1>0. /\ Len(PROCESSED) \in Nat /\ d \in Nat /\ p \in Nat /\ d - 1 \in Nat /\ p - 1 \in Nat
      /\ d - 1 \in 0..Len(PROCESSED) /\ p - 1 \in 0..Len(PROCESSED)
      /\ d \in 1..(p - 1) /\ \A n \in 1..(d - 1) : n \in 1..(p - 1) /\ n # d
  BY LenProperties DEF QueueInv
<1>1. CASE p > L1I_BANDWIDTH
  BY <1>1 DEF Served
<1>2. CASE ~(p > L1I_BANDWIDTH)
  <2>1. ~(d > L1I_BANDWIDTH)
    BY <1>0, <1>2, FrontEndAssumption
  <2>2. PICK j \in PROCESSED[d] : j \notin Least(PROCESSED[d], Bandwidth(d - 1))
    BY <2>1 DEF Left, Served
  <2> DEFINE S == {i \in PROCESSED[d] : i < j}
             here == {d} \X S
             count == Cardinality(S)
             before == Cardinality(InFront(d - 1))
             all == Cardinality(InFront(p - 1))
  <2>3. ~(count < FETCH_WIDTH - before)
    BY <2>2 DEF Least, Bandwidth
  <2>4. PROCESSED[d] \subseteq FTQIds /\ PROCESSED[p] \subseteq FTQIds
    BY WhoWaits DEF QueueInv
  <2>5. IsFiniteSet(S) /\ count \in Nat
    BY <2>2, <2>4, FewInFront
  <2>6. /\ IsFiniteSet(InFront(d - 1)) /\ before \in Nat
        /\ IsFiniteSet(InFront(p - 1)) /\ all \in Nat
    BY <1>0, InFrontIsFinite
  <2>7. IsFiniteSet(here) /\ Cardinality(here) = count
    <3>1. IsFiniteSet({d}) /\ Cardinality({d}) = 1
      BY FS_Singleton
    <3> HIDE DEF S
    <3>2. IsFiniteSet(here) /\ Cardinality(here) = 1 * count
      BY <2>5, <3>1, FS_Product
    <3> QED BY <2>5, <3>2
  <2>8. InFront(d - 1) \cap here = {}
    BY <1>0 DEF InFront
  <2>9. InFront(d - 1) \cup here \subseteq InFront(p - 1)
    <3>1. InFront(d - 1) \subseteq InFront(p - 1)
      BY <1>0 DEF InFront
    <3>2. here \subseteq {d} \X PROCESSED[d]
      OBVIOUS
    <3>3. {d} \X PROCESSED[d] \subseteq InFront(p - 1)
      BY <1>0 DEF InFront
    <3> QED BY <3>1, <3>2, <3>3
  <2> HIDE DEF S, here
  <2>10. Cardinality(InFront(d - 1) \cup here) = before + count
    <3>1. Cardinality(InFront(d - 1) \cup here)
            = before + Cardinality(here) - Cardinality(InFront(d - 1) \cap here)
      BY <2>6, <2>7, FS_Union
    <3>2. Cardinality(InFront(d - 1) \cap here) = 0
      BY <2>8, FS_EmptySet
    <3> HIDE DEF before, count
    <3> QED BY <2>5, <2>6, <2>7, <3>1, <3>2
  <2>11. before + count <= all
    BY <2>6, <2>9, <2>10, FS_Subset
  <2> HIDE DEF before, count, all
  <2>12. FETCH_WIDTH - all <= 0
    BY <2>3, <2>5, <2>6, <2>11, FrontEndAssumption
  <2>13. Least(PROCESSED[p], FETCH_WIDTH - all) = {}
    <3>1. ASSUME NEW i \in PROCESSED[p] PROVE ~(Cardinality({k \in PROCESSED[p] : k < i}) < FETCH_WIDTH - all)
      <4> DEFINE c == Cardinality({k \in PROCESSED[p] : k < i})
      <4>1. c \in Nat
        BY <2>4, FewInFront
      <4> HIDE DEF c
      <4>2. ~(c < FETCH_WIDTH - all)
        BY <2>6, <2>12, <4>1, FrontEndAssumption
      <4> QED BY <4>2 DEF c
    <3> QED BY <3>1 DEF Least
  <2> QED BY <1>2, <2>13 DEF Served, Bandwidth, all
<1> QED BY <1>1, <1>2

\* A packet that will be whole.
StaysWhole(packet) == \A j \in packet : \E i \in packet : i <= j /\ Missing(i)'

ServedNow == UNION {Served(p) : p \in DOMAIN PROCESSED}

Shortened(done) ==
  /\ \A p \in 1..Len(PROCESSED) : Left(p) = {} <=> p <= done
  /\ PROCESSED' \in Seq(SUBSET Nat) /\ Len(PROCESSED') = Len(PROCESSED) - done
  /\ \A q \in 1..(Len(PROCESSED) - done) : PROCESSED'[q] = Left(q + done)

LEMMA Returning ==
  ASSUME Numbered, QueueInv, HandleMemoryReturn
  PROVE  /\ Numbered' /\ Unresolved' = Unresolved /\ Fetched(ServedNow, COMPLETED)
         /\ \E done \in 0..Len(PROCESSED) : Shortened(done)
<1> DEFINE length == Len(IFETCH_BUFFER)
           new == [n \in 1..length |->
              IF IFETCH_BUFFER[n].id \in ServedNow /\ IFETCH_BUFFER[n].fetched # 0
              THEN [IFETCH_BUFFER[n] EXCEPT !.fetched = COMPLETED] ELSE IFETCH_BUFFER[n]]
           rest == [p \in DOMAIN PROCESSED |-> Left(p)]
<1>1. DOMAIN IFETCH_BUFFER = 1..length /\ length \in Nat /\ Front \in Nat
  BY Sizes
<1>2. IFETCH_BUFFER' = new
  BY <1>1 DEF HandleMemoryReturn, ServedNow
<1>3. UNCHANGED <<instr_unique_id, DECODE_BUFFER, DISPATCH_BUFFER, executing>>
  BY DEF HandleMemoryReturn, reading
<1>4. \A n \in 1..length : /\ IFETCH_BUFFER[n] \in FTQEntry /\ IFETCH_BUFFER[n].id = Front + n - 1
                           /\ IFETCH_BUFFER[n] = At(Front + n - 1)
  BY ByNumber
<1>5. DOMAIN PROCESSED = 1..Len(PROCESSED) /\ Len(PROCESSED) \in Nat
  BY LenProperties DEF QueueInv
<1>6. ServedNow \subseteq WaitingForLine
  <2>1. \A p \in DOMAIN PROCESSED : Served(p) \subseteq PROCESSED[p]
    BY DEF Served, Least
  <2> QED BY <2>1 DEF ServedNow, WaitingForLine, Entries
<1>7. \A i \in ServedNow : i \in FTQIds /\ At(i).fetched # 0
  <2>1. \A i \in WaitingForLine : i \in FTQIds
    BY DEF QueueInv
  <2>2. \A i \in FTQIds : i \in Front..i
    BY <1>1, ByNumber
  <2> QED BY <1>6, <2>1, <2>2 DEF QueueInv, AskedInOrder
<1>8. ASSUME NEW n \in 1..length
      PROVE  /\ new[n] \in FTQEntry /\ new[n].id = IFETCH_BUFFER[n].id
             /\ new[n].mispredicted = IFETCH_BUFFER[n].mispredicted
             /\ new[n].dib_checked = IFETCH_BUFFER[n].dib_checked
             /\ new[n].uop_cache_hit = IFETCH_BUFFER[n].uop_cache_hit
             /\ new[n].fetched = IF IFETCH_BUFFER[n].id \in ServedNow THEN COMPLETED
                                 ELSE IFETCH_BUFFER[n].fetched
  <2> DEFINE old == IFETCH_BUFFER[n]
             d == [old EXCEPT !.fetched = COMPLETED]
  <2>1. CASE old.id \in ServedNow
    <3>1. old.fetched # 0
      BY <1>4, <1>7, <2>1
    <3>2. new[n] = d
      BY <2>1, <3>1
    <3> HIDE DEF new
    <3>3. /\ d \in FTQEntry /\ d.id = old.id /\ d.mispredicted = old.mispredicted
          /\ d.dib_checked = old.dib_checked /\ d.uop_cache_hit = old.uop_cache_hit
          /\ d.fetched = COMPLETED
      BY <1>4, FetchedEntry
    <3> QED BY <2>1, <3>2, <3>3
  <2>2. CASE old.id \notin ServedNow
    <3>1. new[n] = old
      BY <2>2
    <3> HIDE DEF new
    <3> QED BY <1>4, <2>2, <3>1
  <2> QED BY <2>1, <2>2
<1>9. new \in Seq(FTQEntry) /\ Len(new) = length
  <2>1. new \in [1..length -> FTQEntry]
    BY <1>8
  <2> HIDE DEF new, length
  <2> QED BY <1>1, <2>1, FunctionIsSeq
<1> HIDE DEF new
<1>10. InPlaceOf(new)
  BY <1>8, <1>9 DEF InPlaceOf
<1>11. /\ Numbered' /\ Front' = Front /\ FTQIds' = FTQIds
       /\ \A i \in FTQIds : At(i)' = new[i - Front + 1]
       /\ Unresolved' = Unresolved
  BY <1>2, <1>3, <1>10, InPlace
<1>12. Fetched(ServedNow, COMPLETED)
  <2>1. \A i \in FTQIds : /\ i - Front + 1 \in 1..length /\ At(i) = IFETCH_BUFFER[i - Front + 1]
                          /\ At(i).id = i
    BY ByNumber DEF At
  <2> QED BY <1>8, <1>11, <2>1 DEF Fetched
<1>13. rest \in Seq(SUBSET Nat) /\ Len(rest) = Len(PROCESSED)
  <2>1. \A p \in 1..Len(PROCESSED) : Left(p) \in SUBSET Nat
    BY ElementOfSeq DEF QueueInv, Left
  <2>2. rest \in [1..Len(PROCESSED) -> SUBSET Nat]
    BY <1>5, <2>1
  <2> HIDE DEF rest
  <2> QED BY <1>5, <2>2, FunctionIsSeq
<1>14. \A p \in 1..Len(PROCESSED) : rest[p] = Left(p)
  BY <1>5
<1>15. \E done \in 0..Len(PROCESSED) :
         /\ \A p \in DOMAIN PROCESSED : rest[p] = {} <=> p <= done
         /\ PROCESSED' = Rest(rest, done)
  BY Zenon DEF HandleMemoryReturn, Left
<1> HIDE DEF rest
<1>16. PICK done \in 0..Len(PROCESSED) :
         /\ \A p \in DOMAIN PROCESSED : rest[p] = {} <=> p <= done
         /\ PROCESSED' = Rest(rest, done)
  BY <1>15
<1>17. Shortened(done)
  <2>1. /\ Rest(rest, done) \in Seq(SUBSET Nat) /\ Len(Rest(rest, done)) = Len(rest) - done
        /\ \A n \in 1..(Len(rest) - done) : Rest(rest, done)[n] = rest[n + done]
    <3>1. done \in 0..Len(rest)
      BY <1>13, <1>16
    <3> QED BY <1>13, <3>1, RestProperties
  <2>2. \A n \in 1..(Len(PROCESSED) - done) : n + done \in 1..Len(PROCESSED)
    BY <1>5, <1>16
  <2> QED BY <1>5, <1>13, <1>14, <1>16, <2>1, <2>2 DEF Shortened
<1> QED BY <1>5, <1>11, <1>12, <1>14, <1>16, <1>17

LEMMA ReturnKeepsQueue ==
  ASSUME Numbered, QueueInv, Fetched(ServedNow, COMPLETED), NEW done \in 0..Len(PROCESSED),
         Shortened(done), UNCHANGED asked
  PROVE  QueueInv'
<1> DEFINE length == Len(PROCESSED)
<1>1. /\ Front' = Front /\ FTQIds' = FTQIds
      /\ \A i \in FTQIds :
           /\ At(i)'.dib_checked = At(i).dib_checked /\ At(i)'.uop_cache_hit = At(i).uop_cache_hit
           /\ At(i)'.fetched = IF i \in ServedNow THEN COMPLETED ELSE At(i).fetched
  BY DEF Fetched
<1>2. length \in Nat /\ done \in Nat /\ done <= length
  BY LenProperties DEF QueueInv
<1>3. /\ PROCESSED' \in Seq(SUBSET Nat) /\ Len(PROCESSED') = length - done
      /\ \A q \in 1..(length - done) : PROCESSED'[q] = Left(q + done)
  BY DEF Shortened
<1>4. \A p \in 1..length : Left(p) = {} <=> p <= done
  BY DEF Shortened
<1>5. \A p \in 1..length : Left(p) \subseteq PROCESSED[p] /\ Served(p) \subseteq PROCESSED[p]
  BY DEF Left, Served, Least
<1>6. \A i : i \in ServedNow <=> \E p \in 1..length : i \in Served(p)
  <2>1. DOMAIN PROCESSED = 1..length
    BY LenProperties DEF QueueInv
  <2> QED BY <2>1 DEF ServedNow
<1>7. \A a \in asked : a \subseteq WaitingForLine /\ a \subseteq FTQIds
  BY WhoWaits DEF QueueInv
<1>8. \A p \in 1..length : PROCESSED[p] \subseteq WaitingForLine /\ PROCESSED[p] \subseteq FTQIds
  BY WhoWaits DEF QueueInv
<1>9. \A i : i \in WaitingForLine' <=> \/ \E a \in asked : i \in a
                                       \/ \E p \in 1..(length - done) : i \in Left(p + done)
  <2>1. \A i : i \in WaitingForLine' <=> \/ \E a \in asked' : i \in a
                                         \/ \E p \in 1..Len(PROCESSED') : i \in PROCESSED'[p]
    <3>1. DOMAIN PROCESSED' = 1..Len(PROCESSED')
      BY <1>3, LenProperties
    <3> QED BY <3>1 DEF WaitingForLine, Entries
  <2> QED BY <1>3, <2>1
<1> HIDE DEF length
<1>10. \A p \in 1..(length - done) : p + done \in 1..length /\ p + done > done /\ p \in Nat
  BY <1>2
<1>11. WaitingForLine' \subseteq WaitingForLine /\ WaitingForLine \subseteq FTQIds
  BY <1>5, <1>7, <1>8, <1>9, <1>10 DEF QueueInv
<1>12. Apart
  BY DEF QueueInv
\* Nobody who is served goes on waiting.
<1>13. \A i \in WaitingForLine' : i \notin ServedNow
  <2> SUFFICES ASSUME NEW i \in WaitingForLine', NEW p \in 1..length, i \in Served(p) PROVE FALSE
    BY <1>6
  <2>1. i \in PROCESSED[p]
    BY <1>5
  <2>2. CASE \E a \in asked : i \in a
    BY <1>12, <2>1, <2>2 DEF Apart, length
  <2>3. CASE \E q \in 1..(length - done) : i \in Left(q + done)
    <3>1. PICK q \in 1..length : i \in Left(q)
      BY <1>10, <2>3
    <3>2. q = p
      BY <1>5, <1>12, <2>1, <3>1 DEF Apart, length
    <3> QED BY <3>1, <3>2 DEF Left
  <2> QED BY <1>9, <2>2, <2>3
<1>14. \A i \in WaitingForLine' : At(i)'.fetched = At(i).fetched /\ i \in FTQIds
  BY <1>1, <1>11, <1>13
<1>15. \A i \in WaitingForLine' : Missing(i) => Missing(i)'
  BY <1>1, <1>14 DEF Missing
<1>16. ASSUME NEW packet, Whole(packet), packet \subseteq WaitingForLine' PROVE StaysWhole(packet)
  BY <1>15, <1>16 DEF Whole, StaysWhole
<1>17. Apart'
  <2>1. \A a, b \in asked' : a # b => a \cap b = {}
    BY <1>12 DEF Apart
  <2>2. \A a \in asked' : \A q \in 1..(length - done) : a \cap Left(q + done) = {}
    BY <1>5, <1>10, <1>12 DEF Apart, length
  <2>3. ASSUME NEW p \in 1..(length - done), NEW q \in 1..(length - done), p # q
        PROVE  Left(p + done) \cap Left(q + done) = {}
    <3>1. p + done # q + done /\ p + done \in 1..length /\ q + done \in 1..length
      BY <1>2, <1>10, <2>3
    <3>2. PROCESSED[p + done] \cap PROCESSED[q + done] = {}
      BY <1>12, <3>1 DEF Apart, length
    <3> QED BY <1>5, <3>1, <3>2
  <2> QED BY <1>3, <2>1, <2>2, <2>3 DEF Apart
<1>18. NobodyServed'
  <2>1. \A a \in asked' : StaysWhole(a)
    <3>1. \A a \in asked : a \subseteq WaitingForLine'
      BY <1>9
    <3> QED BY <1>16, <3>1 DEF QueueInv, NobodyServed
  <2>2. ASSUME NEW q \in 2..(length - done) PROVE StaysWhole(PROCESSED'[q])
    <3> DEFINE p == q + done
               d == done + 1
    <3>1. /\ d \in 1..length /\ ~(d <= done) /\ p \in 1..length /\ p > d /\ p \in 2..length
          /\ q \in 1..(length - done)
      BY <1>2
    <3>2. Left(d) # {}
      BY <1>4, <3>1
    <3>3. Left(p) \subseteq WaitingForLine'
      BY <1>9, <3>1
    <3>4. PROCESSED'[q] = Left(p)
      BY <1>3, <3>1
    <3> HIDE DEF p, d
    <3>5. Served(p) = {}
      BY <3>1, <3>2, NothingBehind DEF length
    <3>6. Left(p) = PROCESSED[p]
      BY <3>5 DEF Left
    <3>7. Whole(PROCESSED[p])
      BY <3>1 DEF QueueInv, NobodyServed, length
    <3> QED BY <1>16, <3>3, <3>4, <3>6, <3>7
  <2> QED BY <1>3, <2>1, <2>2 DEF NobodyServed, Whole, StaysWhole
<1>19. AskedInOrder'
  <2>1. ASSUME NEW i \in WaitingForLine', NEW j \in Front..i PROVE At(j)'.fetched # 0
    <3>1. j \in FTQIds /\ At(j).fetched # 0
      BY <1>11, <2>1, Below DEF QueueInv, AskedInOrder
    <3> QED BY <1>1, <3>1
  <2> QED BY <1>1, <2>1 DEF AskedInOrder
<1>20. CompletedAreHits'
  BY <1>1, <1>11, <1>14 DEF CompletedAreHits, QueueInv
<1>21. InFlightWaits'
  <2>1. ASSUME NEW i \in FTQIds, At(i)'.fetched = INFLIGHT PROVE i \in WaitingForLine'
    <3>1. i \notin ServedNow /\ At(i).fetched = INFLIGHT
      BY <1>1, <2>1
    <3>2. i \in WaitingForLine
      BY <3>1 DEF QueueInv, InFlightWaits
    <3>3. CASE \E a \in asked : i \in a
      BY <1>9, <3>3
    <3>4. CASE \E p \in 1..length : i \in PROCESSED[p]
      <4>1. PICK p \in 1..length : i \in PROCESSED[p]
        BY <3>4
      <4>2. i \in Left(p)
        BY <1>6, <3>1, <4>1 DEF Left
      <4>3. ~(p <= done)
        BY <1>4, <4>2
      <4>4. p - done \in 1..(length - done) /\ (p - done) + done = p
        BY <1>2, <4>3
      <4> QED BY <1>9, <4>2, <4>4
    <3> QED BY <3>2, <3>3, <3>4, WhoWaits DEF QueueInv, length
  <2> QED BY <1>1, <2>1 DEF InFlightWaits
<1>22. LookedUpInOrder'
  <2>1. \A j \in FTQIds : \A i \in Front..j : i \in FTQIds
    BY Below
  <2> QED BY <1>1, <2>1 DEF LookedUpInOrder, QueueInv
<1>23. HitsAreDone'
  BY <1>1 DEF HitsAreDone, QueueInv
<1>24. Covered'
  <2>1. ASSUME length - done > 0, NEW j \in PROCESSED'[1]
        PROVE  j >= Front + FETCH_WIDTH \/ \E i \in Front..j : ~At(i)'.uop_cache_hit
    <3> DEFINE d == 1 + done
    <3>1. 1 \in 1..(length - done) /\ d \in 1..length /\ j \in Left(d)
      BY <1>2, <1>3, <2>1
    <3>2. CASE d = 1
      <4>1. j \in Left(1) /\ 1 \in 1..Len(PROCESSED)
        BY <3>1, <3>2 DEF length
      <4> QED BY <4>1, FirstLeft
    <3>3. CASE d # 1
      <4>1. d \in 2..length
        BY <1>2, <3>1, <3>3
      <4>2. Whole(PROCESSED[d]) /\ j \in PROCESSED[d]
        BY <1>5, <3>1, <4>1 DEF QueueInv, NobodyServed, length
      <4>3. PICK i \in PROCESSED[d] : i <= j /\ Missing(i)
        BY <4>2 DEF Whole
      <4>4. i \in FTQIds /\ j \in FTQIds
        BY <1>8, <3>1, <4>2
      <4>5. i \in Front..j
        BY <4>3, <4>4, ByNumber, Sizes
      <4> QED BY <1>1, <4>3, <4>4, <4>5 DEF Missing
    <3> QED BY <3>2, <3>3
  <2> QED BY <1>1, <1>3, <2>1 DEF Covered
<1> QED BY <1>1, <1>3, <1>11, <1>17, <1>18, <1>19, <1>20, <1>21, <1>22, <1>23, <1>24 DEF QueueInv

-----------------------------------------------------------------------------
(* The L1I, the head of the pipeline and its end.                          *)

LEMMA AnswerKeepsQueue ==
  ASSUME Numbered, QueueInv, L1I
  PROVE  QueueInv'
<1>1. UNCHANGED <<IFETCH_BUFFER, instr_unique_id>> /\ handler' \in {"l1i", "complete"}
  <2>1. After["l1i"] = "complete"
    BY DEF After
  <2> QED BY <2>1 DEF L1I, buffers
<1>2. CASE UNCHANGED l1i
  BY <1>1, <1>2, QueueKept DEF l1i
<1>3. CASE ~UNCHANGED l1i
  <2>1. PICK packets \in (SUBSET asked) \ {{}} :
          asked' = asked \ packets /\ PROCESSED' = Append(PROCESSED, UNION packets)
    BY <1>3 DEF L1I
  <2> DEFINE length == Len(PROCESSED)
             answer == UNION packets
  <2>2. PROCESSED \in Seq(SUBSET Nat) /\ length \in Nat /\ asked \subseteq SUBSET Nat
    BY LenProperties DEF QueueInv
  <2>3. answer \in SUBSET Nat
    BY <2>1, <2>2
  <2>4. /\ PROCESSED' \in Seq(SUBSET Nat) /\ Len(PROCESSED') = length + 1
        /\ \A p \in 1..length : PROCESSED'[p] = PROCESSED[p]
        /\ PROCESSED'[length + 1] = answer
    <3> HIDE DEF answer
    <3> QED BY <2>1, <2>2, <2>3, AppendProperties DEF answer
  <2>5. \A i : i \in answer <=> \E a \in packets : i \in a
    OBVIOUS
  <2> HIDE DEF length, answer
  <2>6. \A p : p \in 1..(length + 1) <=> p \in 1..length \/ p = length + 1
    BY <2>2
  <2>7. WaitingForLine' = WaitingForLine
    <3>1. \A i : i \in WaitingForLine' <=> \/ \E a \in asked' : i \in a
                                           \/ \E p \in 1..Len(PROCESSED') : i \in PROCESSED'[p]
      <4>1. DOMAIN PROCESSED' = 1..Len(PROCESSED')
        BY <2>4, LenProperties
      <4> QED BY <4>1 DEF WaitingForLine, Entries
    <3>2. \A i : i \in WaitingForLine <=> \/ \E a \in asked : i \in a
                                          \/ \E p \in 1..length : i \in PROCESSED[p]
      BY <2>2, WhoWaits DEF length
    <3>3. \A i : (\E p \in 1..Len(PROCESSED') : i \in PROCESSED'[p])
                   <=> (i \in answer \/ \E p \in 1..length : i \in PROCESSED[p])
      BY <2>4, <2>6
    <3>4. \A i : (\E a \in asked : i \in a) <=> ((\E a \in asked' : i \in a) \/ i \in answer)
      BY <2>1, <2>5
    <3>5. \A i : i \in WaitingForLine' <=> i \in WaitingForLine
      BY <3>1, <3>2, <3>3, <3>4
    <3> QED BY <3>5
  <2>8. Front' = Front /\ FTQIds' = FTQIds
    BY <1>1 DEF Front, FTQIds
  <2>9. \A i : At(i)' = At(i)
    BY <1>1, <2>8 DEF At
  <2>10. \A i : Missing(i)' <=> Missing(i)
    BY <2>9 DEF Missing
  <2>11. Apart'
    <3>1. Apart
      BY DEF QueueInv
    <3>2. \A a, b \in asked' : a # b => a \cap b = {}
      BY <2>1, <3>1 DEF Apart
    <3>3. \A a \in asked' : a \cap answer = {}
      BY <2>1, <2>5, <3>1 DEF Apart
    <3>4. \A p \in 1..length : answer \cap PROCESSED[p] = {}
      BY <2>1, <2>5, <3>1 DEF Apart, length
    <3>5. \A a \in asked' : \A p \in 1..(length + 1) : a \cap PROCESSED'[p] = {}
      BY <2>1, <2>4, <2>6, <3>1, <3>3 DEF Apart, length
    <3>6. \A p, q \in 1..(length + 1) : p # q => PROCESSED'[p] \cap PROCESSED'[q] = {}
      <4> SUFFICES ASSUME NEW p \in 1..(length + 1), NEW q \in 1..(length + 1), p # q
                   PROVE  PROCESSED'[p] \cap PROCESSED'[q] = {}
        OBVIOUS
      <4>1. CASE p \in 1..length /\ q \in 1..length
        BY <2>4, <3>1, <4>1 DEF Apart, length
      <4>2. CASE p \in 1..length /\ q = length + 1
        BY <2>4, <3>4, <4>2
      <4>3. CASE p = length + 1 /\ q \in 1..length
        BY <2>4, <3>4, <4>3
      <4> QED BY <2>6, <4>1, <4>2, <4>3
    <3> QED BY <2>4, <3>2, <3>5, <3>6 DEF Apart
  <2>12. NobodyServed'
    <3>1. \A a \in asked : Whole(a)
      BY DEF QueueInv, NobodyServed
    <3>2. Whole(answer)
      <4> SUFFICES ASSUME NEW j \in answer PROVE \E i \in answer : i <= j /\ Missing(i)
        BY DEF Whole
      <4>1. PICK a \in packets : j \in a
        BY <2>5
      <4>2. PICK i \in a : i <= j /\ Missing(i)
        BY <2>1, <3>1, <4>1 DEF Whole
      <4> QED BY <2>5, <4>2
    <3>3. ASSUME NEW p \in 2..(length + 1) PROVE Whole(PROCESSED'[p])
      <4>1. CASE p \in 1..length
        <5>1. p \in 2..length
          BY <2>2, <4>1
        <5> QED BY <2>4, <4>1, <5>1 DEF QueueInv, NobodyServed, length
      <4>2. CASE p = length + 1
        BY <2>4, <3>2, <4>2
      <4> QED BY <2>2, <4>1, <4>2
    <3>4. \A a \in asked' : Whole(a)
      BY <2>1, <3>1
    <3> QED BY <2>4, <2>10, <3>3, <3>4 DEF NobodyServed, Whole
  <2>13. asked' \subseteq SUBSET Nat
    BY <2>1, <2>2
  <2> QED BY <1>1, <2>4, <2>7, <2>8, <2>9, <2>11, <2>12, <2>13 DEF QueueInv, AskedInOrder,
               CompletedAreHits, InFlightWaits, LookedUpInOrder, HitsAreDone
<1> QED BY <1>2, <1>3

\* Entries come at the end of the queue, not looked up and not fetched.
LEMMA Extended ==
  ASSUME Numbered, NEW k \in Nat, NEW new \in Seq(FTQEntry), Len(new) = k,
         Follow(new, instr_unique_id),
         IFETCH_BUFFER' = IFETCH_BUFFER \o new, instr_unique_id' = instr_unique_id + k,
         UNCHANGED <<DECODE_BUFFER, DISPATCH_BUFFER, executing>>
  PROVE  /\ Numbered' /\ Front' = Front /\ FTQIds \subseteq FTQIds'
         /\ \A i \in FTQIds : At(i)' = At(i)
         /\ \A i \in FTQIds' \ FTQIds : \E j \in 1..k : At(i)' = new[j]
         /\ Unresolved' = Unresolved \cup Marked(new)
<1> DEFINE length == Len(IFETCH_BUFFER)
<1>1. /\ length \in Nat /\ Front \in Int /\ instr_unique_id = Front + length
      /\ instr_unique_id \in Nat
  BY Sizes DEF Numbered
<1>2. IFETCH_BUFFER \in Seq(FTQEntry) /\ Follow(IFETCH_BUFFER, Front)
  BY DEF Numbered
<1>3. /\ IFETCH_BUFFER' \in Seq(FTQEntry) /\ Len(IFETCH_BUFFER') = length + k
      /\ Follow(IFETCH_BUFFER \o new, Front)
  BY <1>1, <1>2, FollowJoined
<1>4. /\ \A n \in 1..length : IFETCH_BUFFER'[n] = IFETCH_BUFFER[n]
      /\ \A n \in 1..k : IFETCH_BUFFER'[length + n] = new[n]
  BY <1>2, Joined
<1>5. Marked(IFETCH_BUFFER \o new) = Marked(IFETCH_BUFFER) \cup Marked(new)
  BY <1>2, MarkedJoined
<1> HIDE DEF length
<1>6. Front' = Front
  <2>1. Front' = instr_unique_id' - Len(IFETCH_BUFFER')
    BY DEF Front
  <2> QED BY <1>1, <1>3, <2>1
<1>7. DecodeFront' = DecodeFront /\ DispatchFront' = DispatchFront
  BY <1>6 DEF DecodeFront, DispatchFront
<1>8. Follow(IFETCH_BUFFER, Front)'
  BY <1>3, <1>6 DEF Follow
<1>9. Numbered'
  <2>1. instr_unique_id' \in Nat
    BY <1>1
  <2>2. Follow(DECODE_BUFFER, DecodeFront)' /\ Follow(DISPATCH_BUFFER, DispatchFront)'
    BY <1>7 DEF Numbered, Follow
  <2> QED BY <1>3, <1>7, <1>8, <2>1, <2>2 DEF Numbered
<1>10. FTQIds = Front..(Front + length - 1) /\ FTQIds' = Front..(Front + length + k - 1)
  BY <1>1, <1>6 DEF FTQIds
<1>11. FTQIds \subseteq FTQIds'
  BY <1>1, <1>10
<1>12. ASSUME NEW i \in FTQIds PROVE At(i)' = At(i)
  <2>1. i - Front + 1 \in 1..length
    BY <1>1, <1>10
  <2> QED BY <1>4, <1>6, <2>1 DEF At
<1>13. ASSUME NEW i \in FTQIds' \ FTQIds PROVE \E j \in 1..k : At(i)' = new[j]
  <2>1. (i - Front + 1) - length \in 1..k /\ length + ((i - Front + 1) - length) = i - Front + 1
    BY <1>1, <1>10
  <2> QED BY <1>4, <1>6, <2>1 DEF At
<1>14. Unresolved' = Unresolved \cup Marked(new)
  <2>1. Marked(IFETCH_BUFFER)' = Marked(IFETCH_BUFFER) \cup Marked(new)
    BY <1>5 DEF Marked
  <2>2. Marked(DECODE_BUFFER)' = Marked(DECODE_BUFFER) /\ Marked(DISPATCH_BUFFER)' = Marked(DISPATCH_BUFFER)
    BY DEF Marked
  <2> QED BY <2>1, <2>2 DEF Unresolved
<1> QED BY <1>6, <1>9, <1>11, <1>12, <1>13, <1>14

\* The instructions read, with their outcomes.
Reads(k, os) ==
  /\ k \in Nat /\ os \in [1..k -> Outcomes] /\ MayRead(os, k) /\ (fetch_stall => k = 0)
  /\ IFETCH_BUFFER' = IFETCH_BUFFER \o [j \in 1..k |-> Entry(instr_unique_id + j - 1, os[j])]
  /\ instr_unique_id' = instr_unique_id + k
  /\ fetch_stall' = (fetch_stall \/ (k > 0 /\ BranchMiss(os[k])))
  /\ mark_next_instr' = (mark_next_instr /\ k = 0)

LEMMA Reading ==
  ASSUME Initialize
  PROVE  \E k : \E os : Reads(k, os)
<1>1. PICK k \in 0..instrs_to_read_this_cycle : \E os \in [1..k -> Outcomes] :
        /\ (fetch_stall => k = 0) /\ MayRead(os, k)
        /\ IFETCH_BUFFER' = IFETCH_BUFFER \o [j \in 1..k |-> Entry(instr_unique_id + j - 1, os[j])]
        /\ instr_unique_id' = instr_unique_id + k
        /\ fetch_stall' = (fetch_stall \/ (k > 0 /\ BranchMiss(os[k])))
        /\ mark_next_instr' = (mark_next_instr /\ k = 0)
  BY Zenon DEF Initialize
<1>2. k \in Nat
  OBVIOUS
<1> QED BY <1>1, <1>2, Zenon DEF Reads

\* What reading makes of the entries.
LEMMA Added ==
  ASSUME Numbered, NEW k, NEW os, Reads(k, os),
         UNCHANGED <<DECODE_BUFFER, DISPATCH_BUFFER, executing>>
  PROVE  /\ Numbered' /\ Front' = Front /\ FTQIds \subseteq FTQIds'
         /\ \A i \in FTQIds : At(i)' = At(i)
         /\ \A i \in FTQIds' \ FTQIds : \E j \in 1..k :
              At(i)' = Entry(instr_unique_id + j - 1, os[j])
         /\ Unresolved' = Unresolved \cup
              {instr_unique_id + j - 1 : j \in {n \in 1..k : BranchMiss(os[n])}}
<1> DEFINE new == [j \in 1..k |-> Entry(instr_unique_id + j - 1, os[j])]
<1>1. k \in Nat /\ os \in [1..k -> Outcomes] /\ instr_unique_id \in Nat
  BY DEF Reads, Numbered
<1>2. \A j \in 1..k : /\ new[j] = Entry(instr_unique_id + j - 1, os[j])
                      /\ new[j] \in FTQEntry /\ new[j].id = instr_unique_id + j - 1
  <2> SUFFICES ASSUME NEW j \in 1..k
               PROVE  LET e == Entry(instr_unique_id + j - 1, os[j])
                      IN  e \in FTQEntry /\ e.id = instr_unique_id + j - 1
    OBVIOUS
  <2>1. instr_unique_id + j - 1 \in Nat /\ os[j] \in Outcomes
    BY <1>1
  <2> QED BY <2>1, NewEntry
<1>3. new \in Seq(FTQEntry) /\ Len(new) = k
  <2>1. new \in [1..k -> FTQEntry]
    BY <1>2
  <2> HIDE DEF new
  <2> QED BY <1>1, <2>1, FunctionIsSeq
<1>4. IFETCH_BUFFER' = IFETCH_BUFFER \o new /\ instr_unique_id' = instr_unique_id + k
  BY DEF Reads
<1> HIDE DEF new
<1>5. Follow(new, instr_unique_id)
  BY <1>2, <1>3 DEF Follow
<1>6. /\ Numbered' /\ Front' = Front /\ FTQIds \subseteq FTQIds'
      /\ \A i \in FTQIds : At(i)' = At(i)
      /\ \A i \in FTQIds' \ FTQIds : \E j \in 1..k : At(i)' = new[j]
      /\ Unresolved' = Unresolved \cup Marked(new)
  BY <1>1, <1>3, <1>4, <1>5, Extended
<1>7. Marked(new) = {instr_unique_id + j - 1 : j \in {n \in 1..k : BranchMiss(os[n])}}
  <2> SUFFICES ASSUME NEW j \in 1..k
               PROVE  new[j].id = instr_unique_id + j - 1 /\ new[j].mispredicted = BranchMiss(os[j])
    BY <1>3 DEF Marked
  <2>1. instr_unique_id + j - 1 \in Nat /\ os[j] \in Outcomes
    BY <1>1
  <2> DEFINE e == Entry(instr_unique_id + j - 1, os[j])
  <2>2. e.id = instr_unique_id + j - 1 /\ e.mispredicted = BranchMiss(os[j])
    BY <2>1, NewEntry
  <2>3. new[j] = e
    BY <1>2
  <2> QED BY <2>2, <2>3
<1> QED BY <1>2, <1>6, <1>7

LEMMA ReadKeepsQueue ==
  ASSUME Numbered, QueueInv, NEW k, NEW os, Reads(k, os),
         UNCHANGED <<DECODE_BUFFER, DISPATCH_BUFFER, executing, asked, PROCESSED>>, handler' = "l1i"
  PROVE  QueueInv'
<1>1. /\ Front' = Front /\ FTQIds \subseteq FTQIds' /\ Numbered'
      /\ \A i \in FTQIds : At(i)' = At(i)
      /\ \A i \in FTQIds' \ FTQIds : \E j \in 1..k : At(i)' = Entry(instr_unique_id + j - 1, os[j])
  BY Added
<1>2. \A i \in FTQIds' \ FTQIds : ~At(i)'.dib_checked /\ ~At(i)'.uop_cache_hit /\ At(i)'.fetched = 0
  BY <1>1 DEF Entry
<1>3. WaitingForLine' = WaitingForLine /\ WaitingForLine \subseteq FTQIds
  BY DEF WaitingForLine, QueueInv
<1>4. \A i \in WaitingForLine : \A j \in Front..i : j \in FTQIds
  BY <1>3, Below
<1>5. \A i \in FTQIds : Missing(i) => Missing(i)'
  BY <1>1 DEF Missing
<1>6. NobodyServed'
  <2>1. \A a \in asked : a \subseteq FTQIds
    BY <1>3, WhoWaits DEF QueueInv
  <2>2. \A p \in 1..Len(PROCESSED) : PROCESSED[p] \subseteq FTQIds
    BY <1>3, WhoWaits DEF QueueInv
  <2>3. \A p \in 2..Len(PROCESSED) : p \in 1..Len(PROCESSED)
    BY LenProperties DEF QueueInv
  <2>4. \A packet : Whole(packet) /\ packet \subseteq FTQIds => StaysWhole(packet)
    BY <1>5 DEF Whole, StaysWhole
  <2>5. \A a \in asked : StaysWhole(a)
    BY <2>1, <2>4 DEF QueueInv, NobodyServed
  <2>6. \A p \in 2..Len(PROCESSED) : StaysWhole(PROCESSED[p])
    BY <2>2, <2>3, <2>4 DEF QueueInv, NobodyServed
  <2> QED BY <2>5, <2>6 DEF NobodyServed, Whole, StaysWhole
<1>7. AskedInOrder'
  BY <1>1, <1>3, <1>4 DEF AskedInOrder, QueueInv
<1>8. CompletedAreHits'
  BY <1>1, <1>3 DEF CompletedAreHits, QueueInv
<1>9. InFlightWaits'
  BY <1>1, <1>2, <1>3 DEF InFlightWaits, QueueInv
<1>10. LookedUpInOrder'
  <2>1. ASSUME NEW j \in FTQIds', NEW i \in Front..j, At(j)'.dib_checked PROVE At(i)'.dib_checked
    <3>1. j \in FTQIds
      BY <1>2, <2>1
    <3>2. i \in FTQIds /\ At(j).dib_checked
      BY <1>1, <2>1, <3>1, Below
    <3> QED BY <1>1, <3>1, <3>2 DEF QueueInv, LookedUpInOrder
  <2> QED BY <1>1, <2>1 DEF LookedUpInOrder
<1>11. HitsAreDone'
  BY <1>1, <1>2 DEF HitsAreDone, QueueInv
<1> QED BY <1>1, <1>3, <1>6, <1>7, <1>8, <1>9, <1>10, <1>11 DEF QueueInv, Apart

\* Entries leave the queue for the decoders.
Promotes(k) ==
  /\ k \in Nat /\ k <= Len(IFETCH_BUFFER) /\ k <= FETCH_WIDTH /\ \A n \in 1..k : Goes(n)
  /\ DECODE_BUFFER' = DECODE_BUFFER \o SubSeq(IFETCH_BUFFER, 1, k)
  /\ IFETCH_BUFFER' = Rest(IFETCH_BUFFER, k)

LEMMA Promoting ==
  ASSUME Numbered, PromoteToDecode
  PROVE  \E k : Promotes(k)
<1>1. PICK k \in 0..Promotable :
        /\ \A n \in 1..k : Goes(n)
        /\ DECODE_BUFFER' = DECODE_BUFFER \o SubSeq(IFETCH_BUFFER, 1, k)
        /\ IFETCH_BUFFER' = Rest(IFETCH_BUFFER, k)
  BY DEF PromoteToDecode
<1> DEFINE length == Len(IFETCH_BUFFER)
           room == DECODE_BUFFER_SIZE - Len(DECODE_BUFFER)
           width == IF IFETCH_BUFFER[1].uop_cache_hit THEN UOP_CACHE_THROUGHPUT ELSE FETCH_WIDTH
<1>2. length \in Nat /\ room \in Int /\ FETCH_WIDTH \in Nat
  BY Sizes, FrontEndAssumption
<1>3. width \in Nat /\ width <= FETCH_WIDTH
  BY FrontEndAssumption, WidthAssumption
<1>4. Promotable = 0 \/ Promotable = SmallerOf(width, SmallerOf(room, length))
  BY DEF Promotable
<1> HIDE DEF length, room, width
<1>5. Promotable \in Int /\ (Promotable <= 0 \/ (Promotable <= FETCH_WIDTH /\ Promotable <= length))
  BY <1>2, <1>3, <1>4 DEF SmallerOf
<1>6. k \in Nat /\ k <= length /\ k <= FETCH_WIDTH
  BY <1>2, <1>5
<1> QED BY <1>1, <1>6 DEF Promotes, length

LEMMA Promoted ==
  ASSUME Numbered, NEW k, Promotes(k), UNCHANGED <<instr_unique_id, DISPATCH_BUFFER, executing>>
  PROVE  /\ Numbered' /\ Front' = Front + k /\ FTQIds' = {i \in FTQIds : i >= Front + k}
         /\ \A i \in FTQIds' : At(i)' = At(i)
         /\ Unresolved' = Unresolved
<1> DEFINE length == Len(IFETCH_BUFFER)
           dlength == Len(DECODE_BUFFER)
           going == SubSeq(IFETCH_BUFFER, 1, k)
<1>1. /\ length \in Nat /\ dlength \in Nat /\ Front \in Int /\ DecodeFront \in Int
      /\ instr_unique_id = Front + length /\ k \in 0..length
  BY Sizes DEF Promotes
<1>2. /\ IFETCH_BUFFER \in Seq(FTQEntry) /\ Follow(IFETCH_BUFFER, Front)
      /\ DECODE_BUFFER \in Seq(FTQEntry) /\ Follow(DECODE_BUFFER, DecodeFront)
  BY DEF Numbered
<1>3. DecodeFront + dlength = Front
  BY <1>1 DEF DecodeFront
<1>4. going \in Seq(FTQEntry) /\ Len(going) = k /\ \A n \in 1..k : going[n] = IFETCH_BUFFER[n]
  BY <1>1, <1>2, FirstProperties
<1>5. IFETCH_BUFFER' = Rest(IFETCH_BUFFER, k) /\ DECODE_BUFFER' = DECODE_BUFFER \o going
  BY DEF Promotes
<1> HIDE DEF going
<1>6. Follow(going, DecodeFront + dlength)
  <2>1. \A n \in 1..k : n \in 1..length /\ IFETCH_BUFFER[n].id = Front + n - 1
    BY <1>1, ByNumber
  <2> QED BY <1>3, <1>4, <2>1 DEF Follow
<1>7. /\ Rest(IFETCH_BUFFER, k) \in Seq(FTQEntry) /\ Len(Rest(IFETCH_BUFFER, k)) = length - k
      /\ Follow(Rest(IFETCH_BUFFER, k), Front + k)
  BY <1>1, <1>2, FollowRest
<1>8. /\ DECODE_BUFFER \o going \in Seq(FTQEntry) /\ Len(DECODE_BUFFER \o going) = dlength + k
      /\ Follow(DECODE_BUFFER \o going, DecodeFront)
  BY <1>1, <1>2, <1>4, <1>6, FollowJoined
<1>9. \A n \in 1..(length - k) : IFETCH_BUFFER'[n] = IFETCH_BUFFER[n + k]
  BY <1>1, <1>2, <1>5, RestProperties
<1>10. Marked(IFETCH_BUFFER)' \cup Marked(DECODE_BUFFER)' = Marked(IFETCH_BUFFER) \cup Marked(DECODE_BUFFER)
  <2>1. Marked(IFETCH_BUFFER) = {IFETCH_BUFFER[n].id : n \in {m \in 1..k : IFETCH_BUFFER[m].mispredicted}}
                                  \cup Marked(Rest(IFETCH_BUFFER, k))
    BY <1>1, <1>2, MarkedCut
  <2>2. Marked(DECODE_BUFFER \o going) = Marked(DECODE_BUFFER) \cup Marked(going)
    BY <1>2, <1>4, MarkedJoined
  <2>3. Marked(going) = {IFETCH_BUFFER[n].id : n \in {m \in 1..k : IFETCH_BUFFER[m].mispredicted}}
    BY <1>4 DEF Marked
  <2>4. /\ Marked(IFETCH_BUFFER)' = Marked(Rest(IFETCH_BUFFER, k))
        /\ Marked(DECODE_BUFFER)' = Marked(DECODE_BUFFER \o going)
    BY <1>5 DEF Marked
  <2> QED BY <2>1, <2>2, <2>3, <2>4
<1> HIDE DEF length, dlength
<1>11. Front' = Front + k
  BY <1>1, <1>5, <1>7 DEF Front
<1>12. DecodeFront' = DecodeFront
  <2>1. DecodeFront' = Front' - Len(DECODE_BUFFER')
    BY DEF DecodeFront
  <2>2. DecodeFront' = (Front + k) - (dlength + k)
    BY <1>5, <1>8, <1>11, <2>1
  <2> QED BY <1>1, <1>3, <2>2
<1>13. DispatchFront' = DispatchFront
  BY <1>12 DEF DispatchFront
<1>14. Follow(IFETCH_BUFFER, Front)' /\ Follow(DECODE_BUFFER, DecodeFront)'
  BY <1>5, <1>7, <1>8, <1>11, <1>12 DEF Follow
<1>15. Numbered'
  BY <1>5, <1>7, <1>8, <1>13, <1>14 DEF Numbered, Follow
<1>16. FTQIds' = {i \in FTQIds : i >= Front + k}
  BY <1>1, <1>11 DEF FTQIds
<1>17. ASSUME NEW i \in FTQIds' PROVE At(i)' = At(i)
  <2>1. i \in Front..(instr_unique_id - 1) /\ i >= Front + k
    BY <1>16 DEF FTQIds
  <2>2. i - (Front + k) + 1 \in 1..(length - k) /\ (i - (Front + k) + 1) + k = i - Front + 1
    BY <1>1, <2>1
  <2> QED BY <1>9, <1>11, <2>2 DEF At
<1>18. Unresolved' = Unresolved
  <2>1. Marked(DISPATCH_BUFFER)' = Marked(DISPATCH_BUFFER)
    BY DEF Marked
  <2> QED BY <1>10, <2>1 DEF Unresolved
<1> QED BY <1>11, <1>15, <1>16, <1>17, <1>18

LEMMA PromoteKeepsQueue ==
  ASSUME Numbered, QueueInv, handler = "promote", NEW k, Promotes(k),
         UNCHANGED <<instr_unique_id, DISPATCH_BUFFER, executing, asked, PROCESSED>>,
         handler' = "resume"
  PROVE  QueueInv'
<1>1. /\ Front' = Front + k /\ FTQIds' = {i \in FTQIds : i >= Front + k}
      /\ \A i \in FTQIds' : At(i)' = At(i)
  BY Promoted
<1>2. k \in Nat /\ Front \in Nat /\ FETCH_WIDTH \in Nat /\ k <= FETCH_WIDTH
  BY Sizes, FrontEndAssumption DEF Promotes
<1>3. ASSUME NEW i \in FTQIds, i < Front + k
      PROVE  At(i).fetched = COMPLETED /\ At(i).uop_cache_hit = IFETCH_BUFFER[1].uop_cache_hit
  <2>1. i - Front + 1 \in 1..k
    BY <1>2, <1>3, ByNumber
  <2> QED BY <2>1 DEF Promotes, Goes, At
<1>4. WaitingForLine' = WaitingForLine /\ WaitingForLine \subseteq FTQIds
  BY DEF WaitingForLine, QueueInv
<1>5. \A i \in FTQIds : i \in Nat /\ i >= Front
  BY ByNumber
<1>6. ASSUME NEW packet, packet \subseteq FTQIds, Whole(packet), NEW j \in packet
      PROVE  j >= Front + k
  <2>1. PICK i \in packet : i <= j /\ Missing(i)
    BY <1>6 DEF Whole
  <2>2. ~(i < Front + k)
    BY <1>3, <1>6, <2>1 DEF Missing
  <2> QED BY <1>2, <1>5, <1>6, <2>1, <2>2
<1>7. \A a \in asked : a \subseteq FTQIds /\ Whole(a)
  BY <1>4, WhoWaits DEF QueueInv, NobodyServed
<1>8. \A p \in 1..Len(PROCESSED) : PROCESSED[p] \subseteq FTQIds
  BY <1>4, WhoWaits DEF QueueInv
<1>9. Len(PROCESSED) \in Nat
  BY LenProperties DEF QueueInv
<1>10. ASSUME NEW j \in WaitingForLine PROVE j >= Front + k
  <2>1. j \in FTQIds
    BY <1>4
  <2>2. CASE \E a \in asked : j \in a
    BY <1>6, <1>7, <2>2
  <2>3. CASE \E p \in 2..Len(PROCESSED) : j \in PROCESSED[p]
    <3>1. PICK p \in 2..Len(PROCESSED) : j \in PROCESSED[p]
      BY <2>3
    <3>2. p \in 1..Len(PROCESSED) /\ Whole(PROCESSED[p])
      BY <1>9 DEF QueueInv, NobodyServed
    <3> QED BY <1>6, <1>8, <3>1, <3>2
  <2>4. CASE Len(PROCESSED) > 0 /\ j \in PROCESSED[1]
    <3> SUFFICES ASSUME j < Front + k PROVE FALSE
      BY <1>2, <1>5, <2>1
    <3>1. ~(j >= Front + FETCH_WIDTH)
      BY <1>2, <1>5, <2>1
    <3>2. PICK i \in Front..j : ~At(i).uop_cache_hit
      BY <2>4, <3>1 DEF QueueInv, Covered
    <3>3. i \in FTQIds /\ i < Front + k
      BY <1>2, <1>5, <2>1, Below
    <3>4. At(j).uop_cache_hit
      BY <1>3, <2>1 DEF QueueInv, CompletedAreHits
    <3>5. At(i).uop_cache_hit = At(j).uop_cache_hit
      BY <1>3, <2>1, <3>3
    <3> QED BY <3>2, <3>4, <3>5
  <2>5. \A p \in 1..Len(PROCESSED) : p \in 2..Len(PROCESSED) \/ (p = 1 /\ Len(PROCESSED) > 0)
    BY <1>9
  <2> QED BY <2>2, <2>3, <2>4, <2>5, WhoWaits DEF QueueInv
<1>11. WaitingForLine \subseteq FTQIds'
  BY <1>1, <1>4, <1>10
<1>12. FTQIds' \subseteq FTQIds
  BY <1>1
<1>14. \A i \in FTQIds' : \A j \in Front'..i : j \in FTQIds' /\ j \in Front..i
  <2> SUFFICES ASSUME NEW i \in FTQIds', NEW j \in (Front + k)..i PROVE j \in FTQIds' /\ j \in Front..i
    BY <1>1
  <2>1. i \in FTQIds /\ i \in Nat
    BY <1>5, <1>12
  <2>2. j \in Front..i /\ j >= Front + k
    BY <1>2, <2>1
  <2>3. j \in FTQIds
    BY <2>1, <2>2, Below
  <2> QED BY <1>1, <2>2, <2>3
<1>15. NobodyServed'
  <2>1. \A i \in FTQIds' : Missing(i) => Missing(i)'
    BY <1>1 DEF Missing
  <2>2. \A packet : Whole(packet) /\ packet \subseteq FTQIds' => StaysWhole(packet)
    BY <2>1 DEF Whole, StaysWhole
  <2>3. \A a \in asked : a \subseteq FTQIds'
    BY <1>11, WhoWaits DEF QueueInv
  <2>4. \A p \in 1..Len(PROCESSED) : PROCESSED[p] \subseteq FTQIds'
    BY <1>11, WhoWaits DEF QueueInv
  <2>5. \A p \in 2..Len(PROCESSED) : p \in 1..Len(PROCESSED)
    BY <1>9
  <2>6. \A a \in asked : StaysWhole(a)
    BY <1>7, <2>2, <2>3
  <2>7. \A p \in 2..Len(PROCESSED) : StaysWhole(PROCESSED[p])
    BY <2>2, <2>4, <2>5 DEF QueueInv, NobodyServed
  <2> QED BY <2>6, <2>7 DEF NobodyServed, Whole, StaysWhole
<1>16. AskedInOrder'
  BY <1>1, <1>4, <1>11, <1>14 DEF AskedInOrder, QueueInv
<1>17. CompletedAreHits'
  BY <1>1, <1>4, <1>11 DEF CompletedAreHits, QueueInv
<1>18. InFlightWaits'
  BY <1>1, <1>4, <1>12 DEF InFlightWaits, QueueInv
<1>19. LookedUpInOrder'
  BY <1>1, <1>12, <1>14 DEF LookedUpInOrder, QueueInv
<1>20. HitsAreDone'
  BY <1>1, <1>12 DEF HitsAreDone, QueueInv
<1> QED BY <1>4, <1>11, <1>15, <1>16, <1>17, <1>18, <1>19, <1>20 DEF QueueInv, Apart

-----------------------------------------------------------------------------
(* The decoders and the back end.                                          *)

\* The mispredicted branches among the first k of a buffer.
MarkedIn(seq, k) == {seq[n].id : n \in {m \in 1..k : seq[m].mispredicted}}

ResolvesIn(k) ==
  \E n \in 1..k : DECODE_BUFFER[n].mispredicted /\ ResolvedAtDecode(DECODE_BUFFER[n].outcome)

Decodes(k) ==
  /\ k \in 0..Len(DECODE_BUFFER)
  /\ DISPATCH_BUFFER' = DISPATCH_BUFFER \o [n \in 1..k |-> Decoded(DECODE_BUFFER[n])]
  /\ resume_pending' = (resume_pending \/ ResolvesIn(k))
  /\ DECODE_BUFFER' = Rest(DECODE_BUFFER, k)

LEMMA Decoding ==
  ASSUME Numbered, DecodeInstruction
  PROVE  \E k : Decodes(k)
<1> DEFINE length == Len(DECODE_BUFFER)
           room == DISPATCH_BUFFER_SIZE - Len(DISPATCH_BUFFER)
           limit == SmallerOf(DECODE_WIDTH, SmallerOf(length, room))
<1>1. PICK k \in 0..DECODE_WIDTH :
        /\ AnyOf(limit, k)
        /\ DISPATCH_BUFFER' = DISPATCH_BUFFER \o [n \in 1..k |-> Decoded(DECODE_BUFFER[n])]
        /\ resume_pending' = (resume_pending \/ ResolvesIn(k))
        /\ DECODE_BUFFER' = Rest(DECODE_BUFFER, k)
  BY DEF DecodeInstruction, ResolvesIn
<1>2. DECODE_WIDTH \in Nat /\ length \in Nat /\ room \in Int
  BY Sizes, FrontEndAssumption
<1> HIDE DEF length, room
<1>3. limit \in Int /\ limit <= length
  BY <1>2 DEF SmallerOf
<1> HIDE DEF limit
<1>4. k \in 0..length
  BY <1>1, <1>2, <1>3 DEF AnyOf
<1> QED BY <1>1, <1>4 DEF Decodes, length

LEMMA DecodedNumbers ==
  ASSUME Numbered, NEW k, Decodes(k), UNCHANGED <<instr_unique_id, IFETCH_BUFFER, executing>>
  PROVE  /\ Numbered'
         /\ ~ResolvesIn(k) => Unresolved' = Unresolved
         /\ Unresolved' \subseteq Unresolved
         /\ \A n \in 1..k : DECODE_BUFFER[n].mispredicted /\ ResolvedAtDecode(DECODE_BUFFER[n].outcome)
              => /\ DECODE_BUFFER[n].id \in Unresolved
                 /\ DECODE_BUFFER[n].id \notin Unresolved'
<1> DEFINE dlength == Len(DECODE_BUFFER)
           slength == Len(DISPATCH_BUFFER)
           going == [n \in 1..k |-> Decoded(DECODE_BUFFER[n])]
<1>1. /\ dlength \in Nat /\ slength \in Nat /\ DecodeFront \in Int /\ DispatchFront \in Int
      /\ k \in 0..dlength /\ k \in Nat /\ Len(IFETCH_BUFFER) \in Nat
      /\ Front \in Int /\ instr_unique_id = Front + Len(IFETCH_BUFFER)
  BY Sizes DEF Decodes
<1>2. /\ DECODE_BUFFER \in Seq(FTQEntry) /\ Follow(DECODE_BUFFER, DecodeFront)
      /\ DISPATCH_BUFFER \in Seq(FTQEntry) /\ Follow(DISPATCH_BUFFER, DispatchFront)
      /\ IFETCH_BUFFER \in Seq(FTQEntry) /\ Follow(IFETCH_BUFFER, Front)
      /\ executing \in SUBSET (0..(DispatchFront - 1))
  BY DEF Numbered
<1>3. DispatchFront + slength = DecodeFront /\ DecodeFront + dlength = Front
  BY <1>1 DEF DispatchFront, DecodeFront
<1>4. \A n \in 1..dlength : DECODE_BUFFER[n] \in FTQEntry /\ DECODE_BUFFER[n].id = DecodeFront + n - 1
  BY <1>2, ElementOfSeq DEF Follow
<1>5. \A n \in 1..k : n \in 1..dlength
  BY <1>1
<1>6. \A n \in 1..k :
        /\ going[n] \in FTQEntry /\ going[n].id = DecodeFront + n - 1
        /\ going[n].id = DECODE_BUFFER[n].id
        /\ going[n].mispredicted =
             (DECODE_BUFFER[n].mispredicted /\ ~ResolvedAtDecode(DECODE_BUFFER[n].outcome))
  <2> SUFFICES ASSUME NEW n \in 1..k
               PROVE  LET e == DECODE_BUFFER[n]
                      IN  /\ Decoded(e) \in FTQEntry /\ Decoded(e).id = DecodeFront + n - 1
                          /\ Decoded(e).id = e.id
                          /\ Decoded(e).mispredicted = (e.mispredicted /\ ~ResolvedAtDecode(e.outcome))
    OBVIOUS
  <2> QED BY <1>4, <1>5, DecodedEntry
<1>7. going \in Seq(FTQEntry) /\ Len(going) = k
  <2>1. going \in [1..k -> FTQEntry]
    BY <1>6
  <2> HIDE DEF going
  <2> QED BY <1>1, <2>1, FunctionIsSeq
<1>8. DISPATCH_BUFFER' = DISPATCH_BUFFER \o going /\ DECODE_BUFFER' = Rest(DECODE_BUFFER, k)
  BY DEF Decodes
<1> HIDE DEF going
<1>9. Follow(going, DispatchFront + slength)
  BY <1>3, <1>6, <1>7 DEF Follow
<1>10. /\ Rest(DECODE_BUFFER, k) \in Seq(FTQEntry) /\ Len(Rest(DECODE_BUFFER, k)) = dlength - k
       /\ Follow(Rest(DECODE_BUFFER, k), DecodeFront + k)
  BY <1>1, <1>2, FollowRest
<1>11. /\ DISPATCH_BUFFER \o going \in Seq(FTQEntry) /\ Len(DISPATCH_BUFFER \o going) = slength + k
       /\ Follow(DISPATCH_BUFFER \o going, DispatchFront)
  BY <1>1, <1>2, <1>7, <1>9, FollowJoined
<1>12. Marked(DECODE_BUFFER) = MarkedIn(DECODE_BUFFER, k) \cup Marked(Rest(DECODE_BUFFER, k))
  BY <1>1, <1>2, MarkedCut DEF MarkedIn
<1>13. Marked(DISPATCH_BUFFER \o going) = Marked(DISPATCH_BUFFER) \cup Marked(going)
  BY <1>2, <1>7, MarkedJoined
<1>14. Marked(going) \subseteq MarkedIn(DECODE_BUFFER, k)
  BY <1>6, <1>7 DEF Marked, MarkedIn
<1>15. ~ResolvesIn(k) => Marked(going) = MarkedIn(DECODE_BUFFER, k)
  <2> SUFFICES ASSUME ~ResolvesIn(k) PROVE MarkedIn(DECODE_BUFFER, k) \subseteq Marked(going)
    BY <1>14
  <2>1. ASSUME NEW n \in 1..k, DECODE_BUFFER[n].mispredicted
        PROVE  DECODE_BUFFER[n].id \in Marked(going)
    <3>1. ~ResolvedAtDecode(DECODE_BUFFER[n].outcome)
      BY <2>1 DEF ResolvesIn
    <3>2. going[n].mispredicted /\ going[n].id = DECODE_BUFFER[n].id /\ n \in 1..Len(going)
      BY <1>6, <1>7, <2>1, <3>1
    <3> QED BY <3>2 DEF Marked
  <2> QED BY <2>1 DEF MarkedIn
<1>16. /\ Marked(DECODE_BUFFER)' = Marked(Rest(DECODE_BUFFER, k))
       /\ Marked(DISPATCH_BUFFER)' = Marked(DISPATCH_BUFFER) \cup Marked(going)
       /\ Marked(IFETCH_BUFFER)' = Marked(IFETCH_BUFFER) /\ executing' = executing
  BY <1>8, <1>13 DEF Marked
<1>17. Unresolved' = Marked(IFETCH_BUFFER) \cup Marked(Rest(DECODE_BUFFER, k))
                       \cup Marked(DISPATCH_BUFFER) \cup Marked(going) \cup executing
  <2>1. Unresolved' = Marked(IFETCH_BUFFER)' \cup Marked(DECODE_BUFFER)' \cup Marked(DISPATCH_BUFFER)'
                        \cup executing'
    BY DEF Unresolved
  <2> QED BY <1>16, <2>1
<1>18. Unresolved' \subseteq Unresolved /\ (~ResolvesIn(k) => Unresolved' = Unresolved)
  BY <1>12, <1>14, <1>15, <1>17 DEF Unresolved
<1>19. ASSUME NEW n \in 1..k, DECODE_BUFFER[n].mispredicted,
              ResolvedAtDecode(DECODE_BUFFER[n].outcome)
       PROVE  DECODE_BUFFER[n].id \in Unresolved /\ DECODE_BUFFER[n].id \notin Unresolved'
  <2> DEFINE i == DECODE_BUFFER[n].id
  <2>1. i \in Unresolved
    BY <1>12, <1>19 DEF MarkedIn, Unresolved
  <2>2. i = DecodeFront + n - 1 /\ n \in 1..dlength
    BY <1>4, <1>5
  <2> HIDE DEF i, dlength, slength
  <2>3. i \notin Marked(IFETCH_BUFFER)
    <3>1. \A j \in Marked(IFETCH_BUFFER) : j \in Int /\ Front <= j
      BY <1>1, <1>2, MarkedRange
    <3>2. ~(Front <= i)
      BY <1>1, <1>3, <2>2
    <3> QED BY <3>1, <3>2
  <2>4. i \notin Marked(Rest(DECODE_BUFFER, k))
    <3>1. \A j \in Marked(Rest(DECODE_BUFFER, k)) : j \in Int /\ DecodeFront + k <= j
      <4>1. DecodeFront + k \in Int
        BY <1>1
      <4> QED BY <1>10, <4>1, MarkedRange
    <3>2. ~(DecodeFront + k <= i)
      BY <1>1, <2>2
    <3> QED BY <3>1, <3>2
  <2>5. i \notin Marked(DISPATCH_BUFFER)
    <3>1. \A j \in Marked(DISPATCH_BUFFER) : j \in Int /\ j < DispatchFront + slength
      BY <1>1, <1>2, MarkedRange DEF slength
    <3>2. ~(i < DispatchFront + slength)
      BY <1>1, <1>3, <2>2
    <3> QED BY <3>1, <3>2
  <2>6. i \notin executing
    <3>1. ~(i \in 0..(DispatchFront - 1))
      BY <1>1, <1>3, <2>2
    <3> QED BY <1>2, <3>1
  <2>7. i \notin Marked(going)
    <3> SUFFICES ASSUME NEW m \in 1..k, going[m].mispredicted, going[m].id = i PROVE FALSE
      BY <1>7 DEF Marked
    <3>1. DecodeFront + m - 1 = DecodeFront + n - 1
      BY <1>6, <2>2
    <3>2. m = n
      BY <1>1, <3>1
    <3> QED BY <1>6, <1>19, <3>2
  <2>8. i \notin Unresolved'
    BY <1>17, <2>3, <2>4, <2>5, <2>6, <2>7
  <2> QED BY <2>1, <2>8 DEF i
<1> HIDE DEF dlength, slength
<1>20. Front' = Front
  BY DEF Front
<1>21. DecodeFront' = DecodeFront + k
  <2>1. DecodeFront' = Front' - Len(DECODE_BUFFER')
    BY DEF DecodeFront
  <2>2. DecodeFront' = Front - (dlength - k)
    BY <1>8, <1>10, <1>20, <2>1
  <2> QED BY <1>1, <1>3, <2>2
<1>22. DispatchFront' = DispatchFront
  <2>1. DispatchFront' = DecodeFront' - Len(DISPATCH_BUFFER')
    BY DEF DispatchFront
  <2>2. DispatchFront' = (DecodeFront + k) - (slength + k)
    BY <1>8, <1>11, <1>21, <2>1
  <2> QED BY <1>1, <1>3, <2>2
<1>23. Numbered'
  <2>1. Follow(DECODE_BUFFER, DecodeFront)' /\ Follow(DISPATCH_BUFFER, DispatchFront)'
    BY <1>8, <1>10, <1>11, <1>21, <1>22 DEF Follow
  <2>2. Follow(IFETCH_BUFFER, Front)'
    BY <1>2, <1>20 DEF Follow
  <2> QED BY <1>8, <1>10, <1>11, <1>22, <2>1, <2>2 DEF Numbered
<1> QED BY <1>18, <1>19, <1>23

Dispatches(k) ==
  /\ k \in 0..Len(DISPATCH_BUFFER)
  /\ executing' = executing \cup MarkedIn(DISPATCH_BUFFER, k)
  /\ DISPATCH_BUFFER' = Rest(DISPATCH_BUFFER, k)

LEMMA Dispatching ==
  ASSUME Numbered, PromoteToDispatch
  PROVE  \E k : Dispatches(k)
<1> DEFINE length == Len(DISPATCH_BUFFER)
           limit == SmallerOf(DISPATCH_WIDTH, length)
<1>1. PICK k \in 0..DISPATCH_WIDTH :
        /\ AnyOf(limit, k)
        /\ executing' = executing \cup {DISPATCH_BUFFER[n].id :
                                          n \in {m \in 1..k : DISPATCH_BUFFER[m].mispredicted}}
        /\ DISPATCH_BUFFER' = Rest(DISPATCH_BUFFER, k)
  BY DEF PromoteToDispatch
<1>2. DISPATCH_WIDTH \in Nat /\ length \in Nat
  BY Sizes, FrontEndAssumption
<1> HIDE DEF length
<1>3. limit \in Int /\ limit <= length
  BY <1>2 DEF SmallerOf
<1> HIDE DEF limit
<1>4. k \in 0..length
  BY <1>1, <1>2, <1>3 DEF AnyOf
<1> QED BY <1>1, <1>4 DEF Dispatches, MarkedIn, length

LEMMA Dispatched ==
  ASSUME Numbered, NEW k, Dispatches(k), UNCHANGED <<instr_unique_id, IFETCH_BUFFER, DECODE_BUFFER>>
  PROVE  Numbered' /\ Unresolved' = Unresolved
<1> DEFINE length == Len(DISPATCH_BUFFER)
<1>1. length \in Nat /\ DispatchFront \in Nat /\ DispatchFront \in Int /\ k \in 0..length
      /\ DecodeFront \in Int
  BY Sizes DEF Numbered, Dispatches
<1>2. DISPATCH_BUFFER \in Seq(FTQEntry) /\ Follow(DISPATCH_BUFFER, DispatchFront)
  BY DEF Numbered
<1>3. DispatchFront + length = DecodeFront
  BY <1>1 DEF DispatchFront
<1>4. /\ Rest(DISPATCH_BUFFER, k) \in Seq(FTQEntry) /\ Len(Rest(DISPATCH_BUFFER, k)) = length - k
      /\ Follow(Rest(DISPATCH_BUFFER, k), DispatchFront + k)
  BY <1>1, <1>2, FollowRest
<1>5. Marked(DISPATCH_BUFFER) = MarkedIn(DISPATCH_BUFFER, k) \cup Marked(Rest(DISPATCH_BUFFER, k))
  BY <1>1, <1>2, MarkedCut DEF MarkedIn
<1>6. /\ DISPATCH_BUFFER' = Rest(DISPATCH_BUFFER, k)
      /\ executing' = executing \cup MarkedIn(DISPATCH_BUFFER, k)
  BY DEF Dispatches
<1>7. Unresolved' = Unresolved
  <2>1. /\ Marked(DISPATCH_BUFFER)' = Marked(Rest(DISPATCH_BUFFER, k))
        /\ Marked(IFETCH_BUFFER)' = Marked(IFETCH_BUFFER) /\ Marked(DECODE_BUFFER)' = Marked(DECODE_BUFFER)
    BY <1>6 DEF Marked
  <2>2. Unresolved' = Marked(IFETCH_BUFFER)' \cup Marked(DECODE_BUFFER)' \cup Marked(DISPATCH_BUFFER)'
                        \cup executing'
    BY DEF Unresolved
  <2> QED BY <1>5, <1>6, <2>1, <2>2 DEF Unresolved
<1>8. \A n \in 1..k : DISPATCH_BUFFER[n].id \in 0..(DispatchFront + k - 1)
  <2> SUFFICES ASSUME NEW n \in 1..k PROVE DISPATCH_BUFFER[n].id \in 0..(DispatchFront + k - 1)
    OBVIOUS
  <2>1. n \in 1..length
    BY <1>1
  <2>2. DISPATCH_BUFFER[n].id = DispatchFront + n - 1
    BY <1>2, <2>1 DEF Follow
  <2> QED BY <1>1, <2>2
<1> HIDE DEF length
<1>9. Front' = Front /\ DecodeFront' = DecodeFront
  BY DEF Front, DecodeFront
<1>10. DispatchFront' = DispatchFront + k
  <2>1. DispatchFront' = DecodeFront' - Len(DISPATCH_BUFFER')
    BY DEF DispatchFront
  <2>2. DispatchFront' = DecodeFront - (length - k)
    BY <1>4, <1>6, <1>9, <2>1
  <2> QED BY <1>1, <1>3, <2>2
<1>11. executing' \in SUBSET (0..(DispatchFront' - 1))
  <2>1. executing \subseteq 0..(DispatchFront + k - 1)
    <3>1. executing \subseteq 0..(DispatchFront - 1)
      BY DEF Numbered
    <3>2. 0..(DispatchFront - 1) \subseteq 0..(DispatchFront + k - 1)
      BY <1>1
    <3> QED BY <3>1, <3>2
  <2>2. MarkedIn(DISPATCH_BUFFER, k) \subseteq 0..(DispatchFront + k - 1)
    BY <1>8 DEF MarkedIn
  <2>3. executing' \subseteq 0..(DispatchFront + k - 1)
    BY <1>6, <2>1, <2>2
  <2>4. DispatchFront' - 1 = DispatchFront + k - 1
    BY <1>1, <1>10
  <2> QED BY <2>3, <2>4
<1>12. Follow(DISPATCH_BUFFER, DispatchFront)'
  BY <1>4, <1>6, <1>10 DEF Follow
<1>13. Numbered'
  <2>1. Follow(IFETCH_BUFFER, Front)' /\ Follow(DECODE_BUFFER, DecodeFront)'
    BY <1>9 DEF Numbered, Follow
  <2>2. DispatchFront' \in Nat
    BY <1>1, <1>10
  <2> QED BY <1>4, <1>6, <1>11, <1>12, <2>1, <2>2 DEF Numbered
<1> QED BY <1>7, <1>13

-----------------------------------------------------------------------------
(* One reason to stop.                                                     *)

StallInv ==
  /\ fetch_stall \in BOOLEAN /\ resume_pending \in BOOLEAN /\ mark_next_instr \in BOOLEAN
  /\ \A i, j \in Unresolved : i = j
  /\ Unresolved # {} => fetch_stall /\ ~resume_pending
  /\ fetch_stall => Unresolved # {} \/ resume_pending
  /\ resume_pending => fetch_stall
  /\ fetch_stall => ~mark_next_instr

FrontInv == Numbered /\ QueueInv /\ StallInv

LEMMA StallInit == Init => StallInv
<1> SUFFICES ASSUME Init PROVE StallInv
  OBVIOUS
<1>1. Marked(<<>>) = {}
  <2>1. Len(<<>>) = 0
    BY EmptySeq
  <2> QED BY <2>1 DEF Marked
<1>2. Unresolved = {}
  BY <1>1 DEF Init, Unresolved
<1> QED BY <1>2 DEF Init, StallInv

LEMMA StallKept ==
  ASSUME StallInv, UNCHANGED stall, Unresolved' = Unresolved
  PROVE  StallInv'
BY DEF StallInv, stall

\* A misprediction stops what reads, and nothing is read while it stands.
LEMMA ReadKeepsStall ==
  ASSUME Numbered, StallInv, NEW k, NEW os, Reads(k, os), UNCHANGED resume_pending,
         Unresolved' = Unresolved \cup
           {instr_unique_id + j - 1 : j \in {n \in 1..k : BranchMiss(os[n])}}
  PROVE  StallInv'
<1> DEFINE added == {instr_unique_id + j - 1 : j \in {n \in 1..k : BranchMiss(os[n])}}
<1>1. /\ k \in Nat /\ MayRead(os, k) /\ (fetch_stall => k = 0)
      /\ fetch_stall' = (fetch_stall \/ (k > 0 /\ BranchMiss(os[k])))
      /\ mark_next_instr' = (mark_next_instr /\ k = 0)
  BY DEF Reads
<1>2. \A j \in 1..k : BranchMiss(os[j]) => j = k
  <2> SUFFICES ASSUME NEW j \in 1..k, BranchMiss(os[j]), j # k PROVE FALSE
    OBVIOUS
  <2>1. j \in 1..(k - 1)
    BY <1>1
  <2>2. ~StopsReading(os[j])
    BY <1>1, <2>1 DEF MayRead
  <2> QED BY <2>2 DEF StopsReading, BranchMiss
<1>3. \A j \in 1..k : k > 0
  BY <1>1
<1>4. (k > 0 => k \in 1..k) /\ (k = 0 => 1..k = {})
  BY <1>1
<1>5. \A i \in added : i = instr_unique_id + k - 1 /\ k > 0 /\ BranchMiss(os[k])
  BY <1>2, <1>3
<1>6. Unresolved' = Unresolved \cup added
  OBVIOUS
<1>7. k > 0 /\ BranchMiss(os[k]) => instr_unique_id + k - 1 \in added
  BY <1>4
<1> HIDE DEF added
<1>8. BranchMiss(os[k]) \in BOOLEAN
  BY DEF BranchMiss
<1>9. CASE fetch_stall
  <2>1. added = {} /\ k = 0
    BY <1>1, <1>5, <1>9
  <2>2. Unresolved' = Unresolved /\ fetch_stall' = fetch_stall /\ mark_next_instr' = mark_next_instr
    BY <1>1, <1>6, <1>9, <2>1 DEF StallInv
  <2> QED BY <2>2 DEF StallInv
<1>10. CASE ~fetch_stall
  <2>1. Unresolved = {} /\ ~resume_pending
    BY <1>10 DEF StallInv
  <2>2. Unresolved' = added /\ fetch_stall' = (k > 0 /\ BranchMiss(os[k]))
    BY <1>1, <1>6, <1>10, <2>1
  <2>3. \A i, j \in Unresolved' : i = j
    BY <1>5, <2>2
  <2>4. Unresolved' # {} => fetch_stall'
    BY <1>5, <2>2
  <2>5. fetch_stall' => Unresolved' # {}
    BY <1>7, <2>2
  <2>6. ASSUME fetch_stall' PROVE ~mark_next_instr'
    <3>1. k > 0
      BY <2>2, <2>6, Zenon
    <3>2. ~(k = 0)
      BY <1>1, <3>1
    <3>3. mark_next_instr' = (mark_next_instr /\ k = 0)
      BY <1>1
    <3> QED BY <3>2, <3>3
  <2>7. fetch_stall' \in BOOLEAN /\ mark_next_instr' \in BOOLEAN /\ resume_pending' = FALSE
    BY <1>1, <1>8, <2>1, <2>2 DEF StallInv
  <2> QED BY <2>3, <2>4, <2>5, <2>6, <2>7 DEF StallInv
<1> QED BY <1>9, <1>10

LEMMA DecodeKeepsStall ==
  ASSUME Numbered, StallInv, NEW k, Decodes(k), UNCHANGED <<fetch_stall, mark_next_instr>>,
         UNCHANGED <<instr_unique_id, IFETCH_BUFFER, executing>>
  PROVE  StallInv'
<1>1. /\ ~ResolvesIn(k) => Unresolved' = Unresolved
      /\ \A n \in 1..k : DECODE_BUFFER[n].mispredicted /\ ResolvedAtDecode(DECODE_BUFFER[n].outcome)
           => DECODE_BUFFER[n].id \in Unresolved /\ DECODE_BUFFER[n].id \notin Unresolved'
      /\ Unresolved' \subseteq Unresolved
  BY DecodedNumbers
<1>2. resume_pending' = (resume_pending \/ ResolvesIn(k))
  BY DEF Decodes
<1>3. CASE ~ResolvesIn(k)
  <2>1. resume_pending' = resume_pending
    BY <1>2, <1>3 DEF StallInv
  <2> QED BY <1>1, <1>3, <2>1 DEF StallInv
<1>4. CASE ResolvesIn(k)
  <2>1. PICK n \in 1..k : DECODE_BUFFER[n].mispredicted /\ ResolvedAtDecode(DECODE_BUFFER[n].outcome)
    BY <1>4 DEF ResolvesIn
  <2>2. DECODE_BUFFER[n].id \in Unresolved /\ DECODE_BUFFER[n].id \notin Unresolved'
    BY <1>1, <2>1
  <2>3. Unresolved' = {}
    BY <1>1, <2>2 DEF StallInv
  <2>4. resume_pending' = TRUE /\ fetch_stall
    BY <1>2, <1>4, <2>2 DEF StallInv
  <2> QED BY <2>3, <2>4 DEF StallInv
<1> QED BY <1>3, <1>4

\* The branch that executes is the one fetch waits for.
LEMMA CompleteKeepsStall ==
  ASSUME Numbered, StallInv, CompleteExecution
  PROVE  StallInv' /\ Numbered'
<1>1. UNCHANGED <<instr_unique_id, IFETCH_BUFFER, DECODE_BUFFER, DISPATCH_BUFFER, fetch_stall,
                  mark_next_instr>>
  BY DEF CompleteExecution, reading, buffers
<1>2. executing' \subseteq executing
  BY DEF CompleteExecution
<1>3. Numbered'
  <2>1. Front' = Front /\ DecodeFront' = DecodeFront /\ DispatchFront' = DispatchFront
    BY <1>1 DEF Front, DecodeFront, DispatchFront
  <2> QED BY <1>1, <1>2, <2>1 DEF Numbered, Follow
<1>4. CASE UNCHANGED <<executing, resume_pending>>
  <2>1. Unresolved' = Unresolved
    BY <1>1, <1>4 DEF Unresolved
  <2> QED BY <1>1, <1>3, <1>4, <2>1 DEF StallInv
<1>5. CASE ~UNCHANGED <<executing, resume_pending>>
  <2>1. PICK id \in executing : executing' = executing \ {id}
    BY <1>5 DEF CompleteExecution
  <2>2. resume_pending' = TRUE
    BY <1>5 DEF CompleteExecution
  <2>3. id \in Unresolved
    BY DEF Unresolved
  <2>4. \A i \in Unresolved : i = id
    BY <2>3 DEF StallInv
  <2>5. id \in Int /\ id < DispatchFront /\ DispatchFront \in Nat
    BY <2>1 DEF Numbered
  <2>6. id \notin Marked(IFETCH_BUFFER) \cup Marked(DECODE_BUFFER) \cup Marked(DISPATCH_BUFFER)
    <3>1. /\ DispatchFront \in Int /\ DecodeFront \in Int /\ Front \in Int
          /\ DispatchFront <= DecodeFront /\ DecodeFront <= Front
      <4>1. /\ Len(DISPATCH_BUFFER) \in Nat /\ Len(DECODE_BUFFER) \in Nat
            /\ DispatchFront \in Nat /\ DecodeFront \in Nat /\ Front \in Nat
        BY Sizes DEF Numbered
      <4>2. DispatchFront = DecodeFront - Len(DISPATCH_BUFFER) /\ DecodeFront = Front - Len(DECODE_BUFFER)
        BY DEF DispatchFront, DecodeFront
      <4> QED BY <4>1, <4>2
    <3>2. /\ IFETCH_BUFFER \in Seq(FTQEntry) /\ Follow(IFETCH_BUFFER, Front)
          /\ DECODE_BUFFER \in Seq(FTQEntry) /\ Follow(DECODE_BUFFER, DecodeFront)
          /\ DISPATCH_BUFFER \in Seq(FTQEntry) /\ Follow(DISPATCH_BUFFER, DispatchFront)
      BY DEF Numbered
    <3>3. /\ \A i \in Marked(IFETCH_BUFFER) : i \in Int /\ Front <= i
          /\ \A i \in Marked(DECODE_BUFFER) : i \in Int /\ DecodeFront <= i
          /\ \A i \in Marked(DISPATCH_BUFFER) : i \in Int /\ DispatchFront <= i
      BY <3>1, <3>2, MarkedRange
    <3>4. ~(Front <= id) /\ ~(DecodeFront <= id) /\ ~(DispatchFront <= id)
      BY <2>5, <3>1
    <3> QED BY <3>3, <3>4
  <2>7. Unresolved' = {}
    <3>1. Unresolved' = Marked(IFETCH_BUFFER) \cup Marked(DECODE_BUFFER) \cup Marked(DISPATCH_BUFFER)
                          \cup (executing \ {id})
      BY <1>1, <2>1 DEF Unresolved
    <3>2. Unresolved' \subseteq Unresolved \ {id}
      BY <2>6, <3>1 DEF Unresolved
    <3> QED BY <2>4, <3>2
  <2>8. fetch_stall
    BY <2>3 DEF StallInv
  <2> QED BY <1>1, <1>3, <2>2, <2>7, <2>8 DEF StallInv
<1> QED BY <1>4, <1>5

LEMMA ResumeKeepsStall ==
  ASSUME StallInv, Resume
  PROVE  StallInv'
<1>1. Unresolved' = Unresolved
  BY DEF Resume, buffers, Unresolved
<1>2. CASE UNCHANGED stall
  BY <1>1, <1>2, StallKept
<1>3. CASE ~UNCHANGED stall
  <2>1. /\ fetch_stall /\ resume_pending /\ fetch_stall' = FALSE /\ resume_pending' = FALSE
        /\ mark_next_instr' = TRUE
    BY <1>3 DEF Resume
  <2>2. Unresolved = {}
    BY <2>1 DEF StallInv
  <2> QED BY <1>1, <2>1, <2>2 DEF StallInv
<1> QED BY <1>2, <1>3

-----------------------------------------------------------------------------
(* The invariant.                                                          *)

LEMMA FrontInit == Init => FrontInv
BY NumberedInit, QueueInit, StallInit DEF FrontInv

LEMMA NumberedKept ==
  ASSUME Numbered, UNCHANGED <<instr_unique_id, buffers, executing>>
  PROVE  Numbered' /\ Unresolved' = Unresolved
BY DEF Numbered, buffers, Front, DecodeFront, DispatchFront, Follow, Unresolved

LEMMA FrontNext == FrontInv /\ [Next]_vars => FrontInv'
<1> SUFFICES ASSUME Numbered, QueueInv, StallInv, [Next]_vars PROVE Numbered' /\ QueueInv' /\ StallInv'
  BY DEF FrontInv
<1>1. CASE UNCHANGED vars
  <2>1. UNCHANGED <<IFETCH_BUFFER, instr_unique_id, asked, PROCESSED, handler, stall, buffers, executing>>
    BY <1>1 DEF vars, stall, buffers
  <2> QED BY <2>1, QueueKept, NumberedKept, StallKept
<1>2. CASE L1I
  <2>1. UNCHANGED <<instr_unique_id, buffers, executing, stall>>
    BY <1>2 DEF L1I
  <2> QED BY <1>2, <2>1, AnswerKeepsQueue, NumberedKept, StallKept
<1>3. CASE CompleteExecution
  <2>1. UNCHANGED <<IFETCH_BUFFER, instr_unique_id, asked, PROCESSED>> /\ handler' = "return"
    BY <1>3 DEF CompleteExecution, buffers, reading, l1i, Handle, After
  <2> QED BY <1>3, <2>1, QueueKept, CompleteKeepsStall
<1>4. CASE HandleMemoryReturn
  <2>1. UNCHANGED <<asked, stall>>
    BY <1>4 DEF HandleMemoryReturn
  <2>2. Numbered' /\ Unresolved' = Unresolved /\ Fetched(ServedNow, COMPLETED)
    BY <1>4, Returning
  <2>3. PICK done \in 0..Len(PROCESSED) : Shortened(done)
    BY <1>4, Returning
  <2>4. QueueInv'
    BY <2>1, <2>2, <2>3, ReturnKeepsQueue
  <2> QED BY <2>1, <2>2, <2>4, StallKept
<1>5. CASE PromoteToDispatch
  <2>1. /\ UNCHANGED <<IFETCH_BUFFER, DECODE_BUFFER, instr_unique_id, asked, PROCESSED, stall>>
        /\ handler = "dispatch" /\ handler' = "decode"
    BY <1>5 DEF PromoteToDispatch, reading, l1i, Handle, After
  <2>2. PICK k : Dispatches(k)
    BY <1>5, Dispatching
  <2>3. Numbered' /\ Unresolved' = Unresolved
    BY <2>1, <2>2, Dispatched
  <2>4. QueueInv'
    BY <2>1, QueueKept
  <2> QED BY <2>1, <2>3, <2>4, StallKept
<1>6. CASE DecodeInstruction
  <2>1. /\ UNCHANGED <<IFETCH_BUFFER, instr_unique_id, asked, PROCESSED, executing, fetch_stall,
                       mark_next_instr>>
        /\ handler = "decode" /\ handler' = "promote"
    BY <1>6 DEF DecodeInstruction, reading, l1i, Handle, After
  <2>2. PICK k : Decodes(k)
    BY <1>6, Decoding
  <2>3. Numbered'
    BY <2>1, <2>2, DecodedNumbers
  <2>4. StallInv'
    BY <2>1, <2>2, DecodeKeepsStall
  <2>5. QueueInv'
    BY <2>1, QueueKept
  <2> QED BY <2>3, <2>4, <2>5
<1>7. CASE PromoteToDecode
  <2>1. /\ UNCHANGED <<instr_unique_id, DISPATCH_BUFFER, executing, asked, PROCESSED, stall>>
        /\ handler = "promote" /\ handler' = "resume"
    BY <1>7 DEF PromoteToDecode, reading, l1i, Handle, After
  <2>2. PICK k : Promotes(k)
    BY <1>7, Promoting
  <2>3. Numbered' /\ Unresolved' = Unresolved
    BY <2>1, <2>2, Promoted
  <2>4. QueueInv'
    BY <2>1, <2>2, PromoteKeepsQueue
  <2> QED BY <2>1, <2>3, <2>4, StallKept
<1>8. CASE Resume
  <2>1. /\ UNCHANGED <<IFETCH_BUFFER, instr_unique_id, buffers, executing, asked, PROCESSED>>
        /\ handler' = "fetch"
    BY <1>8 DEF Resume, reading, buffers, l1i, Handle, After
  <2> QED BY <1>8, <2>1, QueueKept, NumberedKept, ResumeKeepsStall
<1>9. CASE FetchInstruction
  <2>1. /\ UNCHANGED <<instr_unique_id, DECODE_BUFFER, DISPATCH_BUFFER, executing, PROCESSED, stall>>
        /\ handler' = "check"
    BY <1>9 DEF FetchInstruction, reading, Handle, After
  <2>2. CASE PayPenalty
    <3>1. Numbered' /\ OnlyLookUps /\ Unresolved' = Unresolved
      BY <2>1, <2>2, Paying
    <3>2. UNCHANGED <<asked, PROCESSED>> /\ handler' \in {"check", "initialize"}
      BY <2>1, <2>2 DEF PayPenalty
    <3>3. QueueInv'
      BY <3>1, <3>2, LookUpsKeepQueue
    <3> QED BY <2>1, <3>1, <3>3, StallKept
  <2>3. CASE AskForLine
    <3>1. Numbered' /\ Unresolved' = Unresolved
      BY <2>1, <2>3, Asking
    <3>2. PICK b, packet : Asks(b, packet) /\ Fetched(packet, INFLIGHT) /\ asked' = asked \cup {packet}
      BY <2>1, <2>3, Asking
    <3>3. QueueInv'
      BY <2>1, <3>2, AskKeepsQueue
    <3> QED BY <2>1, <3>1, <3>3, StallKept
  <2>4. CASE UNCHANGED <<asked, IFETCH_BUFFER>>
    <3>1. /\ UNCHANGED <<IFETCH_BUFFER, instr_unique_id, asked, PROCESSED>>
          /\ UNCHANGED <<instr_unique_id, buffers, executing>>
      BY <2>1, <2>4 DEF buffers
    <3> QED BY <2>1, <3>1, QueueKept, NumberedKept, StallKept
  <2> QED BY <1>9, <2>2, <2>3, <2>4 DEF FetchInstruction, Refused
<1>10. CASE CheckDib
  <2>1. UNCHANGED <<asked, PROCESSED, stall>> /\ handler' \in {"check", "initialize"}
    BY <1>10 DEF CheckDib, l1i, Handle, After
  <2>2. Numbered' /\ OnlyLookUps /\ Unresolved' = Unresolved
    BY <1>10, Lookups
  <2>3. QueueInv'
    BY <2>1, <2>2, LookUpsKeepQueue
  <2> QED BY <2>1, <2>2, <2>3, StallKept
<1>11. CASE Initialize
  <2>1. /\ UNCHANGED <<DECODE_BUFFER, DISPATCH_BUFFER, executing, asked, PROCESSED, resume_pending>>
        /\ handler' = "l1i"
    BY <1>11 DEF Initialize, l1i, Handle, After
  <2>2. PICK k, os : Reads(k, os)
    BY <1>11, Reading
  <2>3. /\ Numbered'
        /\ Unresolved' = Unresolved \cup
             {instr_unique_id + j - 1 : j \in {n \in 1..k : BranchMiss(os[n])}}
    BY <2>1, <2>2, Added
  <2>4. QueueInv'
    BY <2>1, <2>2, ReadKeepsQueue
  <2>5. StallInv'
    BY <2>1, <2>2, <2>3, ReadKeepsStall
  <2> QED BY <2>3, <2>4, <2>5
<1> QED BY <1>1, <1>2, <1>3, <1>4, <1>5, <1>6, <1>7, <1>8, <1>9, <1>10, <1>11 DEF Next

LEMMA FrontInvariant == Spec => []FrontInv
BY FrontInit, FrontNext, PTL DEF Spec

-----------------------------------------------------------------------------
(* Theorems.                                                               *)

LEMMA EntriesByNumber ==
  ASSUME Numbered
  PROVE  /\ \A i \in FTQIds : At(i) \in Entries(IFETCH_BUFFER) /\ At(i).id = i
         /\ \A e \in Entries(IFETCH_BUFFER) : e.id \in FTQIds /\ e = At(e.id)
<1>1. DOMAIN IFETCH_BUFFER = 1..Len(IFETCH_BUFFER)
  BY Sizes
<1>2. ASSUME NEW i \in FTQIds PROVE At(i) \in Entries(IFETCH_BUFFER) /\ At(i).id = i
  BY <1>1, ByNumber DEF At, Entries
<1>3. ASSUME NEW e \in Entries(IFETCH_BUFFER) PROVE e.id \in FTQIds /\ e = At(e.id)
  <2>1. PICK n \in 1..Len(IFETCH_BUFFER) : e = IFETCH_BUFFER[n]
    BY <1>1 DEF Entries
  <2>2. e.id = Front + n - 1 /\ Front + n - 1 \in FTQIds /\ e = At(Front + n - 1)
    BY <2>1, ByNumber
  <2> QED BY <2>2
<1> QED BY <1>2, <1>3

\* The dependents of every packet are in the fetch target queue, so handle_memory_return
\* finds the entries it completes, and none of them was destroyed by promote_to_decode.
THEOREM DependentsStay == Spec => []DependentsInFTQ
<1>1. FrontInv => DependentsInFTQ
  BY EntriesByNumber DEF FrontInv, QueueInv, DependentsInFTQ
<1> QED BY <1>1, FrontInvariant, PTL

\* An instruction whose line is on the way has a packet in the L1I, or returned by it,
\* that will complete it.
THEOREM InFlightComes == Spec => []InFlightIsAsked
<1>1. FrontInv => InFlightIsAsked
  BY EntriesByNumber DEF FrontInv, QueueInv, InFlightIsAsked, InFlightWaits
<1> QED BY <1>1, FrontInvariant, PTL

\* Fetch is stopped for one unresolved misprediction, or for the penalty of the one that
\* was resolved, and not otherwise; the branch that restarts it is that one.
THEOREM OneCause == Spec => []StallHasOneCause
<1>1. ASSUME FrontInv PROVE StallHasOneCause
  <2> DEFINE pipeline == Entries(IFETCH_BUFFER) \cup Entries(DECODE_BUFFER) \cup Entries(DISPATCH_BUFFER)
             unresolved == {e.id : e \in {d \in pipeline : d.mispredicted}} \cup executing
  <2>1. Numbered /\ StallInv
    BY <1>1 DEF FrontInv
  <2>2. unresolved = Unresolved
    <3>1. /\ DOMAIN IFETCH_BUFFER = 1..Len(IFETCH_BUFFER)
          /\ DOMAIN DECODE_BUFFER = 1..Len(DECODE_BUFFER)
          /\ DOMAIN DISPATCH_BUFFER = 1..Len(DISPATCH_BUFFER)
      BY <2>1, Sizes
    <3> QED BY <3>1 DEF Entries, Unresolved, Marked
  <2> HIDE DEF unresolved
  <2>3. (fetch_stall => ~mark_next_instr) /\ (resume_pending => fetch_stall)
        /\ (fetch_stall => unresolved # {} \/ resume_pending)
        /\ (unresolved # {} => fetch_stall /\ ~resume_pending)
    BY <2>1, <2>2 DEF StallInv
  <2>4. CASE unresolved = {}
    <3>1. Cardinality(unresolved) = 0
      BY <2>4, FS_EmptySet
    <3>2. Cardinality(unresolved) + (IF resume_pending THEN 1 ELSE 0) = IF fetch_stall THEN 1 ELSE 0
      BY <2>3, <2>4, <3>1
    <3> QED BY <2>3, <3>2 DEF StallHasOneCause, unresolved
  <2>5. CASE unresolved # {}
    <3>1. \E i : unresolved = {i}
      BY <2>1, <2>2, <2>5 DEF StallInv
    <3>2. Cardinality(unresolved) = 1
      BY <3>1, FS_Singleton
    <3>3. Cardinality(unresolved) + (IF resume_pending THEN 1 ELSE 0) = IF fetch_stall THEN 1 ELSE 0
      BY <2>3, <2>5, <3>2
    <3> QED BY <2>3, <3>3 DEF StallHasOneCause, unresolved
  <2> QED BY <2>4, <2>5
<1>2. FrontInv => StallHasOneCause
  BY <1>1
<1> QED BY <1>2, FrontInvariant, PTL
=============================================================================
