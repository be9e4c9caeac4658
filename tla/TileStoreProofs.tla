-------------------------- MODULE TileStoreProofs --------------------------
(***************************************************************************)
(* Proofs about TileStore, for every set of readers, every thresholds,     *)
(* ring capacity and bounds: the store's types and its ring ceiling, the   *)
(* ring's order, the readers' pictures never going back, and, for a store  *)
(* sampled by one clock, pruning never dropping the picture.               *)
(***************************************************************************)
EXTENDS TileStore, FiniteSetTheorems, WellFoundedInduction, TLAPS

-----------------------------------------------------------------------------
(* Least and greatest elements *)

\* A non-empty set of naturals has a least element.
LEMMA MinExists ==
  ASSUME NEW S \in SUBSET Nat, S # {}
  PROVE  \E x \in S : \A y \in S : x <= y
<1>1. PICK x \in S : \A y \in S : ~(<<y, x>> \in OpToRel(<, Nat))
  BY NatLessThanWellFounded, WFMin
<1>2. \A y \in S : x <= y
  <2> TAKE y \in S
  <2>1. ~(<<y, x>> \in OpToRel(<, Nat))
    BY <1>1
  <2> QED BY <2>1 DEF OpToRel
<1> QED BY <1>2

\* A non-empty set of naturals bounded by n has a greatest element.
LEMMA MaxExists ==
  ASSUME NEW S \in SUBSET Nat, S # {}, NEW n \in Nat, \A y \in S : y <= n
  PROVE  \E x \in S : \A y \in S : y <= x
<1> DEFINE D == {n - y : y \in S}
<1>1. D \in SUBSET Nat /\ D # {}
  <2>1. \A y \in S : n - y \in Nat
    OBVIOUS
  <2>2. PICK y \in S : TRUE
    OBVIOUS
  <2>3. n - y \in D
    OBVIOUS
  <2> QED BY <2>1, <2>3
<1>2. PICK d \in D : \A c \in D : d <= c
  <2> HIDE DEF D
  <2> QED BY <1>1, MinExists
<1>3. PICK x \in S : d = n - x
  BY <1>2
<1>4. \A y \in S : y <= x
  <2> TAKE y \in S
  <2>1. n - y \in D
    OBVIOUS
  <2>2. d <= n - y
    BY <1>2, <2>1
  <2> QED BY <2>2, <1>3
<1> QED BY <1>4

\* Sequences and stamps are naturals.
LEMMA EntryNat ==
  ASSUME NEW e \in Entry
  PROVE  /\ e.seq \in Nat /\ e.at \in Nat
         /\ e.seq <= MaxSeq /\ e.at <= MaxAt
BY BoundsAssumption DEF Entry, Stamp, Seqs

\* A non-empty ring has an entry of least and one of greatest sequence.
LEMMA EndsExist ==
  ASSUME NEW r \in SUBSET Entry, r # {}
  PROVE  /\ \E e \in r : \A f \in r : e.seq <= f.seq
         /\ \E e \in r : \A f \in r : f.seq <= e.seq
<1> DEFINE S == {e.seq : e \in r}
<1>1. S \in SUBSET Nat /\ S # {} /\ \A y \in S : y <= MaxSeq
  BY EntryNat
<1>2. \E x \in S : \A y \in S : x <= y
  <2> HIDE DEF S
  <2> QED BY <1>1, MinExists
<1>3. \E x \in S : \A y \in S : y <= x
  <2> HIDE DEF S
  <2> QED BY <1>1, MaxExists, BoundsAssumption
<1> QED BY <1>2, <1>3

\* select_nearest_not_after has something to select in every non-empty ring.
LEMMA NearestExists ==
  ASSUME NEW r \in SUBSET Entry, r # {}, NEW t \in Int
  PROVE  /\ select_nearest_not_after(r, t) \in r
         /\ IsNearest(r, t, select_nearest_not_after(r, t))
<1> DEFINE due == {e \in r : e.at <= t}
<1>1. \E e \in r : IsNearest(r, t, e)
  <2>1. CASE due = {}
    <3>1. \A f \in r : f.at > t
      BY <2>1, EntryNat
    <3> QED BY <3>1, EndsExist DEF IsNearest
  <2>2. CASE due # {}
    <3>1. PICK e \in due : \A f \in due : f.seq <= e.seq
      BY <2>2, EndsExist, due \in SUBSET Entry
    <3> QED BY <3>1 DEF IsNearest
  <2> QED BY <2>1, <2>2
<1> QED BY <1>1 DEF select_nearest_not_after

-----------------------------------------------------------------------------
(* What publish_arc does to the ring *)

\* The ring's last entry bounds every stamp in it.
LEMMA TailBounds ==
  ASSUME NEW r \in SUBSET Entry, r # {}, Ordered(r)
  PROVE  /\ Tail(r) \in r
         /\ \A f \in r : f.at <= Tail(r).at
<1>1. Tail(r) \in r /\ \A f \in r : f.seq <= Tail(r).seq
  BY EndsExist DEF Tail
<1>2. \A f \in r : f.at <= Tail(r).at
  BY <1>1, EntryNat DEF Ordered
<1> QED BY <1>1, <1>2

\* Publishing e: the new ring holds e, nothing new besides, stays ordered and
\* within the ceiling, and what it lost is older than what it kept.
LEMMA NextRingFacts ==
  ASSUME NEW r \in SUBSET Entry, IsFiniteSet(r), Ordered(r),
         Cardinality(r) <= RING_CAPACITY,
         NEW e \in Entry, \A f \in r : f.seq < e.seq,
         NEW wm \in Nat
  PROVE  LET n == NextRing(r, e, wm) IN
         /\ n \subseteq r \cup {e} /\ e \in n
         /\ IsFiniteSet(n) /\ Cardinality(n) <= RING_CAPACITY
         /\ Ordered(n)
         /\ \A f \in r \ n, g \in n : f.seq <= g.seq
<1> DEFINE k == IF BackwardsStamp(r, e.at) THEN {} ELSE Kept(r, wm)
           u == k \cup {e}
           n == DropOldest(u)
<1>0. n = NextRing(r, e, wm)
  BY DEF NextRing
<1>1. k \subseteq r
  BY DEF Kept
<1>2. \A f \in k : f.at <= e.at
  <2>1. CASE BackwardsStamp(r, e.at)
    BY <2>1
  <2>2. CASE ~BackwardsStamp(r, e.at)
    <3>1. SUFFICES ASSUME NEW f \in k PROVE f.at <= e.at
      OBVIOUS
    <3>2. r # {} /\ e.at >= Tail(r).at
      BY <2>2, <1>1, <3>1, TailBounds, EntryNat DEF BackwardsStamp
    <3> QED BY <3>2, <1>1, TailBounds, EntryNat
  <2> QED BY <2>1, <2>2
<1>3. \A f \in r \ k, g \in u : f.seq <= g.seq
  <2>1. CASE BackwardsStamp(r, e.at)
    BY <2>1, EntryNat
  <2>2. CASE ~BackwardsStamp(r, e.at)
    BY <2>2, EntryNat DEF Kept
  <2> QED BY <2>1, <2>2
<1>4. Ordered(u)
  BY <1>1, <1>2, EntryNat DEF Ordered
<1>5. /\ IsFiniteSet(k) /\ Cardinality(k) \in Nat /\ Cardinality(k) <= RING_CAPACITY
  BY <1>1, FS_Subset, FS_CardinalityType, CapacityAssumption
<1>6. /\ IsFiniteSet(u) /\ Cardinality(u) \in Nat
      /\ Cardinality(u) <= RING_CAPACITY + 1
  <2> HIDE DEF k
  <2>1. /\ IsFiniteSet(u)
        /\ Cardinality(u) = IF e \in k THEN Cardinality(k) ELSE Cardinality(k) + 1
    BY <1>5, FS_AddElement
  <2> QED BY <1>5, <2>1, CapacityAssumption
<1>7. u \in SUBSET Entry /\ u # {}
  BY <1>1
<1> HIDE DEF u, k
<1>8. CASE Cardinality(u) <= RING_CAPACITY
  <2>1. n = u
    BY <1>8 DEF DropOldest
  <2> QED BY <2>1, <1>0, <1>1, <1>3, <1>4, <1>6, <1>8 DEF u
<1>9. CASE ~(Cardinality(u) <= RING_CAPACITY)
  <2>1. n = {g \in u : \E f \in u : f.seq < g.seq}
    BY <1>9 DEF DropOldest
  <2>2. k # {}
    <3>1. SUFFICES ASSUME k = {} PROVE FALSE
      OBVIOUS
    <3>2. u = {e}
      BY <3>1 DEF u
    <3> QED BY <3>2, <1>9, FS_Singleton, CapacityAssumption
  <2>3. e \in n
    BY <2>1, <2>2, <1>1 DEF u
  <2>4. PICK m \in u : \A f \in u : m.seq <= f.seq
    BY <1>7, EndsExist
  <2>5. n \subseteq u \ {m}
    BY <2>1, <2>4, <1>7, EntryNat
  <2>6. /\ IsFiniteSet(u \ {m}) /\ Cardinality(u \ {m}) = Cardinality(u) - 1
    BY <2>4, <1>6, FS_RemoveElement
  <2>7. /\ IsFiniteSet(n) /\ Cardinality(n) <= RING_CAPACITY
    BY <2>5, <2>6, <1>6, FS_Subset, FS_CardinalityType, CapacityAssumption
  <2>8. Ordered(n)
    BY <2>5, <1>4 DEF Ordered
  <2>9. \A f \in u \ n, g \in n : f.seq <= g.seq
    BY <2>1, <1>7, EntryNat
  <2>10. \A f \in r \ n, g \in n : f.seq <= g.seq
    BY <2>5, <2>9, <1>3 DEF u
  <2> QED BY <2>3, <2>5, <2>7, <2>8, <2>10, <1>0, <1>1 DEF u
<1> QED BY <1>8, <1>9

\* Whatever was no newer than the old ring's picture is no newer than the new
\* ring's: publishing never takes a picture back.
LEMMA PublishAhead ==
  ASSUME NEW r \in SUBSET Entry, IsFiniteSet(r), Ordered(r),
         Cardinality(r) <= RING_CAPACITY,
         NEW e \in Entry, \A f \in r : f.seq < e.seq,
         NEW wm \in Nat, NEW t \in Int, NEW n \in Nat, n <= e.seq,
         Behind(n, r, t)
  PROVE  Behind(n, NextRing(r, e, wm), t)
<1> DEFINE nr == NextRing(r, e, wm)
<1>1. /\ nr \subseteq r \cup {e} /\ \A f \in r \ nr, g \in nr : f.seq <= g.seq
  BY NextRingFacts
<1> HIDE DEF nr
<1>2. SUFFICES ASSUME NEW g \in nr, IsNearest(nr, t, g), g # e PROVE n <= g.seq
  BY DEF Behind, nr
<1>3. g \in r
  BY <1>1, <1>2
<1>4. PICK f \in r : IsNearest(r, t, f)
  BY <1>3, NearestExists
<1>5. n <= f.seq
  BY <1>4 DEF Behind
<1>6. f.seq <= g.seq
  <2>1. CASE f \notin nr
    BY <2>1, <1>1
  <2>2. CASE f \in nr
    BY <2>2, <1>2, <1>3, <1>4, EntryNat DEF IsNearest, Ordered
  <2> QED BY <2>1, <2>2
<1> QED BY <1>3, <1>5, <1>6, EntryNat

\* As a reader's clock moves on, the picture only moves to newer frames.
LEMMA ClockAhead ==
  ASSUME NEW r \in SUBSET Entry, Ordered(r),
         NEW t \in Int, NEW n \in Nat, Behind(n, r, t)
  PROVE  Behind(n, r, t + 1)
<1>1. SUFFICES ASSUME NEW g \in r, IsNearest(r, t + 1, g) PROVE n <= g.seq
  BY DEF Behind
<1>2. PICK f \in r : IsNearest(r, t, f)
  BY <1>1, NearestExists
<1>3. n <= f.seq
  BY <1>2 DEF Behind
<1>4. f.seq <= g.seq
  BY <1>1, <1>2, EntryNat DEF IsNearest, Ordered
<1> QED BY <1>3, <1>4, EntryNat

-----------------------------------------------------------------------------
(* The inductive invariant *)

LEMMA InitStoreInv == Init => StoreInv
<1> SUFFICES ASSUME Init PROVE StoreInv
  OBVIOUS
<1>1. NoFrame \in Entry
  BY BoundsAssumption DEF NoFrame, Entry, Stamp, Seqs
<1>2. IsFiniteSet(ring) /\ Cardinality(ring) <= RING_CAPACITY
  BY FS_EmptySet, CapacityAssumption DEF Init
<1>3. TypeOK
  BY <1>1, <1>2, BoundsAssumption
     DEF Init, TypeOK, Seqs, NoSignalRead, SourceState, NO_LATCH_SEQ
<1>4. RingOrdered /\ PrimedHasPicture /\ PublishInv /\ WatermarkInv /\ LatchInv
  BY DEF Init, RingOrdered, Ordered, PrimedHasPicture, PublishInv,
         WatermarkInv, LatchInv, Behind, NO_LATCH_SEQ
<1> QED BY <1>2, <1>3, <1>4 DEF StoreInv

\* The results readers are handed are well typed.
LEMMA TileReadType ==
  ASSUME NEW f \in Entry, NEW s \in SourceState
  PROVE  TileRead(f, s) \in [kind : {"Fresh", "Held", "NoSignal"},
                             frame : Entry, state : SourceState]
<1>1. NoFrame \in Entry
  BY BoundsAssumption DEF NoFrame, Entry, Stamp, Seqs
<1>2. CASE s = "Live"
  BY <1>2 DEF TileRead, SourceState
<1>3. CASE s \in {"Stale", "Reconnecting"}
  BY <1>3 DEF TileRead, SourceState
<1>4. CASE s = "NoSignal"
  BY <1>1, <1>4 DEF TileRead, SourceState
<1> QED BY <1>2, <1>3, <1>4 DEF SourceState

LEMMA ClassifyType == \A x : classify(x) \in SourceState
BY DEF classify, SourceState

\* The producer's steps preserve the invariant.
LEMMA PublishStoreInv ==
  ASSUME StoreInv, Publish
  PROVE  StoreInv'
<1> USE DEF StoreInv
<1>t. /\ seq \in Nat /\ pub \in Entry /\ pubWm \in Nat /\ watermark \in Nat
      /\ ring \in SUBSET Entry /\ Cardinality(ring) <= RING_CAPACITY
      /\ IsFiniteSet(ring) /\ Ordered(ring)
      /\ \A r \in Readers : now[r] \in Int /\ latched[r] \in Nat
      /\ \A r \in Readers : snap[r] \in SUBSET Entry
  BY BoundsAssumption DEF TypeOK, RingOrdered, Seqs
<1>1. ASSUME NEW at \in Stamp, PublishStamp(at) PROVE StoreInv'
  <2> USE <1>1 DEF PublishStamp, readVars
  <2>1. TypeOK'
    BY BoundsAssumption DEF TypeOK, Seqs, Entry
  <2>2. RingOrdered' /\ PrimedHasPicture' /\ WatermarkInv' /\ IsFiniteSet(ring')
    BY DEF RingOrdered, PrimedHasPicture, WatermarkInv
  <2>3. PublishInv'
    BY <1>t, EntryNat DEF PublishInv
  <2>4. LatchInv'
    BY <1>t, EntryNat DEF LatchInv
  <2> QED BY <2>1, <2>2, <2>3, <2>4
<1>2. CASE PublishSlot
  <2> USE <1>2 DEF PublishSlot, readVars
  <2>1. TypeOK'
    BY DEF TypeOK
  <2>2. slot' # NoFrame
    BY <1>t, EntryNat DEF PublishInv, NoFrame
  <2>3. RingOrdered' /\ PrimedHasPicture' /\ WatermarkInv' /\ LatchInv'
    BY <2>2 DEF RingOrdered, PrimedHasPicture, WatermarkInv, LatchInv
  <2>4. PublishInv'
    BY <2>2 DEF PublishInv
  <2> QED BY <2>1, <2>3, <2>4
<1>3. CASE PublishLoadWatermark
  <2> USE <1>3 DEF PublishLoadWatermark, storeVars, readVars
  <2>1. TypeOK'
    BY BoundsAssumption DEF TypeOK, Seqs
  <2>2. RingOrdered' /\ PrimedHasPicture' /\ LatchInv' /\ PublishInv'
    BY DEF RingOrdered, PrimedHasPicture, LatchInv, PublishInv
  <2>3. WatermarkInv'
    BY <1>t DEF WatermarkInv
  <2> QED BY <2>1, <2>2, <2>3
<1>4. CASE PublishRing
  <2> USE <1>4 DEF PublishRing, readVars
  <2>1. \A f \in ring : f.seq < pub.seq
    BY DEF PublishInv
  <2>2. /\ ring' \subseteq ring \cup {pub} /\ pub \in ring'
        /\ IsFiniteSet(ring') /\ Cardinality(ring') <= RING_CAPACITY
        /\ Ordered(ring')
    BY <1>t, <2>1, NextRingFacts
  <2>3. TypeOK'
    BY <2>2 DEF TypeOK
  <2>4. RingOrdered' /\ PrimedHasPicture' /\ WatermarkInv'
    BY <2>2 DEF RingOrdered, PrimedHasPicture, WatermarkInv
  <2>5. PublishInv'
    BY <2>2, <1>t, EntryNat DEF PublishInv
  <2>6. \A n \in Nat, t \in Int :
          n <= seq /\ Behind(n, ring, t) => Behind(n, ring', t)
    BY <1>t, <2>1, PublishAhead DEF PublishInv
  <2>7. LatchInv'
    BY <2>6, <1>t, EntryNat DEF LatchInv
  <2> QED BY <2>2, <2>3, <2>4, <2>5, <2>7
<1>5. CASE PublishLastAt
  <2> USE <1>5 DEF PublishLastAt, readVars
  <2>1. TypeOK'
    BY DEF TypeOK, Entry
  <2>2. PrimedHasPicture' /\ PublishInv'
    BY DEF PrimedHasPicture, PublishInv
  <2>3. RingOrdered' /\ LatchInv' /\ WatermarkInv'
    BY DEF RingOrdered, LatchInv, WatermarkInv
  <2> QED BY <2>1, <2>2, <2>3
<1> QED BY <1>1, <1>2, <1>3, <1>4, <1>5 DEF Publish

\* The readers' steps preserve the invariant.
LEMMA ReadStoreInv ==
  ASSUME StoreInv, NEW r \in Readers, Sample(r) \/ Read(r)
  PROVE  StoreInv'
<1> USE DEF StoreInv
<1>t. /\ seq \in Nat /\ watermark \in Nat /\ ring \in SUBSET Entry /\ Ordered(ring)
      /\ slot \in Entry
      /\ \A q \in Readers : /\ now[q] \in Int /\ latched[q] \in Nat
                            /\ snap[q] \in SUBSET Entry /\ Ordered(snap[q])
  BY BoundsAssumption DEF TypeOK, RingOrdered, Seqs
<1>n. NoSignalRead \in [kind : {"Fresh", "Held", "NoSignal"},
                       frame : Entry, state : SourceState]
  BY BoundsAssumption DEF NoSignalRead, NoFrame, Entry, Stamp, Seqs, SourceState
<1>1. CASE Advance(r)
  <2> USE <1>1 DEF Advance, storeVars, prodVars
  <2>1. TypeOK'
    BY BoundsAssumption DEF TypeOK
  <2>2. RingOrdered' /\ PrimedHasPicture' /\ PublishInv' /\ WatermarkInv'
    BY DEF RingOrdered, PrimedHasPicture, PublishInv, WatermarkInv
  <2>3. now' = [now EXCEPT ![r] = @ + 1] /\ now \in [Readers -> 0..MaxNow]
    BY DEF TypeOK
  <2>4. LatchInv'
    BY <1>t, <2>3, ClockAhead DEF LatchInv
  <2> QED BY <2>1, <2>2, <2>4
<1>2. ASSUME NEW op \in {"read_at", "state_at"}, LoadRing(r, op) PROVE StoreInv'
  <2> USE <1>2 DEF LoadRing, storeVars, prodVars
  <2>1. TypeOK'
    BY DEF TypeOK
  <2>2. PrimedHasPicture' /\ PublishInv' /\ WatermarkInv'
    BY DEF PrimedHasPicture, PublishInv, WatermarkInv
  <2>3. RingOrdered'
    BY DEF RingOrdered, TypeOK
  <2>4. /\ snap' = [snap EXCEPT ![r] = ring] /\ DOMAIN snap = Readers
        /\ rpc' = [rpc EXCEPT ![r] = op] /\ DOMAIN rpc = Readers
    BY DEF TypeOK
  <2>5. \A e \in ring : IsNearest(ring, now[r], e) => Behind(e.seq, ring, now[r])
    BY <1>t, EntryNat DEF Behind, IsNearest
  <2>6. LatchInv'
    BY <2>4, <2>5 DEF LatchInv, PublishInv
  <2> QED BY <2>1, <2>2, <2>3, <2>6
<1>3. CASE ReadEmptyRing(r)
  <2> USE <1>3 DEF ReadEmptyRing, storeVars, prodVars
  <2>1. TypeOK'
    BY <1>n DEF TypeOK
  <2>2. RingOrdered' /\ PrimedHasPicture' /\ PublishInv' /\ WatermarkInv'
    BY DEF RingOrdered, PrimedHasPicture, PublishInv, WatermarkInv
  <2>3. LatchInv'
    BY DEF LatchInv, TypeOK
  <2> QED BY <2>1, <2>2, <2>3
<1>4. CASE Latch(r)
  <2> DEFINE selected == select_nearest_not_after(snap[r], now[r])
  <2>1. selected \in snap[r] /\ IsNearest(snap[r], now[r], selected)
    BY <1>4, <1>t, NearestExists DEF Latch
  <2> HIDE DEF selected
  <2>2. /\ rpc[r] \in {"read_at", "state_at"}
        /\ watermark' = IF selected.seq > watermark THEN selected.seq ELSE watermark
        /\ latched' = [latched EXCEPT ![r] = selected.seq]
        /\ rpc' = [rpc EXCEPT ![r] = "idle"]
        /\ snap' = [snap EXCEPT ![r] = {}]
        /\ UNCHANGED <<seq, slot, ring, lastAt, ppc, pub, pubWm, now>>
    BY <1>4 DEF Latch, selected, prodVars
  <2>3. selected \in Entry /\ selected.seq \in Nat /\ selected.seq \in Seqs
    BY <2>1, <1>t, EntryNat DEF Entry
  <2>4. shown' = shown
        \/ shown' = [shown EXCEPT ![r] =
                       TileRead(selected, classify(now[r] - selected.at))]
    BY <1>4 DEF Latch, selected
  <2>5. TileRead(selected, classify(now[r] - selected.at))
          \in [kind : {"Fresh", "Held", "NoSignal"}, frame : Entry, state : SourceState]
    BY <2>3, TileReadType, ClassifyType
  <2>6. TypeOK'
    BY <2>2, <2>3, <2>4, <2>5 DEF TypeOK
  <2>7. RingOrdered' /\ PrimedHasPicture' /\ PublishInv'
    BY <2>2 DEF RingOrdered, PrimedHasPicture, PublishInv, Ordered, TypeOK
  <2>8. /\ latched[r] <= selected.seq /\ selected.seq <= seq
        /\ Behind(selected.seq, ring, now[r])
    BY <2>1, <2>2 DEF LatchInv, Behind
  <2>9. WatermarkInv'
    <3>1. watermark' >= watermark
      BY <2>2, <2>3, <1>t
    <3>2. pubWm' <= watermark'
      BY <3>1, <2>2, <2>3, <1>t DEF WatermarkInv, TypeOK, Seqs
    <3>3. watermark' = selected.seq => watermark' <= latched'[r]
      BY <2>2, <2>3 DEF TypeOK
    <3>4. watermark' = watermark =>
            watermark' = NO_LATCH_SEQ \/ \E q \in Readers : watermark' <= latched'[q]
      BY <2>2, <2>3, <2>8, <1>t DEF WatermarkInv, TypeOK
    <3> QED BY <3>2, <3>3, <3>4, <2>2 DEF WatermarkInv
  <2>10. LatchInv'
    BY <2>2, <2>8 DEF LatchInv, TypeOK
  <2> QED BY <2>2, <2>6, <2>7, <2>9, <2>10
<1>5. CASE ReadLoadSlot(r)
  <2> USE <1>5 DEF ReadLoadSlot, storeVars, prodVars
  <2>1. TypeOK'
    BY <1>n DEF TypeOK
  <2>2. PrimedHasPicture' /\ PublishInv' /\ WatermarkInv'
    BY DEF PrimedHasPicture, PublishInv, WatermarkInv
  <2>3. RingOrdered'
    BY <1>t, EntryNat DEF RingOrdered, TypeOK, Ordered
  <2>4. LatchInv'
    <3>1. CASE slot = NoFrame
      BY <3>1 DEF LatchInv
    <3>2. CASE slot # NoFrame
      <4>1. /\ snap' = [snap EXCEPT ![r] = {slot}] /\ DOMAIN snap = Readers
            /\ rpc' = [rpc EXCEPT ![r] = "read"] /\ DOMAIN rpc = Readers
            /\ UNCHANGED <<seq, ring, now, latched>>
        BY <3>2 DEF TypeOK
      <4> QED BY <4>1 DEF LatchInv
    <3> QED BY <3>1, <3>2
  <2> QED BY <2>1, <2>2, <2>3, <2>4
<1>6. CASE ReadState(r)
  <2> USE DEF storeVars, prodVars
  <2>1. shown' \in [Readers -> [kind : {"Fresh", "Held", "NoSignal"},
                                frame : Entry, state : SourceState]]
    <3> DEFINE frame == CHOOSE f \in snap[r] : TRUE
               state == IF lastAt = NEVER_PUBLISHED THEN "NoSignal"
                        ELSE classify(now[r] - lastAt)
    <3>1. frame \in Entry
      BY <1>6, <1>t DEF ReadState, LatchInv
    <3>2. state \in SourceState
      BY ClassifyType DEF SourceState
    <3>3. shown' = [shown EXCEPT ![r] = TileRead(frame, state)]
      BY <1>6 DEF ReadState
    <3> HIDE DEF frame, state
    <3>4. TileRead(frame, state) \in [kind : {"Fresh", "Held", "NoSignal"},
                                      frame : Entry, state : SourceState]
      BY <3>1, <3>2, TileReadType
    <3> QED BY <3>3, <3>4 DEF TypeOK
  <2>2. TypeOK'
    BY <1>6, <2>1 DEF ReadState, TypeOK
  <2>3. RingOrdered' /\ PrimedHasPicture' /\ PublishInv' /\ WatermarkInv'
    BY <1>6 DEF ReadState, RingOrdered, PrimedHasPicture, PublishInv, WatermarkInv, TypeOK, Ordered
  <2>4. LatchInv'
    BY <1>6 DEF ReadState, LatchInv, TypeOK
  <2> QED BY <1>6, <2>2, <2>3, <2>4 DEF ReadState
<1> QED BY <1>1, <1>2, <1>3, <1>4, <1>5, <1>6 DEF Sample, Read

LEMMA NextStoreInv == StoreInv /\ [Next]_vars => StoreInv'
<1> SUFFICES ASSUME StoreInv, [Next]_vars PROVE StoreInv'
  OBVIOUS
<1>1. CASE UNCHANGED vars
  BY <1>1 DEF vars, StoreInv, TypeOK, RingOrdered, PrimedHasPicture,
              PublishInv, WatermarkInv, LatchInv
<1>2. CASE Next
  BY <1>2, PublishStoreInv, ReadStoreInv DEF Next
<1> QED BY <1>1, <1>2

-----------------------------------------------------------------------------
(* The theorems *)

\* The inductive invariant holds in every behaviour of publish_arc, read_at,
\* state_at and read.
THEOREM StoreInvariant == Spec => []StoreInv
BY InitStoreInv, NextStoreInv, PTL DEF Spec

\* Types, and the ring's hard ceiling (tile.rs, RING_CAPACITY).
THEOREM TypeCorrect == Spec => []TypeOK
BY StoreInvariant, PTL DEF StoreInv

\* Ring and snapshots stay sorted by stamp, so the binary search is legal.
THEOREM RingStaysOrdered == Spec => []RingOrdered
BY StoreInvariant, PTL DEF StoreInv

\* A tile that reports primed has a frame in its slot and in its ring.
THEOREM PrimedTileHasPicture == Spec => []PrimedHasPicture
BY StoreInvariant, PTL DEF StoreInv

\* Both together (RingReadable).
THEOREM RingStaysReadable == Spec => []RingReadable
BY StoreInvariant, PTL DEF StoreInv, RingReadable

\* No reader is ever shown an older frame than before.
THEOREM PictureMonotone == Spec => PictureNeverRegresses
<1> DEFINE Ahead == \A r \in Readers : latched'[r] >= latched[r]
<1>1. StoreInv /\ [Next]_vars => [Ahead]_vars
  <2> SUFFICES ASSUME StoreInv, Next PROVE Ahead
    OBVIOUS
  <2>t. \A r \in Readers : latched[r] \in Nat
    BY BoundsAssumption DEF StoreInv, TypeOK, Seqs
  <2>1. CASE latched' = latched
    BY <2>1, <2>t
  <2>2. ASSUME NEW r \in Readers, Latch(r) PROVE Ahead
    <3> DEFINE selected == select_nearest_not_after(snap[r], now[r])
    <3>1. snap[r] \in SUBSET Entry /\ snap[r] # {} /\ now[r] \in Int
      BY <2>2 DEF Latch, StoreInv, TypeOK
    <3>2. selected \in snap[r] /\ IsNearest(snap[r], now[r], selected)
      BY <3>1, NearestExists
    <3> HIDE DEF selected
    <3>3. latched[r] <= selected.seq /\ selected.seq \in Nat
      BY <2>2, <3>1, <3>2, EntryNat DEF Latch, StoreInv, LatchInv, Behind
    <3>4. latched' = [latched EXCEPT ![r] = selected.seq]
      BY <2>2 DEF Latch, selected
    <3> QED BY <2>t, <3>3, <3>4 DEF StoreInv, TypeOK
  <2>3. ASSUME ~(\E r \in Readers : Latch(r)) PROVE latched' = latched
    BY <2>3 DEF Next, Publish, Sample, Read, PublishStamp, PublishSlot,
            PublishLoadWatermark, PublishRing, PublishLastAt, Advance,
            LoadRing, ReadEmptyRing, ReadLoadSlot, ReadState, readVars
  <2> QED BY <2>1, <2>2, <2>3
<1> QED BY <1>1, StoreInvariant, PTL DEF Spec, PictureNeverRegresses

\* With a single sampling clock, as the watermark's documentation assumes, no
\* publish prunes the frame being shown.
THEOREM SingleClockKeepsPicture ==
  ASSUME NEW output, Readers = {output}
  PROVE  Spec => PruneKeepsPicture
<1> DEFINE Prunes == /\ ring' # ring /\ ring # {} /\ ~BackwardsStamp(ring, pub.at)
                     /\ Cardinality(ring) < RING_CAPACITY
           Keeps == \A r \in Readers : KeepsPicture(r)
<1>1. StoreInv /\ [Next]_vars => [Prunes => Keeps]_vars
  <2> SUFFICES ASSUME StoreInv, Next, Prunes, NEW r \in Readers
               PROVE  KeepsPicture(r)
    OBVIOUS
  <2>1. PublishRing
    BY DEF Next, Publish, Sample, Read, PublishStamp, PublishSlot, storeVars,
           PublishLoadWatermark, PublishLastAt, Advance, Latch,
           LoadRing, ReadEmptyRing, ReadLoadSlot, ReadState
  <2>2. /\ ring \in SUBSET Entry /\ pub \in Entry /\ now[r] \in Int
        /\ Ordered(ring) /\ IsFiniteSet(ring) /\ Cardinality(ring) \in Nat
        /\ \A f \in ring : f.seq < pub.seq
        /\ pubWm \in Nat /\ watermark \in Nat /\ latched[r] \in Nat
    BY <2>1, FS_CardinalityType, BoundsAssumption
       DEF StoreInv, TypeOK, RingOrdered, PublishInv, PublishRing, Seqs
  <2> DEFINE old == select_nearest_not_after(ring, now[r])
             new == select_nearest_not_after(ring', now[r])
  <2>3. ring' = Kept(ring, pubWm) \cup {pub}
    <3> DEFINE k == Kept(ring, pubWm)
    <3>1. IsFiniteSet(k) /\ Cardinality(k) \in Nat /\ Cardinality(k) <= Cardinality(ring)
      BY <2>2, FS_Subset, FS_CardinalityType DEF Kept
    <3> HIDE DEF k
    <3>2. Cardinality(k \cup {pub}) <= Cardinality(k) + 1
      <4>1. Cardinality(k \cup {pub}) =
              IF pub \in k THEN Cardinality(k) ELSE Cardinality(k) + 1
        BY <3>1, FS_AddElement
      <4> QED BY <3>1, <4>1
    <3>3. IsFiniteSet(k \cup {pub}) /\ Cardinality(k \cup {pub}) \in Nat
      BY <3>1, FS_AddElement, FS_CardinalityType
    <3>4. Cardinality(k \cup {pub}) <= RING_CAPACITY
      BY <3>1, <3>2, <3>3, <2>2, CapacityAssumption
    <3> QED BY <3>4, <2>1 DEF PublishRing, NextRing, DropOldest, k
  <2>4. /\ old \in ring /\ IsNearest(ring, now[r], old)
        /\ new \in ring' /\ IsNearest(ring', now[r], new)
    BY <2>2, <2>3, NearestExists DEF Kept
  <2> HIDE DEF old, new
  <2>5. pubWm <= old.seq
    <3>1. latched[r] <= old.seq
      BY <2>4 DEF StoreInv, LatchInv, Behind
    <3>2. watermark <= latched[r]
      BY <2>2 DEF StoreInv, WatermarkInv, NO_LATCH_SEQ
    <3>3. pubWm <= watermark
      BY DEF StoreInv, WatermarkInv
    <3> QED BY <3>1, <3>2, <3>3, <2>2, <2>4, EntryNat
  <2>6. old \in ring'
    BY <2>3, <2>4, <2>5 DEF Kept
  <2>7. new = old \/ (new = pub /\ new.at <= now[r])
    <3>1. CASE new = pub
      BY <3>1, <2>2, <2>4, <2>6, EntryNat DEF IsNearest
    <3>2. CASE new # pub
      <4>1. new \in ring
        BY <3>2, <2>3, <2>4 DEF Kept
      <4>2. new.seq = old.seq
        BY <4>1, <2>2, <2>4, <2>6, EntryNat DEF IsNearest
      <4> QED BY <4>1, <4>2, <2>2, <2>4 DEF Ordered
    <3> QED BY <3>1, <3>2
  <2> QED BY <2>7 DEF KeepsPicture, old, new
<1> QED BY <1>1, StoreInvariant, PTL DEF Spec, PruneKeepsPicture
=============================================================================
