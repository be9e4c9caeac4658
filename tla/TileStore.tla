----------------------------- MODULE TileStore -----------------------------
(***************************************************************************)
(* The per-tile last-good-frame store (multiview-framestore: tile.rs,      *)
(* latest.rs, state.rs).                                                   *)
(*                                                                         *)
(* One producer (the source's actor) publishes stamped frames in four      *)
(* separately visible atomic steps; any number of lock-free readers sample *)
(* the store, each against its own monotonic clock.  The compositor reads  *)
(* with read_at at the output tick's instant; previews read with read_at   *)
(* at their own clock's instant; read is the newest-wins variant.          *)
(*                                                                         *)
(* The ring (a Vec behind an ArcSwap) is modelled as the set of its        *)
(* entries.  Entries are pushed in publish order, so the Vec is that set   *)
(* listed by seq; RingOrdered shows it is then listed by stamp too, which  *)
(* is what the binary search of select_nearest_not_after needs.            *)
(***************************************************************************)
EXTENDS Integers, FiniteSets

CONSTANTS
  Readers,         \* the threads that sample this tile
  Hold, Stale, NoSignalAfter,   \* the ladder's thresholds (TileThresholds)
  Policy,          \* NoSignalPolicy: "Slate" or "HoldForever"
  RING_CAPACITY,   \* the ring's hard ceiling
  MaxSeq,          \* bound: publishes in a behaviour
  MaxAt,           \* bound: largest stamp a frame carries
  MaxNow           \* bound: largest instant a reader samples at

\* TileThresholds::new refuses any others.
ValidThresholds ==
  /\ Hold \in Nat \ {0} /\ Stale \in Nat /\ NoSignalAfter \in Nat
  /\ Hold < Stale /\ Stale < NoSignalAfter
ASSUME ThresholdsAssumption == ValidThresholds
ASSUME PolicyAssumption == Policy \in {"Slate", "HoldForever"}
ASSUME CapacityAssumption == RING_CAPACITY \in Nat \ {0}
ASSUME BoundsAssumption == MaxSeq \in Nat /\ MaxAt \in Nat /\ MaxNow \in Nat

VARIABLES
  seq,        \* LatestSlot::seq
  slot,       \* LatestSlot::slot, the newest frame or NoFrame
  ring,       \* the media-time ring
  watermark,  \* latch_watermark_seq
  lastAt,     \* last_frame_at_ns
  ppc,        \* where the producer is in publish_arc
  pub,        \* publish_arc's local entry (stamp and assigned sequence)
  pubWm,      \* publish_arc's local watermark_seq
  now,        \* each reader's clock
  rpc,        \* the call each reader is inside of
  snap,       \* what each reader has loaded: a ring snapshot, or {the slot}
  latched,    \* sequence of the last ring frame each reader selected
  shown       \* the last TileRead each reader was given

storeVars == <<seq, slot, ring, watermark, lastAt>>
prodVars == <<ppc, pub, pubWm>>
readVars == <<now, rpc, snap, latched, shown>>
vars == <<seq, slot, ring, watermark, lastAt, ppc, pub, pubWm,
          now, rpc, snap, latched, shown>>

NO_LATCH_SEQ == 0
NEVER_PUBLISHED == -1

SourceState == {"Live", "Stale", "Reconnecting", "NoSignal"}
Stamp == 0..MaxAt
Seqs == 0..MaxSeq
Entry == [at : Stamp, seq : Seqs]
NoFrame == [at |-> 0, seq |-> 0]

\* state.rs, classify: the failure ladder.
classify(elapsed) ==
  LET e == IF elapsed < 0 THEN 0 ELSE elapsed
  IN  IF e < Hold THEN "Live"
      ELSE IF e < Stale THEN "Stale"
      ELSE IF e < NoSignalAfter THEN "Reconnecting"
      ELSE "NoSignal"

\* A ring entry nobody can prefer at instant t: the last entry stamped at or
\* before t, or the first entry when they are all ahead of t.
IsNearest(r, t, e) ==
  \/ /\ e.at <= t
     /\ \A f \in r : f.at <= t => f.seq <= e.seq
  \/ \A f \in r : f.at > t /\ e.seq <= f.seq

\* Mutant: with nothing due, show the newest entry instead of the earliest.
FallbackToNewest(r, t) ==
  CHOOSE e \in r : \/ e.at <= t /\ \A f \in r : f.at <= t => f.seq <= e.seq
                  \/ \A f \in r : f.at > t /\ f.seq <= e.seq

select_nearest_not_after(r, t) == CHOOSE e \in r : IsNearest(r, t, e)

\* publish_arc's copy-on-write of the ring: re-anchor on a backwards stamp,
\* else drop what the clock has consumed; then push, then enforce the ceiling.
Tail(r) == CHOOSE e \in r : \A f \in r : f.seq <= e.seq
\* Mutant: a backwards stamp is appended like any other.
NeverReanchor(r, at) == FALSE
BackwardsStamp(r, at) == r # {} /\ at < Tail(r).at
\* Mutant: prunes the frame at the watermark too.
KeptStrictly(r, wm) == {e \in r : e.seq > wm}
Kept(r, wm) == {e \in r : e.seq >= wm}
\* Mutant: the ceiling is not enforced.
DropNothing(r) == r
DropOldest(r) ==
  IF Cardinality(r) <= RING_CAPACITY THEN r
  ELSE {e \in r : \E f \in r : f.seq < e.seq}
NextRing(r, e, wm) ==
  DropOldest((IF BackwardsStamp(r, e.at) THEN {} ELSE Kept(r, wm)) \cup {e})

\* The TileRead for frame f in state s (read_at and read share the match).
TileRead(f, s) ==
  CASE s = "Live" -> [kind |-> "Fresh", frame |-> f, state |-> s]
    [] s \in {"Stale", "Reconnecting"} -> [kind |-> "Held", frame |-> f, state |-> s]
    [] s = "NoSignal" ->
         IF Policy = "HoldForever"
         THEN [kind |-> "Held", frame |-> f, state |-> s]
         ELSE [kind |-> "NoSignal", frame |-> NoFrame, state |-> s]
NoSignalRead == [kind |-> "NoSignal", frame |-> NoFrame, state |-> "NoSignal"]

Init ==
  /\ seq = 0 /\ slot = NoFrame /\ ring = {}
  /\ watermark = NO_LATCH_SEQ /\ lastAt = NEVER_PUBLISHED
  /\ ppc = "idle" /\ pub = NoFrame /\ pubWm = NO_LATCH_SEQ
  /\ now = [r \in Readers |-> 0]
  /\ rpc = [r \in Readers |-> "idle"]
  /\ snap = [r \in Readers |-> {}]
  /\ latched = [r \in Readers |-> 0]
  /\ shown = [r \in Readers |-> NoSignalRead]

-----------------------------------------------------------------------------
\* The producer, inside publish_arc.

\* Mutant: records the instant first instead of last.
PublishInstantFirst(at) ==
  /\ ppc = "idle" /\ seq < MaxSeq
  /\ seq' = seq + 1
  /\ pub' = [at |-> at, seq |-> seq + 1]
  /\ lastAt' = at
  /\ ppc' = "slot"
  /\ UNCHANGED <<slot, ring, watermark, pubWm, readVars>>

\* LatestSlot::publish_arc, first half: stamp the sequence.
PublishStamp(at) ==
  /\ ppc = "idle" /\ seq < MaxSeq
  /\ seq' = seq + 1
  /\ pub' = [at |-> at, seq |-> seq + 1]
  /\ ppc' = "slot"
  /\ UNCHANGED <<slot, ring, watermark, lastAt, pubWm, readVars>>

\* LatestSlot::publish_arc, second half: store the value.
PublishSlot ==
  /\ ppc = "slot"
  /\ slot' = pub
  /\ ppc' = "watermark"
  /\ UNCHANGED <<seq, ring, watermark, lastAt, pub, pubWm, readVars>>

\* The Relaxed load of the watermark: coherence only promises a value at least
\* as new as the last one this thread loaded.
PublishLoadWatermark ==
  /\ ppc = "watermark"
  /\ \E w \in pubWm..watermark : pubWm' = w
  /\ ppc' = "ring"
  /\ UNCHANGED <<storeVars, pub, readVars>>

\* ring.rcu: the readers never write the ring, so one attempt succeeds.
PublishRing ==
  /\ ppc = "ring"
  /\ ring' = NextRing(ring, pub, pubWm)
  /\ ppc' = "stampAt"
  /\ UNCHANGED <<seq, slot, watermark, lastAt, pub, pubWm, readVars>>

\* last_frame_at_ns.store, last of all.
PublishLastAt ==
  /\ ppc = "stampAt"
  /\ lastAt' = pub.at
  /\ ppc' = "idle"
  /\ UNCHANGED <<seq, slot, ring, watermark, pub, pubWm, readVars>>

-----------------------------------------------------------------------------
\* The readers.

\* A reader's monotonic clock moves on between two of its calls.
Advance(r) ==
  /\ rpc[r] = "idle" /\ now[r] < MaxNow
  /\ now' = [now EXCEPT ![r] = @ + 1]
  /\ UNCHANGED <<storeVars, prodVars, rpc, snap, latched, shown>>

\* read_at and state_at begin by loading the ring snapshot.
LoadRing(r, op) ==
  /\ op \in {"read_at", "state_at"}
  /\ rpc[r] = "idle"
  /\ snap' = [snap EXCEPT ![r] = ring]
  /\ rpc' = [rpc EXCEPT ![r] = op]
  /\ UNCHANGED <<storeVars, prodVars, now, latched, shown>>

\* An empty snapshot reads NoSignal and latches nothing.
ReadEmptyRing(r) ==
  /\ rpc[r] \in {"read_at", "state_at"} /\ snap[r] = {}
  /\ shown' = IF rpc[r] = "read_at" THEN [shown EXCEPT ![r] = NoSignalRead]
                                    ELSE shown
  /\ rpc' = [rpc EXCEPT ![r] = "idle"]
  /\ UNCHANGED <<storeVars, prodVars, now, snap, latched>>

\* latch_and_advance: select from the snapshot, then fetch_max the watermark;
\* read_at also hands the selected frame back.
Latch(r) ==
  /\ rpc[r] \in {"read_at", "state_at"} /\ snap[r] # {}
  /\ LET selected == select_nearest_not_after(snap[r], now[r])
     IN  /\ watermark' = IF selected.seq > watermark THEN selected.seq ELSE watermark
         /\ latched' = [latched EXCEPT ![r] = selected.seq]
         /\ shown' = IF rpc[r] = "read_at"
                     THEN [shown EXCEPT ![r] =
                             TileRead(selected, classify(now[r] - selected.at))]
                     ELSE shown
  /\ rpc' = [rpc EXCEPT ![r] = "idle"]
  /\ snap' = [snap EXCEPT ![r] = {}]
  /\ UNCHANGED <<seq, slot, ring, lastAt, prodVars, now>>

\* read: load the slot ...
ReadLoadSlot(r) ==
  /\ rpc[r] = "idle"
  /\ IF slot = NoFrame
     THEN /\ shown' = [shown EXCEPT ![r] = NoSignalRead]
          /\ UNCHANGED <<rpc, snap>>
     ELSE /\ snap' = [snap EXCEPT ![r] = {slot}]
          /\ rpc' = [rpc EXCEPT ![r] = "read"]
          /\ UNCHANGED shown
  /\ UNCHANGED <<storeVars, prodVars, now, latched>>

\* ... and then the last-frame instant, on which the state is classified.
ReadState(r) ==
  /\ rpc[r] = "read"
  /\ LET frame == CHOOSE f \in snap[r] : TRUE
         state == IF lastAt = NEVER_PUBLISHED THEN "NoSignal"
                  ELSE classify(now[r] - lastAt)
     IN  shown' = [shown EXCEPT ![r] = TileRead(frame, state)]
  /\ rpc' = [rpc EXCEPT ![r] = "idle"]
  /\ snap' = [snap EXCEPT ![r] = {}]
  /\ UNCHANGED <<storeVars, prodVars, now, latched>>

-----------------------------------------------------------------------------
Publish ==
  \/ \E at \in Stamp : PublishStamp(at)
  \/ PublishSlot \/ PublishLoadWatermark \/ PublishRing \/ PublishLastAt

Sample(r) ==
  \/ Advance(r)
  \/ \E op \in {"read_at", "state_at"} : LoadRing(r, op)
  \/ ReadEmptyRing(r) \/ Latch(r)

Read(r) == ReadLoadSlot(r) \/ ReadState(r)

Next == Publish \/ \E r \in Readers : Sample(r) \/ Read(r)

Spec == Init /\ [][Next]_vars

-----------------------------------------------------------------------------
(* Properties *)

\* Every variable keeps its type; the ring holds at most RING_CAPACITY frames
\* (invariant #9: queues drop, never grow).
TypeOK ==
  /\ seq \in Seqs /\ slot \in Entry
  /\ ring \subseteq Entry /\ Cardinality(ring) <= RING_CAPACITY
  /\ watermark \in Seqs /\ lastAt \in Stamp \cup {NEVER_PUBLISHED}
  /\ ppc \in {"idle", "slot", "watermark", "ring", "stampAt"}
  /\ pub \in Entry /\ pubWm \in Seqs
  /\ now \in [Readers -> 0..MaxNow]
  /\ rpc \in [Readers -> {"idle", "read_at", "state_at", "read"}]
  /\ snap \in [Readers -> SUBSET Entry]
  /\ latched \in [Readers -> Seqs]
  /\ shown \in [Readers -> [kind : {"Fresh", "Held", "NoSignal"},
                             frame : Entry, state : SourceState]]

\* r lists its entries in the same order by sequence and by stamp, and no two
\* share a sequence.
Ordered(r) ==
  \A e, f \in r : /\ e.seq = f.seq => e = f
                  /\ e.seq < f.seq => e.at <= f.at

\* The ring, and any snapshot a reader still holds, is ordered by media time
\* across reconnects, prunes and evictions, so the partition_point of
\* select_nearest_not_after is a legal binary search (tile.rs).
RingOrdered ==
  /\ Ordered(ring)
  /\ \A r \in Readers : Ordered(snap[r])

\* The instant is recorded last: a tile that reports primed (is_primed, the
\* start-up prime-wait) has its frame in the slot and in the ring.
PrimedHasPicture ==
  lastAt # NEVER_PUBLISHED => slot # NoFrame /\ ring # {}

\* What a reader finds in the ring is sorted, and is there once the tile says
\* so (tile.rs, is_primed and select_nearest_not_after).
RingReadable == RingOrdered /\ PrimedHasPicture

\* What a publish may do to the picture of reader r: unless the frame restarts
\* the ring or the ceiling is hit, the frame r would be shown is still there,
\* or a newer one that is also due replaces it.
KeepsPicture(r) ==
  LET old == select_nearest_not_after(ring, now[r])
      new == select_nearest_not_after(ring', now[r])
  IN  new = old \/ (new = pub /\ new.at <= now[r])

\* Pruning never drops the frame a reader is showing: the watermark a publish
\* prunes by is at most the frame the reader's clock selects, reconnect races
\* included (latch_and_advance: "can never be pruned out from under the
\* caller"; the cross-generation regression test).
PruneKeepsPicture ==
  [][ (ring' # ring /\ ring # {} /\ ~BackwardsStamp(ring, pub.at)
       /\ Cardinality(ring) < RING_CAPACITY)
      => \A r \in Readers : KeepsPicture(r) ]_vars

\* A reader's clock never runs backwards, and neither does the picture: the
\* frames it latches have non-decreasing publish sequence across prunes,
\* evictions and reconnects.
PictureNeverRegresses ==
  [][\A r \in Readers : latched'[r] >= latched[r]]_vars

(* The inductive invariant behind these properties *)

\* n is no newer than the frame ring rg gives at instant t.
Behind(n, rg, t) == \A f \in rg : IsNearest(rg, t, f) => n <= f.seq

\* Where publish_arc is, and what it has made visible so far.
PublishInv ==
  /\ \A e \in ring : 0 < e.seq /\ e.seq <= seq
  /\ ppc # "idle" => 0 < pub.seq /\ pub.seq = seq
  /\ ppc \in {"slot", "watermark", "ring"} => \A e \in ring : e.seq < pub.seq
  /\ ppc \in {"watermark", "ring", "stampAt"} => slot # NoFrame
  /\ ppc = "stampAt" => ring # {}

\* The watermark a publish prunes by was latched by some reader.
WatermarkInv ==
  /\ pubWm <= watermark
  /\ watermark = NO_LATCH_SEQ \/ \E r \in Readers : watermark <= latched[r]

\* A reader's last latch, and the latch it is about to make from its snapshot,
\* are no newer than what the current ring would give it.
LatchInv ==
  \A r \in Readers :
    /\ latched[r] <= seq
    /\ rpc[r] = "read" => snap[r] # {}
    /\ Behind(latched[r], ring, now[r])
    /\ rpc[r] \in {"read_at", "state_at"} =>
         /\ Behind(latched[r], snap[r], now[r])
         /\ \A e \in snap[r] :
              /\ e.seq <= seq
              /\ IsNearest(snap[r], now[r], e) => Behind(e.seq, ring, now[r])

StoreInv ==
  /\ TypeOK /\ IsFiniteSet(ring)
  /\ RingOrdered /\ PrimedHasPicture
  /\ PublishInv /\ WatermarkInv /\ LatchInv
=============================================================================
