------------------------- MODULE GuardedSourceProofs -------------------------
(***************************************************************************)
(* The muxer's timeline is continuous, for every slate, every set of input *)
(* steps and any number of calls, outages and restarts (SeamsKeepTime);    *)
(* and copying resumes at a strict IDR only (ReentersOnIdr).               *)
(*                                                                         *)
(* SeamInv ties each accumulator to the last packet of its stream: which   *)
(* run that packet belongs to, where in the slate it is from, and that the *)
(* offset in force still explains its stamp.                               *)
(***************************************************************************)
EXTENDS GuardedSource, TLAPS

Accs == [last : Int \cup {None}, offset : Int]

Live  == [from |-> "live",  outage |-> outages]
Baked == [from |-> "slate", outage |-> outages]

Spent == [calls : Nat, samples : Nat, restarts : Nat]

\* The part of TypeOK the timeline depends on.
SeamTypes ==
  /\ input \in [Streams -> Int] /\ spent \in Spent
  /\ emitting \in {"live", "slate"}
  /\ acc \in [Streams -> Accs]
  /\ cursor \in [Streams -> [pos : Nat, rebased : BOOLEAN]]
  /\ reentry \in BOOLEAN /\ turn \in BOOLEAN /\ outages \in Nat
  /\ out \in [Streams -> Emitted \cup {None}]

\* The accumulator remembers the stamp of the last packet, and that packet
\* belongs to no outage still to come.
LastIsOut ==
  \A s \in Streams : out[s] \in Emitted =>
    /\ acc[s].last = out[s].dts
    /\ out[s].run.outage <= outages

\* Live: the run goes on, and its offset never lifted the stamps too little.
\* Only audio that has not come back yet is still in the run before.
LiveInv ==
  \A s \in Streams : emitting = "live" /\ out[s] # None =>
    IF s = "audio" /\ reentry THEN out[s].run # Live
    ELSE out[s].run = Live /\ out[s].raw + acc[s].offset <= out[s].dts

\* On slate: no packet is of the run a recovery would open, a packet of this
\* outage is from the ring, and past the head of the ring the last packet is
\* the one before the cursor, unclamped.
SlateInv ==
  \A s \in Streams : emitting = "slate" =>
    /\ out[s] # None => out[s].run # Live
    /\ out[s] # None /\ out[s].run = Baked => \E k \in DOMAIN Slate[s] : out[s].raw = Slate[s][k]
    /\ cursor[s].pos = 0 => ~cursor[s].rebased
    /\ cursor[s].pos > 0 =>
         /\ cursor[s].pos < Len(Slate[s])
         /\ out[s] \in Emitted /\ out[s].run = Baked
         /\ out[s].raw = Slate[s][cursor[s].pos]
         /\ Unclamped(out[s], acc[s].offset)

SeamInv == SeamTypes /\ LastIsOut /\ LiveInv /\ SlateInv

-----------------------------------------------------------------------------
(* The accumulator. *)

\* restamp moves a stamp up only to the tick after the last one, and leaves
\* the offset (restamp.rs, restamp).
LEMMA RestampFacts ==
  ASSUME NEW a \in Accs, NEW raw \in Int
  PROVE  LET b == restamp(a, raw) IN
         /\ b \in Accs /\ b.last \in Int /\ b.offset = a.offset
         /\ raw + a.offset <= b.last
         /\ a.last # None => a.last < b.last
         /\ a.last # None /\ raw + a.offset <= a.last + 1 => b.last = a.last + 1
         /\ a.last = None \/ a.last < raw + a.offset => b.last = raw + a.offset
  BY InputAssumption DEF Accs, restamp, AtLeast

\* rebase makes the next packet follow the last one (restamp.rs, rebase).
LEMMA RebaseFacts ==
  ASSUME NEW a \in Accs, NEW raw \in Int
  PROVE  LET b == rebase(a, raw) IN
         /\ b \in Accs /\ b.last = a.last
         /\ a.last # None => raw + b.offset = a.last + 1
  BY InputAssumption DEF Accs, rebase

\* A packet of stream s and raw stamp raw is emitted under offset: no other
\* stream is touched, the stamps rise, and only a stamp that is due moves.
Emits(s, raw, gap, from, outage, offset) ==
  /\ acc' \in [Streams -> Accs] /\ out' \in [Streams -> Emitted \cup {None}]
  /\ \A t \in Streams \ {s} : acc'[t] = acc[t] /\ out'[t] = out[t]
  /\ out'[s] \in Emitted
  /\ out'[s].raw = raw /\ out'[s].gap = gap
  /\ out'[s].run = [from |-> from, outage |-> outage]
  /\ acc'[s].last = out'[s].dts /\ acc'[s].offset = offset
  /\ out'[s].pts >= out'[s].dts
  /\ raw + offset <= out'[s].dts
  /\ acc[s].last # None => acc[s].last < out'[s].dts
  /\ acc[s].last # None /\ raw + offset <= acc[s].last + 1 => out'[s].dts = acc[s].last + 1
  /\ acc[s].last = None \/ acc[s].last < raw + offset =>
       out'[s].dts = raw + offset /\ out'[s].pts = out'[s].dts + gap

\* What one emission does, whatever accumulator it starts from (restamp_emit).
LEMMA EmitFacts ==
  ASSUME SeamTypes, NEW s \in Streams, NEW a \in Accs, NEW raw \in Int, NEW gap \in Nat,
         NEW from \in {"live", "slate"}, NEW outage \in Nat,
         Emit(s, a, raw, gap, from, outage), a.last = acc[s].last
  PROVE  Emits(s, raw, gap, from, outage, a.offset)
<1> DEFINE b == restamp(a, raw)
           e == [raw |-> raw, gap |-> gap, dts |-> b.last,
                 pts |-> AtLeast(raw + gap + a.offset, b.last),
                 run |-> [from |-> from, outage |-> outage], nth |-> spent.calls]
<1>1. acc' = [acc EXCEPT ![s] = b] /\ out' = [out EXCEPT ![s] = e]
  BY DEF Emit
<1>2. /\ b \in Accs /\ b.last \in Int /\ b.offset = a.offset
      /\ raw + a.offset <= b.last
      /\ a.last # None => a.last < b.last
      /\ a.last # None /\ raw + a.offset <= a.last + 1 => b.last = a.last + 1
      /\ a.last = None \/ a.last < raw + a.offset => b.last = raw + a.offset
  BY RestampFacts
<1>3. a.offset \in Int /\ e.pts \in Int /\ e.pts >= b.last
      /\ (b.last = raw + a.offset => e.pts = b.last + gap)
  BY <1>2 DEF Accs, AtLeast
<1>4. e \in Emitted
  BY <1>2, <1>3 DEF Emitted, Run, SeamTypes, Spent
<1>5. acc'[s] = b /\ out'[s] = e
  BY <1>1 DEF SeamTypes
<1>6. /\ acc' \in [Streams -> Accs] /\ out' \in [Streams -> Emitted \cup {None}]
      /\ \A t \in Streams \ {s} : acc'[t] = acc[t] /\ out'[t] = out[t]
  BY <1>1, <1>2, <1>4 DEF SeamTypes
<1> HIDE DEF b
<1> QED
  BY <1>2, <1>3, <1>4, <1>5, <1>6 DEF Emits

\* Emission without a new anchor.
LEMMA EmitRunsOn ==
  ASSUME SeamTypes, NEW s \in Streams, NEW raw \in Int, NEW gap \in Nat,
         NEW from \in {"live", "slate"}, NEW outage \in Nat,
         Emit(s, acc[s], raw, gap, from, outage)
  PROVE  acc[s].offset \in Int /\ Emits(s, raw, gap, from, outage, acc[s].offset)
<1>1. acc[s] \in Accs
  BY DEF SeamTypes
<1>2. QED
  BY <1>1, EmitFacts DEF Accs

\* Emission at a seam: the packet lands one tick after the last one.
LEMMA EmitAtSeam ==
  ASSUME SeamTypes, NEW s \in Streams, NEW raw \in Int, NEW gap \in Nat,
         NEW from \in {"live", "slate"}, NEW outage \in Nat,
         Emit(s, rebase(acc[s], raw), raw, gap, from, outage)
  PROVE  \E offset \in Int :
           /\ Emits(s, raw, gap, from, outage, offset)
           /\ out'[s].dts = raw + offset
           /\ acc[s].last # None => out'[s].dts = acc[s].last + 1
<1> DEFINE a == rebase(acc[s], raw)
<1>1. acc[s] \in Accs
  BY DEF SeamTypes
<1>2. /\ a \in Accs /\ a.last = acc[s].last
      /\ a.last # None => raw + a.offset = a.last + 1
  BY <1>1, RebaseFacts
<1>3. a.offset \in Int /\ a.last \in Int \cup {None}
  BY <1>2 DEF Accs
<1> HIDE DEF a
<1>4. Emit(s, a, raw, gap, from, outage)
  BY DEF a
<1>5. Emits(s, raw, gap, from, outage, a.offset)
  BY <1>2, <1>3, <1>4, EmitFacts
<1>6. out'[s].dts = raw + a.offset /\ (acc[s].last # None => out'[s].dts = acc[s].last + 1)
  BY <1>2, <1>3, <1>5 DEF Emits
<1> QED
  BY <1>3, <1>5, <1>6

-----------------------------------------------------------------------------
(* One action at a time. *)

Continues ==
  \A s \in Streams : out[s] # None /\ out'[s] # out[s] => Follows(s, out[s], out'[s])

\* What every action keeps of the variables around the seam.
Around == input' \in [Streams -> Int] /\ spent' \in Spent

\* The ring of a stream that has one: integers that rise.
LEMMA Ring ==
  ASSUME NEW s \in Streams, NEW k \in DOMAIN Slate[s]
  PROVE  /\ k \in Nat /\ k >= 1 /\ k <= Len(Slate[s]) /\ Len(Slate[s]) \in Nat
         /\ Slate[s][k] \in Int /\ 1 \in DOMAIN Slate[s] /\ Slate[s][1] <= Slate[s][k]
<1>1. Slate[s] \in Seq(Int)
  BY SlateAssumption
<1>2. /\ k \in Nat /\ k >= 1 /\ k <= Len(Slate[s]) /\ Len(Slate[s]) \in Nat
      /\ Slate[s][k] \in Int /\ 1 \in DOMAIN Slate[s]
  BY <1>1
<1>3. Slate[s][1] <= Slate[s][k]
  <2>1. CASE k = 1
    BY <2>1, <1>2
  <2>2. CASE k # 1
    <3>1. 1 < k
      BY <2>2, <1>2
    <3>2. Slate[s][1] < Slate[s][k]
      BY <3>1, <1>2, SlateAssumption
    <3>3. Slate[s][1] \in Int
      BY <1>1, <1>2
    <3>4. QED
      BY <3>2, <3>3, <1>2
  <2>3. QED
    BY <2>1, <2>2
<1>4. QED
  BY <1>2, <1>3

\* A head of the ring lands on the next tick; past the head the raw distance is
\* kept (next_slate_stream).
LEMMA SlateAUStep ==
  ASSUME SeamInv, Around, emitting = "slate", emitting' = "slate", outages' = outages,
         reentry' = reentry, turn' \in BOOLEAN,
         NEW s \in Streams, Slate[s] # <<>>, SlateAU(s, cursor[s], outages)
  PROVE  SeamInv' /\ Continues
<1> DEFINE c == cursor[s]
           n == c.pos + 1
<1> USE DEF Streams
<1>1. /\ SeamTypes /\ LastIsOut /\ SlateInv
      /\ c \in [pos : Nat, rebased : BOOLEAN] /\ acc[s] \in Accs
      /\ out[s] \in Emitted \cup {None} /\ outages \in Nat
  BY DEF SeamInv, SeamTypes
<1>2. n \in DOMAIN Slate[s] /\ n \in Nat
  <2>1. Slate[s] \in Seq(Int) /\ Slate[s] # <<>>
    BY SlateAssumption
  <2>2. 1 \in DOMAIN Slate[s]
    BY <2>1
  <2>3. c.pos \in Nat /\ (c.pos > 0 => c.pos < Len(Slate[s])) /\ Len(Slate[s]) \in Nat
    BY <1>1, <2>1 DEF SlateInv
  <2>4. QED
    BY <2>1, <2>2, <2>3
<1>3. n <= Len(Slate[s]) /\ Len(Slate[s]) \in Nat /\ Slate[s][n] \in Int /\ Slate[s][1] <= Slate[s][n]
  BY <1>2, Ring
<1>4. \E offset \in Int :
        /\ Emits(s, Slate[s][n], 0, "slate", outages, offset)
        /\ out'[s].dts = Slate[s][n] + offset
        /\ out[s] # None => Follows(s, out[s], out'[s])
  <2>1. CASE c.pos = 0
    <3>1. ~c.rebased /\ n = 1
      BY <2>1, <1>1 DEF SlateInv
    <3>2. Emit(s, rebase(acc[s], Slate[s][1]), Slate[s][1], 0, "slate", outages)
      BY <3>1, <2>1 DEF SlateAU
    <3>3. PICK offset \in Int :
            /\ Emits(s, Slate[s][1], 0, "slate", outages, offset)
            /\ out'[s].dts = Slate[s][1] + offset
            /\ acc[s].last # None => out'[s].dts = acc[s].last + 1
      BY <3>1, <3>2, <1>1, <1>3, EmitAtSeam
    <3>4. ASSUME out[s] # None PROVE Follows(s, out[s], out'[s])
      <4>1. out[s] \in Emitted /\ out'[s] \in Emitted /\ acc[s].last = out[s].dts
        BY <3>3, <3>4, <1>1 DEF Emits, LastIsOut
      <4>2. out[s].dts \in Int /\ out[s].raw \in Int /\ out[s].dts # None
        BY <4>1, InputAssumption DEF Emitted
      <4>3. out'[s].dts = out[s].dts + 1 /\ out'[s].pts >= out'[s].dts
        BY <4>1, <4>2, <3>3 DEF Emits
      <4>4. ASSUME out'[s].run = out[s].run PROVE out'[s].raw <= out[s].raw
        <5>1. out[s].run = Baked
          BY <4>4, <3>3 DEF Emits, Baked
        <5>2. PICK k \in DOMAIN Slate[s] : out[s].raw = Slate[s][k]
          BY <5>1, <3>4, <1>1 DEF SlateInv
        <5>3. Slate[s][1] <= Slate[s][k]
          BY Ring
        <5>4. QED
          BY <5>2, <5>3, <3>3 DEF Emits
      <4>5. out'[s].raw \in Int
        BY <4>1 DEF Emitted
      <4>6. QED
        BY <4>2, <4>3, <4>4, <4>5 DEF Follows
    <3>5. QED
      BY <3>1, <3>3, <3>4
  <2>2. CASE c.pos > 0
    <3>1. /\ out[s] \in Emitted /\ out[s].run = Baked /\ out[s].raw = Slate[s][c.pos]
          /\ Unclamped(out[s], acc[s].offset) /\ c.pos < Len(Slate[s])
      BY <2>2, <1>1 DEF SlateInv
    <3>2. Slate[s][c.pos] < Slate[s][n] /\ c.pos \in DOMAIN Slate[s]
      <4>1. c.pos \in Nat /\ c.pos < n
        BY <1>1
      <4>2. c.pos \in DOMAIN Slate[s]
        BY <4>1, <3>1, <2>2, SlateAssumption
      <4>3. QED
        BY <4>1, <4>2, <1>2, SlateAssumption
    <3>3. Emit(s, acc[s], Slate[s][n], 0, "slate", outages)
      BY <2>2, <1>1 DEF SlateAU
    <3>4. acc[s].offset \in Int /\ Emits(s, Slate[s][n], 0, "slate", outages, acc[s].offset)
      BY <3>3, <1>1, <1>3, EmitRunsOn
    <3>5. Slate[s][c.pos] \in Int
      BY <3>2, Ring
    <3>6. /\ out[s].dts \in Int /\ out[s].dts = Slate[s][c.pos] + acc[s].offset
      BY <3>1 DEF Emitted, Unclamped
    <3>7. acc[s].last = None \/ acc[s].last < Slate[s][n] + acc[s].offset
      <4>1. acc[s].last = out[s].dts
        BY <3>1, <1>1 DEF LastIsOut
      <4>2. QED
        BY <4>1, <3>2, <3>4, <3>5, <3>6, <1>3
    <3>8. out'[s].dts = Slate[s][n] + acc[s].offset /\ out'[s].pts = out'[s].dts + 0
      BY <3>4, <3>7 DEF Emits
    <3>9. Follows(s, out[s], out'[s])
      <4>1. /\ out'[s].raw = Slate[s][n] /\ out'[s].gap = 0
            /\ out'[s].run = out[s].run
        BY <3>1, <3>4 DEF Emits, Baked
      <4>2. out'[s].dts - out[s].dts = out'[s].raw - out[s].raw /\ out'[s].raw > out[s].raw
        BY <4>1, <3>1, <3>2, <3>4, <3>5, <3>6, <3>8, <1>3
      <4>3. out'[s].dts \in Int /\ out'[s].dts > out[s].dts
        BY <3>2, <3>4, <3>5, <3>6, <3>8, <1>3
      <4>4. out'[s].pts - out'[s].dts = out'[s].gap /\ out'[s].pts >= out'[s].dts
        BY <4>1, <4>3, <3>8
      <4>5. ~(out'[s].raw <= out[s].raw)
        BY <4>1, <3>1, <3>2, <3>5, <1>3
      <4>6. QED
        BY <4>1, <4>2, <4>3, <4>4, <4>5 DEF Follows
    <3>10. QED
      BY <3>4, <3>8, <3>9
  <2>3. QED
    BY <2>1, <2>2, <1>1
<1>5. PICK offset \in Int :
        /\ Emits(s, Slate[s][n], 0, "slate", outages, offset)
        /\ out'[s].dts = Slate[s][n] + offset
        /\ out[s] # None => Follows(s, out[s], out'[s])
  BY <1>4
<1>6. /\ cursor' \in [Streams -> [pos : Nat, rebased : BOOLEAN]]
      /\ \A t \in Streams \ {s} : cursor'[t] = cursor[t]
      /\ cursor'[s] = IF n < Len(Slate[s]) THEN [pos |-> n, rebased |-> TRUE]
                      ELSE [pos |-> 0, rebased |-> FALSE]
  BY <1>1, <1>2 DEF SlateAU, SeamTypes
<1>7. SeamTypes'
  BY <1>1, <1>5, <1>6 DEF SeamTypes, Around, Emits
<1>8. LastIsOut'
  <2>1. out'[s].run.outage = outages
    BY <1>5 DEF Emits
  <2>2. QED
    BY <2>1, <1>1, <1>5 DEF LastIsOut, Emits
<1>9. LiveInv'
  BY DEF LiveInv
<1>10. SlateInv'
  <2>1. Live' = Live /\ Baked' = Baked /\ Baked # Live /\ out'[s].run = Baked
    BY <1>5 DEF Live, Baked, Emits
  <2>2. ASSUME NEW t \in Streams \ {s}
        PROVE  out'[t] = out[t] /\ acc'[t] = acc[t] /\ cursor'[t] = cursor[t]
    BY <1>5, <1>6 DEF Emits
  <2>3. /\ out'[s].raw = Slate[s][n] /\ out'[s] \in Emitted
        /\ Unclamped(out'[s], acc'[s].offset)
    BY <1>5 DEF Emits, Unclamped
  <2>4. /\ cursor'[s].pos = 0 => ~cursor'[s].rebased
        /\ cursor'[s].pos > 0 => cursor'[s].pos = n /\ n < Len(Slate[s])
    BY <1>2, <1>6
  <2>5. ASSUME NEW t \in Streams PROVE
          /\ out'[t] # None => out'[t].run # Live'
          /\ out'[t] # None /\ out'[t].run = Baked' => \E k \in DOMAIN Slate[t] : out'[t].raw = Slate[t][k]
          /\ cursor'[t].pos = 0 => ~cursor'[t].rebased
          /\ cursor'[t].pos > 0 =>
               /\ cursor'[t].pos < Len(Slate[t])
               /\ out'[t] \in Emitted /\ out'[t].run = Baked'
               /\ out'[t].raw = Slate[t][cursor'[t].pos]
               /\ Unclamped(out'[t], acc'[t].offset)
    <3>1. CASE t = s
      BY <3>1, <1>2, <2>1, <2>3, <2>4
    <3>2. CASE t # s
      BY <3>2, <2>1, <2>2, <1>1 DEF SlateInv
    <3>3. QED
      BY <3>1, <3>2
  <2>6. QED
    BY <2>5 DEF SlateInv, Unclamped
<1>11. Continues
  BY <1>5 DEF Continues, Emits
<1>12. QED
  BY <1>7, <1>8, <1>9, <1>10, <1>11 DEF SeamInv

\* The slate opens with a video AU one tick after the last copied packet, and
\* no packet so far is of the new outage (enter_slate).
LEMMA EnterSlateStep ==
  ASSUME SeamInv, Around, emitting = "live", EnterSlate
  PROVE  SeamInv' /\ Continues
<1> USE DEF Streams
<1> DEFINE raw == Slate["video"][1]
<1>1. /\ SeamTypes /\ LastIsOut /\ LiveInv /\ acc \in [Streams -> Accs]
      /\ out \in [Streams -> Emitted \cup {None}] /\ outages \in Nat
  BY DEF SeamInv, SeamTypes
<1>2. 1 \in DOMAIN Slate["video"] /\ raw \in Int
  <2>1. Slate["video"] \in Seq(Int) /\ Slate["video"] # <<>>
    BY SlateAssumption
  <2>2. QED
    BY <2>1
<1>3. Emit("video", rebase(acc["video"], raw), raw, 0, "slate", outages + 1)
  BY DEF EnterSlate
<1>4. PICK offset \in Int :
        /\ Emits("video", raw, 0, "slate", outages + 1, offset)
        /\ out'["video"].dts = raw + offset
        /\ acc["video"].last # None => out'["video"].dts = acc["video"].last + 1
  BY <1>1, <1>2, <1>3, EmitAtSeam
<1>5. /\ cursor' \in [Streams -> [pos : Nat, rebased : BOOLEAN]]
      /\ cursor'["audio"] = [pos |-> 0, rebased |-> FALSE]
      /\ cursor'["video"] = IF Len(Slate["video"]) > 1 THEN [pos |-> 1, rebased |-> TRUE]
                            ELSE [pos |-> 0, rebased |-> FALSE]
      /\ emitting' = "slate" /\ outages' = outages + 1 /\ reentry' = reentry
      /\ turn' \in BOOLEAN
  BY DEF EnterSlate
<1>6. ASSUME NEW s \in Streams, out[s] # None
      PROVE  out[s] \in Emitted /\ acc[s].last = out[s].dts /\ out[s].run.outage < outages + 1
  <2>1. out[s] \in Emitted
    BY <1>1, <1>6
  <2>2. acc[s].last = out[s].dts /\ out[s].run.outage <= outages
    BY <2>1, <1>1 DEF LastIsOut
  <2>3. out[s].run.outage \in Nat
    BY <2>1 DEF Emitted, Run
  <2>4. QED
    BY <2>1, <2>2, <2>3, <1>1
<1>7. out'["video"].run.outage = outages + 1 /\ out'["video"].run.from = "slate"
      /\ out'["video"].raw = raw /\ out'["audio"] = out["audio"] /\ acc'["audio"] = acc["audio"]
      /\ out'["video"] \in Emitted
  BY <1>4 DEF Emits
<1>8. SeamTypes'
  BY <1>1, <1>4, <1>5 DEF SeamTypes, Around, Emits
<1>9. LastIsOut'
  <2>1. acc'["video"].last = out'["video"].dts /\ out'["video"].run.outage <= outages'
    BY <1>1, <1>4, <1>5, <1>7 DEF Emits
  <2>2. out'["audio"] \in Emitted =>
          acc'["audio"].last = out'["audio"].dts /\ out'["audio"].run.outage <= outages'
    <3>1. out["audio"] \in Emitted => out["audio"].run.outage \in Nat
      BY DEF Emitted, Run
    <3>2. QED
      BY <3>1, <1>1, <1>5, <1>7 DEF LastIsOut
  <2>3. QED
    BY <2>1, <2>2 DEF LastIsOut
<1>10. LiveInv'
  BY <1>5 DEF LiveInv
<1>11. SlateInv'
  <2>1. Live'.outage = outages + 1 /\ Baked' = out'["video"].run /\ out'["video"].run # Live'
    BY <1>4, <1>5 DEF Live, Baked, Emits
  <2>2. out'["audio"] # None => out'["audio"].run # Live' /\ out'["audio"].run # Baked'
    <3>1. ASSUME out'["audio"] # None PROVE out'["audio"].run.outage # outages + 1
      <4>1. out["audio"] # None /\ "audio" \in Streams
        BY <3>1, <1>7
      <4>2. out["audio"].run.outage < outages + 1 /\ out["audio"] \in Emitted
        BY <4>1, <1>6
      <4>3. out["audio"].run.outage \in Nat
        BY <4>2 DEF Emitted, Run
      <4>4. QED
        BY <4>2, <4>3, <1>1, <1>7
    <3>2. QED
      BY <3>1, <2>1, <1>5 DEF Live, Baked
  <2>3. out'["video"].raw = Slate["video"][1] /\ Unclamped(out'["video"], acc'["video"].offset)
    BY <1>4 DEF Emits, Unclamped
  <2>4. /\ cursor'["video"].pos = 0 => ~cursor'["video"].rebased
        /\ cursor'["video"].pos > 0 => cursor'["video"].pos = 1 /\ 1 < Len(Slate["video"])
        /\ cursor'["audio"].pos = 0 /\ ~cursor'["audio"].rebased
    BY <1>5
  <2>5. QED
    BY <1>2, <1>7, <2>1, <2>2, <2>3, <2>4 DEF SlateInv, Unclamped
<1>12. Continues
  <2>1. ASSUME out["video"] # None PROVE Follows("video", out["video"], out'["video"])
    <3>1. /\ out["video"] \in Emitted /\ acc["video"].last = out["video"].dts
          /\ out["video"].run.outage < outages + 1
      BY <2>1, <1>6
    <3>2. out["video"].dts \in Int /\ out["video"].dts # None /\ out["video"].run.outage \in Nat
      BY <3>1, InputAssumption DEF Emitted, Run
    <3>3. out'["video"].dts = out["video"].dts + 1 /\ out'["video"].pts >= out'["video"].dts
      BY <3>1, <3>2, <1>4 DEF Emits
    <3>4. out'["video"].run # out["video"].run
      BY <3>1, <3>2, <1>7, <1>1
    <3>5. QED
      BY <3>2, <3>3, <3>4 DEF Follows
  <2>2. QED
    BY <2>1, <1>7 DEF Continues
<1>13. QED
  BY <1>8, <1>9, <1>10, <1>11, <1>12 DEF SeamInv

\* Withholding a packet, or finding none, shows the next AU (next_slate).
LEMMA NextSlateStep ==
  ASSUME SeamInv, Around, emitting = "slate", NextSlate
  PROVE  SeamInv' /\ Continues
<1> DEFINE s == IF turn /\ Slate["audio"] # <<>> THEN "audio" ELSE "video"
<1>1. s \in Streams /\ Slate[s] # <<>>
  BY SlateAssumption DEF Streams
<1>2. /\ SlateAU(s, cursor[s], outages) /\ emitting' = "slate" /\ outages' = outages
      /\ reentry' = reentry /\ turn' \in BOOLEAN
  BY DEF NextSlate
<1> HIDE DEF s
<1>3. QED
  BY <1>1, <1>2, SlateAUStep

\* What an arriving packet is, and that it leaves the bookkeeping in type.
LEMMA Arrival ==
  ASSUME SeamTypes, NEW p \in Offered, Arrives(p)
  PROVE  p.stream \in Streams /\ p.dts \in Int /\ p.gap \in Nat /\ Around
<1>1. p.stream \in Streams /\ p.gap \in Nat
  BY InputAssumption DEF Offered
<1>2. p.dts \in Int
  BY InputAssumption DEF Offered, SeamTypes
<1>3. input' \in [Streams -> Int]
  BY <1>1, <1>2 DEF Arrives, SeamTypes
<1>4. spent' \in Spent
  BY DEF Arrives, SeamTypes, Spent
<1> QED
  BY <1>1, <1>2, <1>3, <1>4 DEF Around

\* A copied packet runs on under the offset of its run; only the first audio
\* packet after a recovery is anchored anew (emit_live).
LEMMA CopyStep ==
  ASSUME SeamInv, NEW p \in Offered, emitting = "live", Copy(p)
  PROVE  SeamInv' /\ Continues
<1> USE DEF Streams
<1> DEFINE s == p.stream
<1>1. /\ SeamTypes /\ LastIsOut /\ LiveInv /\ outages \in Nat
      /\ out \in [Streams -> Emitted \cup {None}] /\ acc \in [Streams -> Accs]
  BY DEF SeamInv, SeamTypes
<1>2. s \in Streams /\ p.dts \in Int /\ p.gap \in Nat /\ Around
  BY <1>1, Arrival DEF Copy
<1>3. /\ emitting' = "live" /\ outages' = outages /\ cursor' = cursor /\ turn' = turn
      /\ reentry' = (reentry /\ s # "audio")
  BY DEF Copy
<1>4. \E offset \in Int :
        /\ Emits(s, p.dts, p.gap, "live", outages, offset)
        /\ out[s] # None => Follows(s, out[s], out'[s])
  <2>1. CASE s = "audio" /\ reentry
    <3>1. Emit(s, rebase(acc[s], p.dts), p.dts, p.gap, "live", outages)
      <4>1. (IF p.stream = "audio" /\ reentry THEN rebase(acc[p.stream], p.dts) ELSE acc[p.stream])
              = rebase(acc[p.stream], p.dts)
        BY <2>1
      <4>2. Emit(p.stream, IF p.stream = "audio" /\ reentry THEN rebase(acc[p.stream], p.dts)
                           ELSE acc[p.stream], p.dts, p.gap, "live", outages)
        BY DEF Copy
      <4>3. QED
        BY <4>1, <4>2
    <3>2. PICK offset \in Int :
            /\ Emits(s, p.dts, p.gap, "live", outages, offset)
            /\ out'[s].dts = p.dts + offset
            /\ acc[s].last # None => out'[s].dts = acc[s].last + 1
      <4>1. Emit("audio", rebase(acc["audio"], p.dts), p.dts, p.gap, "live", outages)
        BY <2>1, <3>1
      <4>2. \E offset \in Int :
              /\ Emits("audio", p.dts, p.gap, "live", outages, offset)
              /\ out'["audio"].dts = p.dts + offset
              /\ acc["audio"].last # None => out'["audio"].dts = acc["audio"].last + 1
        BY <4>1, <1>1, <1>2, EmitAtSeam
      <4>3. QED
        BY <4>2, <2>1
    <3>3. ASSUME out[s] # None PROVE Follows(s, out[s], out'[s])
      <4>1. out[s] \in Emitted /\ out[s].run # Live /\ acc[s].last = out[s].dts
        BY <3>3, <2>1, <1>1, <1>2 DEF LiveInv, LastIsOut
      <4>2. out[s].dts \in Int /\ out[s].dts # None
        BY <4>1, InputAssumption DEF Emitted
      <4>3. /\ out'[s].dts = out[s].dts + 1 /\ out'[s].pts >= out'[s].dts
            /\ out'[s].run # out[s].run
        BY <4>1, <4>2, <3>2 DEF Emits, Live
      <4>4. QED
        BY <4>2, <4>3 DEF Follows
    <3>4. QED
      BY <3>2, <3>3
  <2>2. CASE ~(s = "audio" /\ reentry)
    <3>1. Emit(s, acc[s], p.dts, p.gap, "live", outages)
      BY <2>2 DEF Copy
    <3>2. acc[s].offset \in Int /\ Emits(s, p.dts, p.gap, "live", outages, acc[s].offset)
      BY <3>1, <1>1, <1>2, EmitRunsOn
    <3>3. ASSUME out[s] # None PROVE Follows(s, out[s], out'[s])
      <4>1. /\ out[s] \in Emitted /\ out[s].run = Live /\ acc[s].last = out[s].dts
            /\ out[s].raw + acc[s].offset <= out[s].dts
        BY <3>3, <2>2, <1>1, <1>2 DEF LiveInv, LastIsOut
      <4>2. out[s].dts \in Int /\ out[s].raw \in Int /\ out[s].dts # None
        BY <4>1, InputAssumption DEF Emitted
      <4>3. /\ out'[s].dts > out[s].dts /\ out'[s].pts >= out'[s].dts
            /\ out'[s].run = out[s].run /\ out'[s].raw = p.dts /\ out'[s].gap = p.gap
            /\ out'[s].dts \in Int /\ out'[s].pts \in Int
        BY <4>1, <4>2, <3>2 DEF Emits, Live, Emitted
      <4>4. ASSUME p.dts <= out[s].raw PROVE out'[s].dts = out[s].dts + 1
        <5>1. p.dts + acc[s].offset <= acc[s].last + 1
          BY <4>1, <4>2, <4>4, <3>2, <1>2
        <5>2. QED
          BY <5>1, <4>1, <4>2, <3>2 DEF Emits
      <4>5. ASSUME p.dts > out[s].raw, out[s].dts = out[s].raw + acc[s].offset
            PROVE  out'[s].dts - out[s].dts = p.dts - out[s].raw /\ out'[s].pts - out'[s].dts = p.gap
        <5>1. acc[s].last < p.dts + acc[s].offset
          BY <4>1, <4>2, <4>5, <3>2, <1>2
        <5>2. out'[s].dts = p.dts + acc[s].offset /\ out'[s].pts = out'[s].dts + p.gap
          BY <5>1, <3>2 DEF Emits
        <5>3. QED
          BY <5>2, <4>2, <4>3, <4>5, <3>2, <1>2
      <4>6. QED
        BY <4>3, <4>4, <4>5 DEF Follows, Unclamped
    <3>4. QED
      BY <3>2, <3>3
  <2>3. QED
    BY <2>1, <2>2
<1>5. PICK offset \in Int :
        /\ Emits(s, p.dts, p.gap, "live", outages, offset)
        /\ out[s] # None => Follows(s, out[s], out'[s])
  BY <1>4
<1>6. SeamTypes'
  BY <1>1, <1>2, <1>3, <1>5 DEF SeamTypes, Around, Emits
<1>7. /\ out'[s].run = Live /\ out'[s].raw + acc'[s].offset <= out'[s].dts
      /\ out'[s].run.outage = outages /\ Live' = Live
  BY <1>3, <1>5 DEF Emits, Live
<1>8. LastIsOut'
  BY <1>1, <1>3, <1>5, <1>7 DEF LastIsOut, Emits
<1>9. LiveInv'
  <2>1. ASSUME NEW t \in Streams, out'[t] # None
        PROVE  IF t = "audio" /\ reentry' THEN out'[t].run # Live'
               ELSE out'[t].run = Live' /\ out'[t].raw + acc'[t].offset <= out'[t].dts
    <3>1. CASE t = s
      BY <3>1, <1>3, <1>7
    <3>2. CASE t # s
      <4>1. out'[t] = out[t] /\ acc'[t] = acc[t]
        BY <3>2, <1>5 DEF Emits
      <4>2. (t = "audio" /\ reentry') <=> (t = "audio" /\ reentry)
        BY <3>2, <1>3
      <4>3. QED
        BY <4>1, <4>2, <2>1, <1>1, <1>7 DEF LiveInv
    <3>3. QED
      BY <3>1, <3>2
  <2>2. QED
    BY <2>1, <1>3 DEF LiveInv
<1>10. SlateInv'
  BY <1>3 DEF SlateInv
<1>11. Continues
  BY <1>5 DEF Continues, Emits
<1>12. QED
  BY <1>6, <1>8, <1>9, <1>10, <1>11 DEF SeamInv

\* The recovery IDR opens a run one tick after the slate (recover_to_live).
LEMMA RecoverStep ==
  ASSUME SeamInv, NEW p \in Offered, emitting = "slate", Recover(p)
  PROVE  SeamInv' /\ Continues
<1> USE DEF Streams
<1>1. /\ SeamTypes /\ LastIsOut /\ SlateInv /\ outages \in Nat
      /\ out \in [Streams -> Emitted \cup {None}] /\ acc \in [Streams -> Accs]
  BY DEF SeamInv, SeamTypes
<1>2. p.dts \in Int /\ p.gap \in Nat /\ Around
  BY <1>1, Arrival DEF Recover
<1>3. /\ emitting' = "live" /\ outages' = outages /\ cursor' = cursor /\ turn' = turn
      /\ reentry' = TRUE
      /\ Emit("video", rebase(acc["video"], p.dts), p.dts, p.gap, "live", outages)
  BY DEF Recover
<1>4. PICK offset \in Int :
        /\ Emits("video", p.dts, p.gap, "live", outages, offset)
        /\ out'["video"].dts = p.dts + offset
        /\ acc["video"].last # None => out'["video"].dts = acc["video"].last + 1
  BY <1>1, <1>2, <1>3, EmitAtSeam
<1>5. SeamTypes'
  BY <1>1, <1>2, <1>3, <1>4 DEF SeamTypes, Around, Emits
<1>6. /\ out'["video"].run = Live /\ out'["video"].run.outage = outages /\ Live' = Live
      /\ out'["video"].raw + acc'["video"].offset <= out'["video"].dts
      /\ out'["audio"] = out["audio"] /\ acc'["audio"] = acc["audio"]
  BY <1>3, <1>4 DEF Emits, Live
<1>7. LastIsOut'
  BY <1>1, <1>3, <1>4, <1>6 DEF LastIsOut, Emits
<1>8. LiveInv'
  BY <1>1, <1>3, <1>6 DEF LiveInv, SlateInv
<1>9. SlateInv'
  BY <1>3 DEF SlateInv
<1>10. Continues
  <2>1. ASSUME out["video"] # None PROVE Follows("video", out["video"], out'["video"])
    <3>1. out["video"] \in Emitted /\ out["video"].run # Live /\ acc["video"].last = out["video"].dts
      BY <2>1, <1>1 DEF SlateInv, LastIsOut
    <3>2. out["video"].dts \in Int /\ out["video"].dts # None
      BY <3>1, InputAssumption DEF Emitted
    <3>3. /\ out'["video"].dts = out["video"].dts + 1 /\ out'["video"].pts >= out'["video"].dts
          /\ out'["video"].run # out["video"].run
      BY <3>1, <3>2, <1>4, <1>6 DEF Emits
    <3>4. QED
      BY <3>2, <3>3 DEF Follows
  <2>2. QED
    BY <2>1, <1>6 DEF Continues
<1>11. QED
  BY <1>5, <1>7, <1>8, <1>9, <1>10 DEF SeamInv

-----------------------------------------------------------------------------
(* Every step. *)

\* The first packet of a stream follows nothing (GuardedPacketSource::new).
LEMMA SeamInit == Init => SeamInv
<1> SUFFICES ASSUME Init PROVE SeamInv
  OBVIOUS
<1>1. SeamTypes
  <2>1. acc \in [Streams -> Accs] /\ out \in [Streams -> Emitted \cup {None}]
    BY DEF Init, Accs
  <2>2. spent \in Spent
    BY DEF Init, Spent
  <2>3. input \in [Streams -> Int] /\ cursor \in [Streams -> [pos : Nat, rebased : BOOLEAN]]
    BY DEF Init
  <2>4. QED
    BY <2>1, <2>2, <2>3 DEF Init, SeamTypes
<1>2. LiveInv
  BY DEF Init, LiveInv
<1>3. SlateInv
  BY DEF Init, SlateInv
<1>4. LastIsOut
  BY NoneAssumption DEF Init, LastIsOut
<1> QED
  BY <1>1, <1>2, <1>3, <1>4 DEF SeamInv

\* A step that emits nothing leaves the seam alone.
LEMMA QuietStep ==
  ASSUME SeamInv, Around, UNCHANGED seamVars
  PROVE  SeamInv' /\ Continues
<1>1. UNCHANGED <<emitting, acc, cursor, reentry, turn, out, outages>>
  BY DEF seamVars
<1>2. SeamTypes'
  BY <1>1 DEF SeamInv, SeamTypes, Around
<1>3. LastIsOut' /\ LiveInv' /\ SlateInv'
  BY <1>1 DEF SeamInv, LastIsOut, LiveInv, SlateInv, Live, Baked, Unclamped
<1>4. Continues
  BY <1>1 DEF Continues
<1> QED
  BY <1>2, <1>3, <1>4 DEF SeamInv

\* Every pull of a packet keeps the seam bookkeeping and emits in order
\* (next_packet).
LEMMA SeamStep == SeamInv /\ [Next]_vars => SeamInv' /\ Continues
<1> SUFFICES ASSUME SeamInv, [Next]_vars
             PROVE  SeamInv' /\ Continues
  OBVIOUS
<1> USE DEF SeamInv
<1>1. SeamTypes
  OBVIOUS
<1>2. UNCHANGED <<input, spent>> => Around
  BY DEF SeamTypes, Around
<1>3. CASE Evaluate
  <2>1. Around /\ UNCHANGED seamVars
    BY <1>3, <1>1, BoundAssumption DEF Evaluate, Around, SeamTypes, Spent
  <2>2. QED
    BY <2>1, QuietStep
<1>4. CASE SpliceNow
  BY <1>4, <1>2, EnterSlateStep DEF SpliceNow, Serve
<1>5. CASE HardDeath
  <2>1. UNCHANGED <<input, spent>> /\ emitting = "live" /\ EnterSlate
    BY <1>5 DEF HardDeath, Serve
  <2>2. QED
    BY <2>1, <1>2, EnterSlateStep
<1>6. CASE NoInput
  BY <1>6, <1>2, NextSlateStep DEF NoInput, Serve
<1>7. CASE ReadError
  BY <1>7, <1>2, QuietStep DEF ReadError
<1>8. ASSUME NEW p \in Offered, Copy(p) PROVE SeamInv' /\ Continues
  BY <1>8, CopyStep DEF Copy, Serve
<1>9. ASSUME NEW p \in Offered, Recover(p) PROVE SeamInv' /\ Continues
  BY <1>9, RecoverStep DEF Recover, Serve
<1>10. ASSUME NEW p \in Offered, Withhold(p) PROVE SeamInv' /\ Continues
  <2>1. Around
    BY <1>10, <1>1, Arrival DEF Withhold
  <2>2. QED
    BY <1>10, <2>1, NextSlateStep DEF Withhold, Serve
<1>11. CASE Tick
  BY <1>11, <1>2, QuietStep DEF Tick
<1>12. CASE Sample
  <2>1. Around /\ UNCHANGED seamVars
    BY <1>12, <1>1 DEF Sample, Around, SeamTypes, Spent
  <2>2. QED
    BY <2>1, QuietStep
<1>13. CASE Store
  BY <1>13, <1>2, QuietStep DEF Store
<1>14. CASE UNCHANGED vars
  BY <1>14, <1>2, QuietStep DEF vars
<1>15. QED
  BY <1>3, <1>4, <1>5, <1>6, <1>7, <1>8, <1>9, <1>10, <1>11, <1>12, <1>13, <1>14 DEF Next

\* The accumulators, the cursors and the packets emitted so far fit together in
\* every state, however outages, loops and recoveries follow each other.
THEOREM SeamInvariant == Spec => []SeamInv
<1>1. SeamInv /\ [Next]_vars => SeamInv'
  BY SeamStep
<1>2. QED
  BY SeamInit, <1>1, PTL DEF Spec

\* The muxer sees one continuous timeline per stream (SeamsKeepTime): it rises,
\* every seam is one tick, and raw distances survive inside a run.
THEOREM TimelineIsContinuous == Spec => SeamsKeepTime
<1>1. SeamInv /\ [Next]_vars =>
        [\A s \in Streams :
           out[s] # None /\ out'[s] # out[s] => Follows(s, out[s], out'[s])]_vars
  BY SeamStep DEF Continues
<1>2. QED
  BY SeamInvariant, <1>1, PTL DEF Spec, SeamsKeepTime

-----------------------------------------------------------------------------
\* Nothing withheld while live, so a live picture has its references
\* (recover_to_live, is_video_idr).
IntactInv == intact \in BOOLEAN /\ (emitting = "live" => intact)

\* While copying, nothing was withheld since the last IDR (next_packet).
LEMMA IntactStep == IntactInv /\ [Next]_vars => IntactInv'
<1> SUFFICES ASSUME IntactInv, [Next]_vars PROVE IntactInv'
  OBVIOUS
<1>1. ASSUME NEW p \in Offered, Recover(p) PROVE IntactInv'
  BY <1>1 DEF Recover, IsIdr, IntactInv
<1>2. ASSUME NEW p \in Offered, Withhold(p) PROVE IntactInv'
  BY <1>2 DEF Withhold, NextSlate, Serve, IntactInv
<1>3. ASSUME NEW p \in Offered, Copy(p) PROVE IntactInv'
  BY <1>3 DEF Copy, IntactInv
<1>4. CASE SpliceNow \/ HardDeath
  BY <1>4 DEF SpliceNow, HardDeath, EnterSlate, IntactInv
<1>5. CASE NoInput
  BY <1>5 DEF NoInput, NextSlate, ghostVars, IntactInv
<1>6. CASE Evaluate \/ ReadError \/ Tick \/ Sample \/ Store \/ UNCHANGED vars
  BY <1>6 DEF Evaluate, ReadError, Tick, Sample, Store, vars, seamVars, ghostVars, IntactInv
<1>7. QED
  BY <1>1, <1>2, <1>3, <1>4, <1>5, <1>6 DEF Next

\* Copying resumes at a strict IDR, for every input (ReentersOnIdr).
THEOREM OnlyDecodablePictures == Spec => ReentersOnIdr
<1> DEFINE Resumes == out'["video"] # out["video"] /\ out'["video"].run.from = "live" => intact'
<1>1. Init => IntactInv
  BY DEF Init, IntactInv
<1>2. SeamInv /\ IntactInv /\ [Next]_vars => [Resumes]_vars
  <2> SUFFICES ASSUME SeamInv, IntactInv, Next PROVE Resumes
    OBVIOUS
  <2>1. out \in [Streams -> Emitted \cup {None}] /\ "video" \in Streams
    BY DEF SeamInv, SeamTypes, Streams
  <2>2. ASSUME NEW s \in Streams, NEW a, NEW raw, NEW outage, Emit(s, a, raw, 0, "slate", outage)
        PROVE  Resumes
    <3>1. CASE s = "video"
      <4>1. out'["video"].run = [from |-> "slate", outage |-> outage]
        BY <3>1, <2>1, <2>2 DEF Emit
      <4>2. QED
        BY <4>1
    <3>2. CASE s # "video"
      BY <3>2, <2>1, <2>2 DEF Emit
    <3>3. QED
      BY <3>1, <3>2
  <2>3. ASSUME NextSlate PROVE Resumes
    <3>1. PICK s \in Streams : SlateAU(s, cursor[s], outages)
      BY <2>3 DEF NextSlate, Streams
    <3>2. QED
      BY <3>1, <2>2 DEF SlateAU
  <2>4. ASSUME EnterSlate PROVE Resumes
    BY <2>1, <2>2, <2>4 DEF EnterSlate
  <2>5. ASSUME NEW p \in Offered, Copy(p) PROVE Resumes
    BY <2>5 DEF Copy, Serve, IntactInv
  <2>6. ASSUME NEW p \in Offered, Recover(p) PROVE Resumes
    BY <2>6 DEF Recover, IsIdr
  <2>7. ASSUME NEW p \in Offered, Withhold(p) PROVE Resumes
    BY <2>3, <2>7 DEF Withhold
  <2>8. CASE SpliceNow \/ HardDeath
    BY <2>4, <2>8 DEF SpliceNow, HardDeath
  <2>9. CASE NoInput
    BY <2>3, <2>9 DEF NoInput
  <2>10. CASE Evaluate \/ ReadError \/ Tick \/ Sample \/ Store
    BY <2>10 DEF Evaluate, ReadError, Tick, Sample, Store, seamVars
  <2>11. QED
    BY <2>5, <2>6, <2>7, <2>8, <2>9, <2>10 DEF Next
<1>3. QED
  BY SeamInvariant, IntactStep, <1>1, <1>2, PTL DEF Spec, ReentersOnIdr

-----------------------------------------------------------------------------
(* The two threads and the decision flag. *)

Watches == [packet : Nat \cup {None}, advancing : Nat \cup {None}, max : Int \cup {None},
            dead : BOOLEAN]

FlagTypes ==
  /\ clock \in Nat /\ call \in [pc : {"idle", "serve"}, now : Nat] /\ call.now <= clock
  /\ watch \in [Streams -> Watches]
  /\ decision \in {"copy", "splice"} /\ sampled \in {"copy", "splice", None}
  /\ overdue \in Nat /\ started \in BOOLEAN /\ emitting \in {"live", "slate"}

\* In a call that asked for the slate, the clock thread holds no second verdict
\* to copy: what it computes from then on is computed later, on no newer packet.
LateInv ==
  call.pc = "serve" /\ Verdict(watch, call.now) = "splice" /\ decision = "copy" => sampled # "copy"

\* After one packet copied in vain every verdict, stored or to come, is splice.
OverdueInv ==
  /\ overdue <= 1
  /\ overdue = 1 =>
       /\ started /\ emitting = "live" /\ Verdict(watch, call.now) = "splice"
       /\ sampled # "copy" /\ (call.pc = "serve" => decision = "splice")

FlagInv == FlagTypes /\ LateInv /\ OverdueInv

\* A loss does not heal by waiting (PacketLiveness::classify).
LEMMA LossGrows ==
  ASSUME watch \in [Streams -> Watches], NEW m \in Nat, NEW n \in Nat, m <= n,
         Verdict(watch, m) = "splice"
  PROVE  Verdict(watch, n) = "splice"
<1>1. PICK s \in Watched : should_splice(watch[s], m)
  BY DEF Verdict
<1>2. s \in Streams /\ watch[s] \in Watches
  BY WatchAssumption
<1>3. should_splice(watch[s], n)
  BY <1>1, <1>2, WatchAssumption DEF should_splice, Silent, Stalled, Elapsed, Watches
<1> QED
  BY <1>3 DEF Verdict

\* A verdict is one of two (should_splice).
LEMMA VerdictIs == ASSUME NEW w, NEW n PROVE Verdict(w, n) \in {"copy", "splice"}
  BY DEF Verdict

\* Recording a packet keeps the watchdogs in type (record_live).
LEMMA RecordedTypes ==
  ASSUME SeamTypes, FlagTypes, NEW p \in Offered, Arrives(p)
  PROVE  Recorded(p) \in [Streams -> Watches]
<1>1. p.stream \in Streams /\ p.dts \in Int
  BY Arrival
<1>2. call.now \in Nat /\ watch \in [Streams -> Watches] /\ watch[p.stream] \in Watches
  BY <1>1 DEF FlagTypes
<1>3. record_packet(watch[p.stream], call.now, p.dts) \in Watches
  <2> DEFINE w == watch[p.stream]
             advances == w.max = None \/ p.dts > w.max
             advancing == IF advances THEN call.now ELSE w.advancing
             top == IF advances THEN p.dts ELSE w.max
  <2>1. advancing \in Nat \cup {None} /\ top \in Int \cup {None} /\ w.dead \in BOOLEAN
    BY <1>1, <1>2 DEF Watches
  <2>2. record_packet(w, call.now, p.dts)
          = [w EXCEPT !.packet = call.now, !.advancing = advancing, !.max = top]
    BY DEF record_packet
  <2> HIDE DEF w, advancing, top
  <2>3. w \in Watches
    BY <1>2 DEF w
  <2>4. [w EXCEPT !.packet = call.now, !.advancing = advancing, !.max = top] \in Watches
    BY <1>2, <2>1, <2>3 DEF Watches
  <2>5. QED
    BY <2>2, <2>4 DEF w
<1>4. QED
  BY <1>1, <1>2, <1>3 DEF Recorded

\* No verdict has been given at the start (GuardedPacketSource::new).
LEMMA FlagInit == Init => FlagInv
<1> SUFFICES ASSUME Init PROVE FlagInv
  OBVIOUS
<1>1. watch \in [Streams -> Watches]
  BY DEF Init, Watches
<1>2. FlagTypes
  <2>1. clock = 0 /\ call = [pc |-> "idle", now |-> 0]
    BY DEF Init
  <2>2. call \in [pc : {"idle", "serve"}, now : Nat] /\ call.now <= clock
    BY <2>1
  <2>3. /\ decision = "copy" /\ sampled = None /\ overdue = 0 /\ started = FALSE
        /\ emitting = "live"
    BY DEF Init
  <2>4. QED
    BY <1>1, <2>1, <2>2, <2>3 DEF FlagTypes
<1>3. LateInv /\ OverdueInv
  BY DEF Init, LateInv, OverdueInv
<1> QED
  BY <1>2, <1>3 DEF FlagInv

\* A verdict that came late is overruled by the next evaluation (evaluate).
LEMMA FlagStep == SeamInv /\ FlagInv /\ [Next]_vars => FlagInv'
<1> SUFFICES ASSUME SeamInv, FlagInv, [Next]_vars PROVE FlagInv'
  OBVIOUS
<1> USE DEF FlagInv
<1>1. SeamTypes /\ FlagTypes /\ LateInv /\ OverdueInv
  BY DEF SeamInv
<1>2. clock \in Nat /\ call.now \in Nat /\ call.now <= clock /\ watch \in [Streams -> Watches]
      /\ overdue \in Nat
  BY <1>1 DEF FlagTypes
<1>3. CASE Evaluate
  <2>1. /\ call'.pc = "serve" /\ call'.now = clock /\ clock' = clock /\ watch' = watch
        /\ call' \in [pc : {"idle", "serve"}, now : Nat]
        /\ decision' = Verdict(watch, clock) /\ sampled' = sampled /\ overdue' = overdue
        /\ started' = started /\ emitting' = emitting
    BY <1>2, <1>3 DEF Evaluate, seamVars, ghostVars
  <2>2. FlagTypes'
    BY <2>1, <1>1, <1>2, VerdictIs DEF FlagTypes
  <2>3. LateInv'
    BY <2>1 DEF LateInv
  <2>4. OverdueInv'
    <3>1. overdue = 1 => Verdict(watch, clock) = "splice"
      BY <1>1, <1>2, LossGrows DEF OverdueInv
    <3>2. QED
      BY <2>1, <3>1, <1>1 DEF OverdueInv
  <2>5. QED
    BY <2>2, <2>3, <2>4
<1>4. CASE SpliceNow \/ HardDeath
  <2>1. /\ call'.pc = "idle" /\ call' \in [pc : {"idle", "serve"}, now : Nat] /\ call'.now = call.now
        /\ clock' = clock /\ decision' = decision /\ sampled' = sampled /\ overdue' = 0
        /\ started' = started /\ emitting' = "slate"
    BY <1>1, <1>4 DEF SpliceNow, HardDeath, Serve, EnterSlate, FlagTypes
  <2>2. watch' \in [Streams -> Watches]
    <3>1. CASE watch' = watch
      BY <3>1, <1>2
    <3>2. CASE watch' = [s \in Streams |-> IF s \in Watched THEN [watch[s] EXCEPT !.dead = TRUE]
                                           ELSE watch[s]]
      BY <3>2, <1>2 DEF Watches
    <3>3. QED
      BY <1>4, <3>1, <3>2 DEF SpliceNow, HardDeath
  <2>3. QED
    BY <2>1, <2>2, <1>1 DEF FlagTypes, LateInv, OverdueInv
<1>5. ASSUME NEW p \in Offered, Copy(p) PROVE FlagInv'
  <2>1. Recorded(p) \in [Streams -> Watches]
    BY <1>1, <1>5, RecordedTypes DEF Copy
  <2>2. /\ call.pc = "serve" /\ emitting = "live" /\ call'.pc = "idle" /\ call'.now = call.now
        /\ call' \in [pc : {"idle", "serve"}, now : Nat]
        /\ clock' = clock /\ decision' = decision /\ sampled' = sampled
        /\ started' = TRUE /\ emitting' = "live" /\ watch' = Recorded(p)
        /\ ~(started /\ decision = "splice")
        /\ overdue' = IF started /\ Verdict(watch, call.now) = "splice"
                                 /\ Verdict(Recorded(p), call.now) = "splice"
                      THEN overdue + 1 ELSE 0
    BY <1>1, <1>5 DEF Copy, Serve, Obeys, FlagTypes
  <2>3. overdue = 0
    BY <1>1, <1>2, <2>2 DEF OverdueInv
  <2>4. overdue' = 1 => Verdict(watch', call.now) = "splice" /\ sampled # "copy"
    BY <2>2, <2>3, <1>1 DEF LateInv, FlagTypes
  <2>5. FlagTypes'
    BY <2>1, <2>2, <2>3, <1>1 DEF FlagTypes
  <2>6. LateInv'
    BY <2>2 DEF LateInv
  <2>7. OverdueInv'
    BY <2>2, <2>3, <2>4 DEF OverdueInv
  <2>8. QED
    BY <2>5, <2>6, <2>7
<1>6. ASSUME NEW p \in Offered, Recover(p) \/ Withhold(p) PROVE FlagInv'
  <2>1. Recorded(p) \in [Streams -> Watches]
    BY <1>1, <1>6, RecordedTypes DEF Recover, Withhold
  <2>2. /\ emitting = "slate" /\ call'.pc = "idle" /\ call'.now = call.now
        /\ call' \in [pc : {"idle", "serve"}, now : Nat]
        /\ clock' = clock /\ decision' = decision /\ sampled' = sampled /\ overdue' = overdue
        /\ started' = TRUE /\ emitting' \in {"live", "slate"} /\ watch' = Recorded(p)
    BY <1>1, <1>6 DEF Recover, Withhold, NextSlate, Serve, FlagTypes
  <2>3. overdue = 0
    BY <1>1, <1>2, <2>2 DEF OverdueInv
  <2>4. QED
    BY <2>1, <2>2, <2>3, <1>1 DEF FlagTypes, LateInv, OverdueInv
<1>7. CASE NoInput \/ ReadError
  <2>1. /\ call'.pc = "idle" /\ call'.now = call.now /\ call' \in [pc : {"idle", "serve"}, now : Nat]
        /\ clock' = clock /\ decision' = decision /\ sampled' = sampled /\ overdue' = overdue
        /\ started' = started /\ emitting' = emitting /\ watch' = watch
    BY <1>1, <1>7 DEF NoInput, ReadError, NextSlate, Serve, seamVars, ghostVars, FlagTypes
  <2>2. QED
    BY <2>1, <1>1 DEF FlagTypes, LateInv, OverdueInv
<1>8. CASE Tick
  <2>1. /\ clock' = clock + 1
        /\ UNCHANGED <<watch, decision, sampled, call, started, emitting, overdue>>
    BY <1>8 DEF Tick, seamVars, ghostVars
  <2>2. FlagTypes'
    BY <2>1, <1>1, <1>2 DEF FlagTypes
  <2>3. QED
    BY <2>1, <2>2, <1>1 DEF LateInv, OverdueInv
<1>9. CASE Sample
  <2>1. /\ sampled' = Verdict(watch, clock)
        /\ UNCHANGED <<clock, watch, decision, call, started, emitting, overdue>>
    BY <1>9 DEF Sample, seamVars, ghostVars
  <2>2. FlagTypes'
    BY <2>1, <1>1, VerdictIs DEF FlagTypes
  <2>3. Verdict(watch, call.now) = "splice" => sampled' = "splice"
    BY <2>1, <1>2, LossGrows
  <2>4. QED
    BY <2>1, <2>2, <2>3, <1>1 DEF LateInv, OverdueInv
<1>10. CASE Store
  <2>1. /\ sampled # None /\ decision' = sampled /\ sampled' = None
        /\ UNCHANGED <<clock, watch, call, started, emitting, overdue>>
    BY <1>10 DEF Store, seamVars, ghostVars
  <2>2. QED
    BY <2>1, <1>1, NoneAssumption DEF FlagTypes, LateInv, OverdueInv
<1>11. CASE UNCHANGED vars
  BY <1>11, <1>1 DEF vars, seamVars, ghostVars, FlagTypes, LateInv, OverdueInv
<1>12. QED
  BY <1>3, <1>4, <1>5, <1>6, <1>7, <1>8, <1>9, <1>10, <1>11 DEF Next

\* However late the clock thread stores what it computed, a loss costs at most
\* one packet copied in vain (StaleVerdictCostsOneCall).
THEOREM StaleVerdictBounded == Spec => []StaleVerdictCostsOneCall
<1>1. FlagInv => StaleVerdictCostsOneCall
  BY DEF FlagInv, OverdueInv, StaleVerdictCostsOneCall
<1>2. QED
  BY SeamInvariant, FlagInit, FlagStep, <1>1, PTL DEF Spec

-----------------------------------------------------------------------------
(* The type invariant, with the bounds of the model and the slate's wrap. *)

\* What a watchdog has recorded is an instant of the clock.
Recordings == [packet : (0..MaxTime) \cup {None}, advancing : (0..MaxTime) \cup {None},
               max : Int \cup {None}, dead : BOOLEAN]

\* The cursor is on an AU of the ring, or at its head (next_slate_stream).
Wraps == \A s \in Streams : cursor[s].pos = 0 \/ cursor[s].pos < Len(Slate[s])

BoundInv ==
  /\ clock <= MaxTime /\ watch \in [Streams -> Recordings] /\ Wraps
  /\ spent.calls <= MaxCalls /\ spent.samples <= MaxSamples /\ spent.restarts <= MaxRestarts

LEMMA BoundInit == Init => BoundInv
<1> SUFFICES ASSUME Init PROVE BoundInv
  OBVIOUS
<1>1. watch \in [Streams -> Recordings]
  BY DEF Init, Recordings
<1>2. Wraps
  BY DEF Init, Wraps
<1>3. clock <= MaxTime
  BY BoundAssumption DEF Init
<1>4. spent.calls <= MaxCalls /\ spent.samples <= MaxSamples /\ spent.restarts <= MaxRestarts
  BY BoundAssumption DEF Init
<1> QED
  BY <1>1, <1>2, <1>3, <1>4 DEF BoundInv

\* Recording a packet notes the instant the call sampled (record_live).
LEMMA RecordingTypes ==
  ASSUME SeamTypes, FlagTypes, BoundInv, NEW p \in Offered, Arrives(p)
  PROVE  Recorded(p) \in [Streams -> Recordings]
<1>1. p.stream \in Streams /\ p.dts \in Int
  BY Arrival
<1>2. call.now \in 0..MaxTime /\ watch \in [Streams -> Recordings] /\ watch[p.stream] \in Recordings
  BY <1>1, BoundAssumption DEF FlagTypes, BoundInv
<1>3. record_packet(watch[p.stream], call.now, p.dts) \in Recordings
  <2> DEFINE w == watch[p.stream]
             advances == w.max = None \/ p.dts > w.max
             advancing == IF advances THEN call.now ELSE w.advancing
             top == IF advances THEN p.dts ELSE w.max
  <2>1. advancing \in (0..MaxTime) \cup {None} /\ top \in Int \cup {None} /\ w.dead \in BOOLEAN
    BY <1>1, <1>2 DEF Recordings
  <2>2. record_packet(w, call.now, p.dts)
          = [w EXCEPT !.packet = call.now, !.advancing = advancing, !.max = top]
    BY DEF record_packet
  <2> HIDE DEF w, advancing, top
  <2>3. w \in Recordings
    BY <1>2 DEF w
  <2>4. [w EXCEPT !.packet = call.now, !.advancing = advancing, !.max = top] \in Recordings
    BY <1>2, <2>1, <2>3 DEF Recordings
  <2>5. QED
    BY <2>2, <2>4 DEF w
<1>4. QED
  BY <1>1, <1>2, <1>3 DEF Recorded

\* A slate AU moves its cursor on, and round at the end of the ring
\* (next_slate_stream).
LEMMA SlateWraps ==
  ASSUME SeamTypes, Wraps, NextSlate \/ EnterSlate
  PROVE  Wraps'
<1>1. cursor \in [Streams -> [pos : Nat, rebased : BOOLEAN]]
  BY DEF SeamTypes
<1>2. ASSUME NEW s \in Streams, SlateAU(s, cursor[s], outages) PROVE Wraps'
  <2> DEFINE next == cursor[s].pos + 1
             c == IF next < Len(Slate[s]) THEN [pos |-> next, rebased |-> TRUE]
                                          ELSE [pos |-> 0, rebased |-> FALSE]
  <2>1. c.pos = 0 \/ c.pos < Len(Slate[s])
    BY <1>1
  <2>2. cursor' = [cursor EXCEPT ![s] = c]
    BY <1>2 DEF SlateAU
  <2> HIDE DEF c
  <2>3. QED
    BY <1>1, <2>1, <2>2 DEF Wraps
<1>3. CASE NextSlate
  <2>1. PICK s \in Streams : SlateAU(s, cursor[s], outages)
    BY <1>3 DEF NextSlate, Streams
  <2>2. QED
    BY <1>2, <2>1
<1>4. CASE EnterSlate
  <2>1. \A s \in Streams :
          cursor'[s] = IF s = "video" /\ Len(Slate["video"]) > 1
                       THEN [pos |-> 1, rebased |-> TRUE] ELSE [pos |-> 0, rebased |-> FALSE]
    BY <1>4 DEF EnterSlate
  <2>2. Len(Slate["video"]) \in Nat
    BY SlateAssumption DEF Streams
  <2>3. \A s \in Streams : \/ s = "video" /\ cursor'[s].pos = 1 /\ 1 < Len(Slate["video"])
                           \/ cursor'[s].pos = 0
    BY <2>1, <2>2
  <2>4. QED
    BY <2>3 DEF Wraps
<1>5. QED
  BY <1>3, <1>4

LEMMA BoundStep == SeamInv /\ FlagInv /\ BoundInv /\ [Next]_vars => BoundInv'
<1> SUFFICES ASSUME SeamInv, FlagInv, BoundInv, [Next]_vars PROVE BoundInv'
  OBVIOUS
<1>1. SeamTypes /\ FlagTypes /\ Wraps /\ spent \in Spent /\ watch \in [Streams -> Recordings]
  BY DEF SeamInv, FlagInv, BoundInv, SeamTypes
<1>2. /\ spent.calls \in Nat /\ spent.samples \in Nat /\ spent.restarts \in Nat /\ clock \in Nat
      /\ {MaxTime, MaxCalls, MaxSamples, MaxRestarts} \subseteq Nat
  BY <1>1, BoundAssumption DEF Spent, FlagTypes
<1>3. ASSUME NEW p \in Offered, Copy(p) \/ Recover(p) \/ Withhold(p) PROVE BoundInv'
  <2>1. Recorded(p) \in [Streams -> Recordings]
    BY <1>1, <1>3, RecordingTypes DEF Copy, Recover, Withhold
  <2>2. watch' = Recorded(p) /\ clock' = clock
    BY <1>3 DEF Copy, Recover, Withhold, Serve
  <2>3. /\ spent'.calls = spent.calls /\ spent'.samples = spent.samples
        /\ spent'.restarts <= MaxRestarts
    BY <1>1, <1>2, <1>3 DEF Copy, Recover, Withhold, Arrives, BoundInv, Spent
  <2>4. Wraps'
    <3>1. CASE Withhold(p)
      BY <1>1, <3>1, SlateWraps DEF Withhold
    <3>2. CASE Copy(p) \/ Recover(p)
      BY <1>1, <3>2 DEF Copy, Recover, Wraps
    <3>3. QED
      BY <1>3, <3>1, <3>2
  <2>5. QED
    BY <2>1, <2>2, <2>3, <2>4 DEF BoundInv
<1>4. CASE SpliceNow \/ HardDeath
  <2>1. UNCHANGED <<clock, spent>>
    BY <1>4 DEF SpliceNow, HardDeath, Serve
  <2>2. watch' \in [Streams -> Recordings]
    <3>1. CASE watch' = watch
      BY <3>1, <1>1
    <3>2. CASE watch' = [s \in Streams |-> IF s \in Watched THEN [watch[s] EXCEPT !.dead = TRUE]
                                           ELSE watch[s]]
      BY <3>2, <1>1 DEF Recordings
    <3>3. QED
      BY <1>4, <3>1, <3>2 DEF SpliceNow, HardDeath
  <2>3. Wraps'
    BY <1>1, <1>4, SlateWraps DEF SpliceNow, HardDeath
  <2>4. QED
    BY <2>1, <2>2, <2>3 DEF BoundInv
<1>5. CASE NoInput
  <2>1. UNCHANGED <<clock, spent, watch>>
    BY <1>5 DEF NoInput, Serve
  <2>2. Wraps'
    BY <1>1, <1>5, SlateWraps DEF NoInput
  <2>3. QED
    BY <2>1, <2>2 DEF BoundInv
<1>6. CASE Evaluate
  <2>1. /\ UNCHANGED <<clock, watch, cursor>>
        /\ spent'.calls <= MaxCalls /\ spent'.samples = spent.samples
        /\ spent'.restarts = spent.restarts
    BY <1>1, <1>2, <1>6 DEF Evaluate, seamVars, Spent
  <2>2. QED
    BY <2>1 DEF BoundInv, Wraps
<1>7. CASE Sample
  <2>1. /\ UNCHANGED <<clock, watch, cursor>>
        /\ spent'.samples <= MaxSamples /\ spent'.calls = spent.calls
        /\ spent'.restarts = spent.restarts
    BY <1>1, <1>2, <1>7 DEF Sample, seamVars, Spent
  <2>2. QED
    BY <2>1 DEF BoundInv, Wraps
<1>8. CASE Tick
  <2>1. UNCHANGED <<watch, cursor, spent>> /\ clock' <= MaxTime
    BY <1>2, <1>8 DEF Tick, seamVars
  <2>2. QED
    BY <2>1 DEF BoundInv, Wraps
<1>9. CASE ReadError \/ Store \/ UNCHANGED vars
  <2>1. UNCHANGED <<clock, watch, cursor, spent>>
    BY <1>9 DEF ReadError, Serve, Store, vars, seamVars
  <2>2. QED
    BY <2>1 DEF BoundInv, Wraps
<1>10. QED
  BY <1>3, <1>4, <1>5, <1>6, <1>7, <1>8, <1>9 DEF Next

\* The type invariant: a watchdog's instants are instants of the clock, and the
\* slate cursor stays inside its ring (TypeOK; next_slate_stream, record_live).
THEOREM SeamTypeCorrect == Spec => []TypeOK
<1>1. SeamInv /\ FlagInv /\ IntactInv /\ BoundInv => TypeOK
  <2> SUFFICES ASSUME SeamInv, FlagInv, IntactInv, BoundInv PROVE TypeOK
    OBVIOUS
  <2>1. SeamTypes /\ FlagTypes
    BY DEF SeamInv, FlagInv
  <2>2. clock \in 0..MaxTime /\ call \in [pc : {"idle", "serve"}, now : 0..MaxTime]
    <3>1. /\ call \in [pc : {"idle", "serve"}, now : Nat] /\ call.now <= clock /\ clock \in Nat
          /\ clock <= MaxTime /\ MaxTime \in Nat
      BY <2>1, BoundAssumption DEF FlagTypes, BoundInv
    <3>2. call.now \in 0..MaxTime
      BY <3>1
    <3>3. QED
      BY <3>1, <3>2
  <2>3. spent \in [calls : 0..MaxCalls, samples : 0..MaxSamples, restarts : 0..MaxRestarts]
    BY <2>1, BoundAssumption DEF SeamTypes, Spent, BoundInv
  <2>4. watch \in [Streams -> Recordings] /\ Wraps
    BY DEF BoundInv
  <2>5. acc \in [Streams -> [last : Int \cup {None}, offset : Int]]
    BY <2>1 DEF SeamTypes, Accs
  <2>6. intact \in BOOLEAN
    BY DEF IntactInv
  <2>7. QED
    BY <2>1, <2>2, <2>3, <2>4, <2>5, <2>6 DEF SeamTypes, FlagTypes, Recordings, Wraps, TypeOK
<1>2. Init => IntactInv
  BY DEF Init, IntactInv
<1>3. QED
  BY SeamInvariant, FlagInit, FlagStep, IntactStep, BoundInit, BoundStep, <1>1, <1>2, PTL DEF Spec

=============================================================================
