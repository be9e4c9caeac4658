------------------------ MODULE RealtimeSessionProofs ------------------------
(***************************************************************************)
(* Proofs about a realtime session, for any objects, scopes, ring length   *)
(* and bounds: what it is authorised to show, that no lossless event is    *)
(* dropped, and that snapshot and deltas together are the current truth.   *)
(***************************************************************************)
EXTENDS RealtimeSession, SequenceTheorems, TLAPS

Val == Values \cup {Absent}

(* Room for one event: a producer's, or the one in the session's hand.      *)
Place == {<<>>} \cup {<<e>> : e \in SeqEvents}

Handshake == {"gate", "gateResolve", "sendTiles"}
Pumping   == {"pump", "reauth", "reauthResolve", "project"}
PCs == {"connect", "verify", "subscribe", "watermark", "snapshot", "sendDevices", "closed"}
         \cup Handshake \cup Pumping

SesRec ==
  [pos : Nat, since : Nat, watermark : Nat, snapshot : [Tiles -> Val],
   scope : Scopes, generation : Nat, step : Place]

-----------------------------------------------------------------------------
(* The publishers.                                                          *)

StreamTypes ==
  /\ seq \in Nat /\ log \in Seq(SeqEvents) /\ inflight \in [Producers -> Place]

PublisherTypes ==
  /\ frame \in [Tiles -> Val] /\ slot \in [Tiles -> Val] /\ last_states \in [Tiles -> Val]
  /\ eng \in {"idle", "composed", "published"}
  /\ ctl \in {"idle", "set"} /\ registry \in Val
  /\ store \in Scopes /\ revoked \in BOOLEAN /\ generation \in 0..MaxGeneration

(* The engine speaks of tiles, the control plane of the device.             *)
SpeaksOfItsOwn ==
  \A p \in Producers : ~Idle(p) => (inflight[p][1].event.obj \in Tiles <=> p = "engine")

(* Events about one object are sent in the order of their numbers, though   *)
(* those of two producers need not be.                                      *)
OrderedPerObject ==
  /\ \A i, j \in 1..Len(log) :
       i < j /\ log[i].event.obj = log[j].event.obj => log[i].seq < log[j].seq
  /\ \A p \in Producers, i \in 1..Len(log) :
       ~Idle(p) /\ inflight[p][1].event.obj = log[i].event.obj =>
         log[i].seq < inflight[p][1].seq

(* What the publisher of o has announced, or is about to.                   *)
Current(o) == IF o = Device THEN registry ELSE last_states[o]
Announced(o) == o = Device => ctl = "idle"

About(e, o) == e.event.obj = o /\ e.event.backed
InFlight(o) == \E p \in Producers : ~Idle(p) /\ About(inflight[p][1], o)
LastAbout(i, o) == About(log[i], o) /\ \A j \in 1..Len(log) : j > i => ~About(log[j], o)

(* The newest conflated event about an object carries its current value.    *)
NewestIsCurrent ==
  \A o \in Objects : Announced(o) =>
    /\ \A p \in Producers : ~Idle(p) /\ About(inflight[p][1], o) =>
         inflight[p][1].event.value = Current(o)
    /\ \A i \in 1..Len(log) : LastAbout(i, o) /\ ~InFlight(o) =>
         log[i].event.value = Current(o)

PublisherInv ==
  StreamTypes /\ PublisherTypes /\ SpeaksOfItsOwn /\ OrderedPerObject /\ NewestIsCurrent

-----------------------------------------------------------------------------
(* The session.                                                             *)

SessionTypes ==
  /\ pc \in PCs /\ ses \in SesRec /\ lagged \in BOOLEAN
  /\ 1 <= ses.since /\ ses.since <= ses.pos /\ ses.pos <= End
  /\ ses.watermark <= seq /\ ses.generation <= generation
  /\ cache \in [Objects -> Val] /\ got \subseteq 1..seq

(* The event in hand is the one before the cursor.                          *)
InHand ==
  ses.step # <<>> =>
    /\ pc \in Pumping \ {"pump"} /\ ses.pos > ses.since
    /\ ses.step = <<log[ses.pos - 1]>>

(* A scope read at the generation the session knows is the key's scope.     *)
ScopeIsCurrent ==
  /\ pc \notin {"connect", "verify", "gateResolve", "reauthResolve", "closed"}
       /\ ses.generation = generation => ~revoked /\ store = ses.scope
  /\ \A o \in Objects : cache[o] # Absent => o \in ses.scope
  /\ pc \notin {"sendDevices"} \cup Pumping => cache = Nothing

(* A key nobody touched has its whole scope.                                *)
UntouchedKey ==
  generation = 0 =>
    /\ ~revoked /\ store = Objects
    /\ pc \notin {"connect", "verify", "closed"} => ses.scope = Objects

(* Every lossless event before the cursor was received, or is in hand.      *)
LosslessSoFar ==
  /\ ~lagged /\ generation = 0 =>
       \A i \in ses.since..(ses.pos - 1) :
         ~log[i].event.backed =>
           log[i].seq \in got \/ (ses.step # <<>> /\ i = ses.pos - 1)
  /\ pc \in {"connect", "verify", "subscribe", "closed"} => ses.pos = ses.since

SessionInv == SessionTypes /\ InHand /\ ScopeIsCurrent /\ UntouchedKey /\ LosslessSoFar

-----------------------------------------------------------------------------
(* What the client shows, against what was announced.                       *)

(* An event about o that the watermark will let through is still to come.   *)
Ahead(e, o) == About(e, o) /\ e.seq > ses.watermark
Pending(o) ==
  \/ ses.step # <<>> /\ Ahead(ses.step[1], o)
  \/ \E i \in 1..Len(log) : i >= ses.pos /\ Ahead(log[i], o)
  \/ \E p \in Producers : ~Idle(p) /\ Ahead(inflight[p][1], o)

Shown(t) == IF pc \in Handshake THEN ses.snapshot[t] ELSE cache[t]

TileUpToDate(t) ==
  \/ Shown(t) = last_states[t] \/ Pending(t)
  \/ eng = "published" /\ Shown(t) = frame[t]

DeviceUpToDate == cache[Device] = registry \/ ctl = "set" \/ Pending(Device)

DeviceInv == ~lagged /\ pc \in Pumping /\ Device \in ses.scope => DeviceUpToDate

(* With one tile a tick announces everything it changed.                    *)
OneTile == \A s, t \in Tiles : s = t

SlotAnnounced == slot = IF eng = "published" THEN frame ELSE last_states

TilesInv ==
  /\ SlotAnnounced
  /\ ~lagged =>
       /\ pc \in Handshake => \A t \in Tiles : TileUpToDate(t)
       /\ pc \in {"sendDevices"} \cup Pumping => \A t \in Tiles \cap ses.scope : TileUpToDate(t)

-----------------------------------------------------------------------------
(* The stream.                                                              *)

\* A place that is not empty holds one event.
LEMMA PlaceFacts ==
  ASSUME NEW x \in Place, x # <<>>
  PROVE  x = <<x[1]>> /\ x[1] \in SeqEvents
BY DEF Place

\* Numbers only grow.
LEMMA EventsGrow ==
  ASSUME seq \in Nat, seq' \in Nat, seq <= seq'
  PROVE  SeqEvents \subseteq SeqEvents' /\ Place \subseteq Place'
<1>1. SeqEvents \subseteq SeqEvents'
  BY DEF SeqEvents
<1> QED BY <1>1 DEF Place

\* What fetch_add does.
LEMMA FetchAddFacts ==
  ASSUME StreamTypes, NEW p \in Producers, NEW event \in Events, FetchAdd(p, event)
  PROVE  /\ Idle(p) /\ ~Idle(p)' /\ log' = log /\ seq' = seq + 1 /\ seq' \in Nat
         /\ inflight'[p][1].event = event /\ inflight'[p][1].seq = seq + 1
         /\ \A q \in Producers : q # p => inflight'[q] = inflight[q] /\ Idle(q)' = Idle(q)
         /\ StreamTypes'
<1>1. /\ Idle(p) /\ log' = log /\ seq' = seq + 1 /\ seq' \in Nat
      /\ inflight' = [inflight EXCEPT ![p] = <<[seq |-> seq + 1, event |-> event]>>]
  BY DEF FetchAdd, StreamTypes
<1>2. SeqEvents \subseteq SeqEvents' /\ Place \subseteq Place'
  BY <1>1, EventsGrow DEF StreamTypes
<1>3. [seq |-> seq + 1, event |-> event] \in SeqEvents'
  BY <1>1 DEF SeqEvents, StreamTypes
<1>4. <<[seq |-> seq + 1, event |-> event]>> \in Place'
  BY <1>3 DEF Place
<1>5. /\ inflight'[p] = <<[seq |-> seq + 1, event |-> event]>>
      /\ \A q \in Producers : q # p => inflight'[q] = inflight[q]
  BY <1>1 DEF StreamTypes
<1>6. inflight' \in [Producers -> Place']
  BY <1>1, <1>2, <1>4 DEF StreamTypes
<1>7. log' \in Seq(SeqEvents')
  BY <1>1, <1>2 DEF StreamTypes
<1> QED BY <1>1, <1>5, <1>6, <1>7 DEF StreamTypes, Idle

\* What the broadcast send does.
LEMMA SendFacts ==
  ASSUME StreamTypes, NEW p \in Producers, Send(p)
  PROVE  /\ ~Idle(p) /\ Idle(p)' /\ seq' = seq /\ Len(log) \in Nat /\ Len(log') = Len(log) + 1
         /\ \A i \in 1..Len(log) : log'[i] = log[i]
         /\ log'[Len(log) + 1] = inflight[p][1]
         /\ \A q \in Producers : q # p => inflight'[q] = inflight[q] /\ Idle(q)' = Idle(q)
         /\ SeqEvents' = SeqEvents /\ Place' = Place
         /\ StreamTypes'
<1> DEFINE e == inflight[p][1]
<1>1. /\ ~Idle(p) /\ log' = log \o inflight[p] /\ seq' = seq
      /\ inflight' = [inflight EXCEPT ![p] = <<>>]
  BY DEF Send
<1>2. inflight[p] = <<e>> /\ e \in SeqEvents
  BY <1>1, PlaceFacts DEF StreamTypes, Idle
<1>3. SeqEvents' = SeqEvents
  BY <1>1 DEF SeqEvents
<1>4. Place' = Place
  BY <1>3 DEF Place
<1>5. log \in Seq(SeqEvents) /\ Len(log) \in Nat
  BY DEF StreamTypes
<1> HIDE DEF e
<1>6. /\ log' \in Seq(SeqEvents) /\ Len(log') = Len(log) + 1
      /\ \A i \in 1..Len(log) : log'[i] = log[i]
      /\ log'[Len(log) + 1] = e
  <2>1. log' = log \o <<e>>
    BY <1>1, <1>2
  <2>2. <<e>> \in Seq(SeqEvents) /\ Len(<<e>>) = 1 /\ <<e>>[1] = e
    BY <1>2
  <2> QED BY <2>1, <2>2, <1>5, ConcatProperties
<1>7. /\ inflight'[p] = <<>> /\ inflight' \in [Producers -> Place]
      /\ \A q \in Producers : q # p => inflight'[q] = inflight[q]
  BY <1>1 DEF StreamTypes, Place
<1>8. seq' \in Nat
  BY <1>1 DEF StreamTypes
<1>9. StreamTypes'
  BY <1>3, <1>4, <1>6, <1>7, <1>8 DEF StreamTypes
<1>10. Idle(p)' /\ \A q \in Producers : q # p => Idle(q)' = Idle(q)
  BY <1>7 DEF Idle
<1> QED BY <1>1, <1>3, <1>4, <1>5, <1>6, <1>7, <1>9, <1>10 DEF e

\* The events there are, by the types.
LEMMA EventFacts ==
  ASSUME StreamTypes
  PROVE  /\ Len(log) \in Nat
         /\ \A i \in 1..Len(log) : log[i] \in SeqEvents /\ log[i].seq \in 1..seq
                                   /\ log[i].event \in Events
         /\ \A p \in Producers : ~Idle(p) => inflight[p][1] \in SeqEvents
              /\ inflight[p][1].seq \in 1..seq /\ inflight[p][1].event \in Events
<1>1. Len(log) \in Nat /\ \A i \in 1..Len(log) : log[i] \in SeqEvents
  BY DEF StreamTypes
<1>2. \A p \in Producers : ~Idle(p) => inflight[p][1] \in SeqEvents
  BY PlaceFacts DEF StreamTypes, Idle
<1>3. \A e \in SeqEvents : e.seq \in 1..seq /\ e.event \in Events
  BY DEF SeqEvents
<1> QED BY <1>1, <1>2, <1>3

\* Two producers that speak of one object are one.
LEMMA OneSpeaker ==
  ASSUME StreamTypes, SpeaksOfItsOwn, NEW p \in Producers, NEW q \in Producers,
         ~Idle(p), ~Idle(q), inflight[p][1].event.obj = inflight[q][1].event.obj
  PROVE  p = q
BY SessionAssumption DEF SpeaksOfItsOwn

LEMMA FetchAddOrder ==
  ASSUME StreamTypes, SpeaksOfItsOwn, OrderedPerObject,
         NEW p \in Producers, NEW event \in Events, event.obj \in Tiles <=> p = "engine",
         FetchAdd(p, event)
  PROVE  SpeaksOfItsOwn' /\ OrderedPerObject'
<1>f. /\ Idle(p) /\ log' = log /\ seq \in Nat
      /\ inflight'[p][1].event = event /\ inflight'[p][1].seq = seq + 1 /\ ~Idle(p)'
      /\ \A q \in Producers : q # p => inflight'[q] = inflight[q] /\ Idle(q)' = Idle(q)
  BY FetchAddFacts DEF StreamTypes
<1>1. SpeaksOfItsOwn'
  <2> SUFFICES ASSUME NEW q \in Producers, ~Idle(q)'
               PROVE  inflight'[q][1].event.obj \in Tiles <=> q = "engine"
    BY DEF SpeaksOfItsOwn
  <2>1. CASE q = p
    BY <2>1, <1>f
  <2>2. CASE q # p
    BY <2>2, <1>f DEF SpeaksOfItsOwn
  <2> QED BY <2>1, <2>2
<1>2. OrderedPerObject'
  <2>1. \A i, j \in 1..Len(log') :
          i < j /\ log'[i].event.obj = log'[j].event.obj => log'[i].seq < log'[j].seq
    BY <1>f DEF OrderedPerObject
  <2>2. ASSUME NEW q \in Producers, NEW i \in 1..Len(log'), ~Idle(q)',
               inflight'[q][1].event.obj = log'[i].event.obj
        PROVE  log'[i].seq < inflight'[q][1].seq
    <3>1. CASE q = p
      <4>1. log[i].seq \in 1..seq /\ seq \in Nat
        BY <1>f, EventFacts
      <4> QED BY <3>1, <4>1, <1>f
    <3>2. CASE q # p
      BY <2>2, <3>2, <1>f DEF OrderedPerObject
    <3> QED BY <3>1, <3>2
  <2> QED BY <2>1, <2>2 DEF OrderedPerObject
<1> QED BY <1>1, <1>2

LEMMA SendOrder ==
  ASSUME StreamTypes, SpeaksOfItsOwn, OrderedPerObject, NEW p \in Producers, Send(p)
  PROVE  SpeaksOfItsOwn' /\ OrderedPerObject'
<1> DEFINE n == Len(log)
<1>1. SpeaksOfItsOwn'
  <2> SUFFICES ASSUME NEW q \in Producers, ~Idle(q)'
               PROVE  inflight'[q][1].event.obj \in Tiles <=> q = "engine"
    BY DEF SpeaksOfItsOwn
  <2> QED BY SendFacts DEF SpeaksOfItsOwn
<1>2. ASSUME NEW i \in 1..Len(log'), NEW j \in 1..Len(log'), i < j,
             log'[i].event.obj = log'[j].event.obj
      PROVE  log'[i].seq < log'[j].seq
  <2>1. i \in 1..n /\ log'[i] = log[i]
    BY <1>2, SendFacts
  <2>2. CASE j \in 1..n
    BY <1>2, <2>1, <2>2, SendFacts DEF OrderedPerObject
  <2>3. CASE j = n + 1
    BY <1>2, <2>1, <2>3, SendFacts DEF OrderedPerObject
  <2> QED BY <2>2, <2>3, SendFacts
<1>3. ASSUME NEW q \in Producers, NEW i \in 1..Len(log'), ~Idle(q)',
             inflight'[q][1].event.obj = log'[i].event.obj
      PROVE  log'[i].seq < inflight'[q][1].seq
  <2>1. q # p /\ ~Idle(q) /\ inflight'[q] = inflight[q]
    BY <1>3, SendFacts
  <2>2. CASE i \in 1..n
    BY <1>3, <2>1, <2>2, SendFacts DEF OrderedPerObject
  <2>3. CASE i = n + 1
    BY <1>3, <2>1, <2>3, SendFacts, OneSpeaker
  <2> QED BY <2>2, <2>3, SendFacts
<1> QED BY <1>1, <1>2, <1>3 DEF OrderedPerObject

\* A new event announces what is current by then; the other objects are left
\* as they were.
LEMMA FetchAddNewest ==
  ASSUME StreamTypes, SpeaksOfItsOwn, NewestIsCurrent,
         NEW p \in Producers, NEW event \in Events, event.obj \in Tiles <=> p = "engine",
         FetchAdd(p, event),
         \A o \in Objects : event.backed /\ o = event.obj => event.value = Current(o)',
         \A o \in Objects : ~(event.backed /\ o = event.obj) =>
           Current(o)' = Current(o) /\ (Announced(o)' => Announced(o))
  PROVE  NewestIsCurrent'
<1>f. /\ Idle(p) /\ log' = log /\ seq \in Nat
      /\ inflight'[p][1].event = event /\ inflight'[p][1].seq = seq + 1 /\ ~Idle(p)'
      /\ \A q \in Producers : q # p => inflight'[q] = inflight[q] /\ Idle(q)' = Idle(q)
  BY FetchAddFacts DEF StreamTypes
<1> SUFFICES ASSUME NEW o \in Objects, Announced(o)'
             PROVE  /\ \A q \in Producers : ~Idle(q)' /\ About(inflight'[q][1], o) =>
                         inflight'[q][1].event.value = Current(o)'
                    /\ \A i \in 1..Len(log') : LastAbout(i, o)' /\ ~InFlight(o)' =>
                         log'[i].event.value = Current(o)'
  BY DEF NewestIsCurrent, About
<1>1. CASE event.backed /\ o = event.obj
  <2>1. InFlight(o)'
    BY <1>1, <1>f DEF InFlight, About
  <2>2. ASSUME NEW q \in Producers, ~Idle(q)', About(inflight'[q][1], o)
        PROVE  inflight'[q][1].event.value = Current(o)'
    <3>1. CASE q = p
      BY <1>1, <3>1, <1>f
    <3>2. CASE q # p
      BY <1>1, <2>2, <3>2, <1>f, SessionAssumption DEF SpeaksOfItsOwn, About
    <3> QED BY <3>1, <3>2
  <2> QED BY <2>1, <2>2
<1>2. CASE ~(event.backed /\ o = event.obj)
  <2>1. Current(o)' = Current(o) /\ Announced(o)
    BY <1>2
  <2>2. ASSUME NEW q \in Producers, ~Idle(q)', About(inflight'[q][1], o)
        PROVE  inflight'[q][1].event.value = Current(o)'
    <3>1. q # p
      BY <1>2, <2>2, <1>f DEF About
    <3> QED BY <2>1, <2>2, <3>1, <1>f DEF NewestIsCurrent
  <2>3. InFlight(o) => InFlight(o)'
    <3> SUFFICES ASSUME NEW q \in Producers, ~Idle(q), About(inflight[q][1], o)
                 PROVE  InFlight(o)'
      BY DEF InFlight
    <3>1. q # p
      BY <1>f
    <3> QED BY <3>1, <1>f DEF InFlight, About
  <2>4. ASSUME NEW i \in 1..Len(log'), LastAbout(i, o)', ~InFlight(o)'
        PROVE  log'[i].event.value = Current(o)'
    <3>1. log' = log
      BY <1>f
    <3>2. LastAbout(i, o)
      BY <2>4, <3>1 DEF LastAbout, About
    <3> QED BY <2>1, <2>3, <2>4, <3>1, <3>2 DEF NewestIsCurrent
  <2> QED BY <2>2, <2>4
<1> QED BY <1>1, <1>2

LEMMA SendNewest ==
  ASSUME StreamTypes, SpeaksOfItsOwn, NewestIsCurrent, NEW p \in Producers, Send(p),
         \A o \in Objects : Current(o)' = Current(o) /\ Announced(o)' = Announced(o)
  PROVE  NewestIsCurrent'
<1> DEFINE n == Len(log)
<1> SUFFICES ASSUME NEW o \in Objects, Announced(o)'
             PROVE  /\ \A q \in Producers : ~Idle(q)' /\ About(inflight'[q][1], o) =>
                         inflight'[q][1].event.value = Current(o)'
                    /\ \A i \in 1..Len(log') : LastAbout(i, o)' /\ ~InFlight(o)' =>
                         log'[i].event.value = Current(o)'
  BY DEF NewestIsCurrent, About
<1>1. Current(o)' = Current(o) /\ Announced(o)
  OBVIOUS
<1>2. ASSUME NEW q \in Producers, ~Idle(q)', About(inflight'[q][1], o)
      PROVE  inflight'[q][1].event.value = Current(o)'
  BY <1>1, <1>2, SendFacts DEF NewestIsCurrent
<1>3. ASSUME NEW i \in 1..Len(log'), LastAbout(i, o)', ~InFlight(o)'
      PROVE  log'[i].event.value = Current(o)'
  <2>1. /\ About(log'[i], o)
        /\ \A j \in 1..Len(log') : j > i => ~About(log'[j], o)
    BY <1>3 DEF LastAbout, About
  <2>2. CASE i = n + 1
    BY <1>1, <2>1, <2>2, SendFacts DEF NewestIsCurrent
  <2>3. CASE i # n + 1
    <3>1. i \in 1..n /\ log'[i] = log[i] /\ n + 1 \in 1..Len(log') /\ n + 1 > i
      BY <2>3, SendFacts
    <3>2. ~About(inflight[p][1], o)
      BY <2>1, <3>1, SendFacts
    <3>3. ~InFlight(o)
      <4> SUFFICES ASSUME NEW q \in Producers, ~Idle(q), About(inflight[q][1], o) PROVE FALSE
        BY DEF InFlight
      <4>1. q # p
        BY <3>2
      <4> QED BY <4>1, <1>3, SendFacts DEF InFlight, About
    <3>4. \A j \in 1..n : j > i => ~About(log[j], o)
      BY <2>1, SendFacts
    <3>5. LastAbout(i, o)
      BY <2>1, <3>1, <3>4 DEF LastAbout
    <3> QED BY <1>1, <3>1, <3>3, <3>5 DEF NewestIsCurrent
  <2> QED BY <2>2, <2>3
<1> QED BY <1>2, <1>3

-----------------------------------------------------------------------------
(* The publishers' invariant.                                               *)

\* The session's own steps leave the rest of the system alone.
LEMMA SessionLeavesTheRest ==
  ASSUME SessionStep \/ Close
  PROVE  UNCHANGED <<streamVars, engineVars, controlVars, authVars>>
BY DEF SessionStep, Close, CaptureBaseline, Verify, Subscribe, CaptureWatermark, ReadSnapshot,
       Gate, SendTiles, SendDevices, Receive, SkipLag, ReauthTick, Reauthorize, Project,
       Unchanged, SampleGeneration, Disconnect, Resync, Ended, Session

\* A step that publishes nothing keeps it, if what is announced stays current.
LEMMA NoEvent ==
  ASSUME PublisherInv, PublisherTypes', UNCHANGED streamVars,
         \A o \in Objects : Announced(o)' => Announced(o) /\ Current(o)' = Current(o)
  PROVE  PublisherInv'
<1>1. seq' = seq /\ log' = log /\ inflight' = inflight
  BY DEF streamVars
<1>2. SeqEvents' = SeqEvents /\ Place' = Place
  BY <1>1 DEF SeqEvents, Place
<1>3. StreamTypes' /\ SpeaksOfItsOwn' /\ OrderedPerObject'
  BY <1>1, <1>2 DEF PublisherInv, StreamTypes, SpeaksOfItsOwn, OrderedPerObject, Idle
<1>4. NewestIsCurrent'
  BY <1>1 DEF PublisherInv, NewestIsCurrent, InFlight, About, LastAbout, Idle
<1> QED BY <1>3, <1>4 DEF PublisherInv

LEMMA InitPublisherInv == Init => PublisherInv
<1> SUFFICES ASSUME Init PROVE PublisherInv
  OBVIOUS
<1>1. StreamTypes /\ Len(log) = 0 /\ \A p \in Producers : Idle(p)
  BY DEF Init, StreamInit, StreamTypes, Place, Idle
<1>2. PublisherTypes
  <2>1. Objects \in Scopes
    BY DEF Scopes
  <2>2. [t \in Tiles |-> Absent] \in [Tiles -> Val] /\ Absent \in Val
    BY DEF Val
  <2>3. 0 \in 0..MaxGeneration
    BY SessionAssumption
  <2> QED BY <2>1, <2>2, <2>3 DEF Init, PublisherTypes
<1>3. SpeaksOfItsOwn /\ OrderedPerObject /\ NewestIsCurrent
  BY <1>1 DEF SpeaksOfItsOwn, OrderedPerObject, NewestIsCurrent, InFlight
<1> QED BY <1>1, <1>2, <1>3 DEF PublisherInv

\* The types of what the publishers and the key store keep.
LEMMA NextPublisherTypes ==
  ASSUME PublisherTypes, [Next]_vars
  PROVE  PublisherTypes'
<1> USE DEF PublisherTypes, Val
<1>1. CASE UNCHANGED vars
  BY <1>1 DEF vars, engineVars, controlVars, authVars
<1>2. CASE Compose
  BY <1>2 DEF Compose, controlVars, authVars
<1>3. CASE PublishState
  BY <1>3 DEF PublishState, controlVars, authVars
<1>4. CASE PublishTileState
  BY <1>4 DEF PublishTileState, controlVars, authVars
<1>5. CASE SetStatus
  BY <1>5 DEF SetStatus, engineVars, authVars
<1>6. CASE PublishStatus
  BY <1>6 DEF PublishStatus, engineVars, authVars
<1>7. CASE PublishLossless
  BY <1>7 DEF PublishLossless, engineVars, authVars
<1>8. CASE \E p \in Producers : SendEvent(p)
  BY <1>8 DEF SendEvent, engineVars, controlVars, authVars
<1>9. CASE \E scope \in Scopes : SetPrincipal(scope)
  BY <1>9, SessionAssumption DEF SetPrincipal, engineVars, controlVars
<1>10. CASE Revoke
  BY <1>10, SessionAssumption DEF Revoke, engineVars, controlVars
<1>11. CASE SessionStep \/ Close
  BY <1>11, SessionLeavesTheRest DEF engineVars, controlVars, authVars
<1> QED BY <1>1, <1>2, <1>3, <1>4, <1>5, <1>6, <1>7, <1>8, <1>9, <1>10, <1>11 DEF Next

\* The events the publishers announce.
LEMMA TileEvent ==
  ASSUME PublisherTypes, NEW t \in Tiles
  PROVE  LET event == [obj |-> t, value |-> frame[t], backed |-> TRUE]
         IN  event \in Events /\ event.obj \in Tiles /\ event.obj # Device
BY SessionAssumption DEF Events, Objects, PublisherTypes, Val

LEMMA DeviceEvent ==
  ASSUME NEW v \in Val, NEW b \in BOOLEAN
  PROVE  LET event == [obj |-> Device, value |-> v, backed |-> b]
         IN  event \in Events /\ event.obj \notin Tiles
BY SessionAssumption DEF Events, Objects, Val

LEMMA NextPublisherInv ==
  ASSUME PublisherInv, [Next]_vars
  PROVE  PublisherInv'
<1> USE DEF PublisherInv
<1>t. PublisherTypes'
  BY NextPublisherTypes
<1>e. "engine" \in Producers /\ "control" \in Producers
  BY SessionAssumption
<1>1. CASE UNCHANGED vars
  BY <1>1, <1>t, NoEvent DEF vars, engineVars, controlVars, Current, Announced
<1>2. CASE Compose
  BY <1>2, <1>t, NoEvent DEF Compose, controlVars, Current, Announced
<1>3. CASE PublishState
  BY <1>3, <1>t, NoEvent DEF PublishState, controlVars, Current, Announced
<1>4. CASE PublishTileState
  <2>1. registry' = registry /\ ctl' = ctl
    BY <1>4 DEF PublishTileState, controlVars
  <2>2. CASE last_states = frame /\ UNCHANGED <<streamVars, last_states>>
    BY <2>1, <2>2, <1>t, NoEvent DEF Current, Announced
  <2>3. ASSUME NEW t \in Tiles,
               FetchAdd("engine", [obj |-> t, value |-> frame[t], backed |-> TRUE]),
               last_states' = [last_states EXCEPT ![t] = frame[t]]
        PROVE  PublisherInv'
    <3> DEFINE event == [obj |-> t, value |-> frame[t], backed |-> TRUE]
    <3>1. event \in Events /\ event.obj = t /\ t # Device /\ event.value = frame[t]
      BY TileEvent, SessionAssumption
    <3>2. last_states'[t] = frame[t] /\ \A s \in Tiles : s # t => last_states'[s] = last_states[s]
      BY <2>3 DEF PublisherTypes
    <3> HIDE DEF event
    <3>3. FetchAdd("engine", event) /\ (event.obj \in Tiles <=> "engine" = "engine")
      BY <2>3, <3>1 DEF event
    <3>4. StreamTypes' /\ SpeaksOfItsOwn' /\ OrderedPerObject'
      BY <3>1, <3>3, <1>e, FetchAddFacts, FetchAddOrder
    <3>5. \A o \in Objects : event.backed /\ o = event.obj => event.value = Current(o)'
      BY <3>1, <3>2 DEF Current
    <3>6. \A o \in Objects : ~(event.backed /\ o = event.obj) =>
             Current(o)' = Current(o) /\ (Announced(o)' => Announced(o))
      <4>1. event.backed
        BY DEF event
      <4> QED BY <4>1, <2>1, <3>1, <3>2 DEF Current, Announced, Objects
    <3>7. NewestIsCurrent'
      BY <3>1, <3>3, <3>5, <3>6, <1>e, FetchAddNewest
    <3> QED BY <3>4, <3>7, <1>t
  <2> QED BY <1>4, <2>2, <2>3 DEF PublishTileState
<1>5. CASE SetStatus
  BY <1>5, <1>t, NoEvent DEF SetStatus, engineVars, Current, Announced
<1>6. CASE PublishStatus
  <2> DEFINE event == [obj |-> Device, value |-> registry, backed |-> TRUE]
  <2>1. registry' = registry /\ last_states' = last_states
    BY <1>6 DEF PublishStatus, engineVars
  <2>2. event \in Events /\ event.obj = Device /\ event.value = registry /\ event.backed
    BY DeviceEvent DEF PublisherTypes
  <2>3. event.obj \in Tiles <=> "control" = "engine"
    BY SessionAssumption
  <2>4. FetchAdd("control", event)
    BY <1>6 DEF PublishStatus
  <2> HIDE DEF event
  <2>5. StreamTypes' /\ SpeaksOfItsOwn' /\ OrderedPerObject'
    BY <2>2, <2>3, <2>4, <1>e, FetchAddFacts, FetchAddOrder
  <2>6. \A o \in Objects : event.backed /\ o = event.obj => event.value = Current(o)'
    BY <2>1, <2>2 DEF Current
  <2>7. \A o \in Objects : ~(event.backed /\ o = event.obj) =>
           Current(o)' = Current(o) /\ (Announced(o)' => Announced(o))
    BY <2>1, <2>2 DEF Current, Announced
  <2>8. NewestIsCurrent'
    BY <2>2, <2>3, <2>4, <2>6, <2>7, <1>e, FetchAddNewest
  <2> QED BY <2>5, <2>8, <1>t
<1>7. CASE PublishLossless
  <2> DEFINE event == [obj |-> Device, value |-> Absent, backed |-> FALSE]
  <2>1. registry' = registry /\ last_states' = last_states /\ ctl' = ctl
    BY <1>7 DEF PublishLossless, engineVars
  <2>2. event \in Events /\ ~event.backed
    BY DeviceEvent DEF Val
  <2>3. event.obj \in Tiles <=> "control" = "engine"
    BY SessionAssumption
  <2>4. FetchAdd("control", event)
    BY <1>7 DEF PublishLossless
  <2> HIDE DEF event
  <2>5. StreamTypes' /\ SpeaksOfItsOwn' /\ OrderedPerObject'
    BY <2>2, <2>3, <2>4, <1>e, FetchAddFacts, FetchAddOrder
  <2>6. NewestIsCurrent'
    <3>1. \A o \in Objects : event.backed /\ o = event.obj => event.value = Current(o)'
      BY <2>2
    <3>2. \A o \in Objects : ~(event.backed /\ o = event.obj) =>
             Current(o)' = Current(o) /\ (Announced(o)' => Announced(o))
      BY <2>1 DEF Current, Announced
    <3> QED BY <2>2, <2>3, <2>4, <3>1, <3>2, <1>e, FetchAddNewest
  <2> QED BY <2>5, <2>6, <1>t
<1>8. ASSUME NEW p \in Producers, SendEvent(p)
      PROVE  PublisherInv'
  <2>1. Send(p) /\ registry' = registry /\ last_states' = last_states /\ ctl' = ctl
    BY <1>8 DEF SendEvent, engineVars, controlVars
  <2>2. StreamTypes' /\ SpeaksOfItsOwn' /\ OrderedPerObject'
    BY <2>1, SendFacts, SendOrder
  <2>3. NewestIsCurrent'
    <3>1. \A o \in Objects : Current(o)' = Current(o) /\ Announced(o)' = Announced(o)
      BY <2>1 DEF Current, Announced
    <3> QED BY <2>1, <3>1, SendNewest
  <2> QED BY <2>2, <2>3, <1>t
<1>9. CASE \E scope \in Scopes : SetPrincipal(scope)
  BY <1>9, <1>t, NoEvent DEF SetPrincipal, engineVars, controlVars, Current, Announced
<1>10. CASE Revoke
  BY <1>10, <1>t, NoEvent DEF Revoke, engineVars, controlVars, Current, Announced
<1>11. CASE SessionStep \/ Close
  BY <1>11, <1>t, NoEvent, SessionLeavesTheRest DEF engineVars, controlVars, Current, Announced
<1> QED BY <1>1, <1>2, <1>3, <1>4, <1>5, <1>6, <1>7, <1>8, <1>9, <1>10, <1>11 DEF Next

-----------------------------------------------------------------------------
(* The session's invariant.                                                 *)

\* What the session sees of a step of the others.
LEMMA OthersStep ==
  ASSUME PublisherInv, [Next]_vars, ~(SessionStep \/ Close)
  PROVE  /\ UNCHANGED <<pc, ses, cache, got, lagged>>
         /\ seq \in Nat /\ seq' \in Nat /\ seq <= seq'
         /\ Len(log) \in Nat /\ Len(log') \in Nat /\ Len(log) <= Len(log')
         /\ \A i \in 1..Len(log) : log'[i] = log[i]
         /\ generation \in Nat /\ generation' \in Nat
         /\ \/ UNCHANGED <<store, revoked, generation>>
            \/ generation' = generation + 1
<1> USE DEF PublisherInv
<1>0. generation \in Nat /\ Len(log) \in Nat /\ seq \in Nat
  BY SessionAssumption DEF StreamTypes, PublisherTypes
<1>s. \/ UNCHANGED streamVars
      \/ log' = log /\ seq' = seq + 1
      \/ \E p \in Producers : Send(p)
  BY DEF Next, vars, Compose, PublishState, PublishTileState, SetStatus, PublishStatus,
         PublishLossless, SendEvent, SetPrincipal, Revoke, FetchAdd
<1>1. /\ seq' \in Nat /\ seq <= seq'
      /\ Len(log') \in Nat /\ Len(log) <= Len(log')
      /\ \A i \in 1..Len(log) : log'[i] = log[i]
  <2>1. CASE UNCHANGED streamVars
    BY <2>1, <1>0 DEF streamVars
  <2>2. CASE log' = log /\ seq' = seq + 1
    BY <2>2, <1>0
  <2>3. CASE \E p \in Producers : Send(p)
    BY <2>3, <1>0, SendFacts
  <2> QED BY <1>s, <2>1, <2>2, <2>3
<1>2. UNCHANGED <<pc, ses, cache, got, lagged>>
  BY DEF Next, vars, sessionVars, Compose, PublishState, PublishTileState, SetStatus,
         PublishStatus, PublishLossless, SendEvent, SetPrincipal, Revoke
<1>3. \/ UNCHANGED <<store, revoked, generation>>
      \/ generation' = generation + 1
  BY DEF Next, vars, authVars, Compose, PublishState, PublishTileState, SetStatus,
         PublishStatus, PublishLossless, SendEvent, SetPrincipal, Revoke
<1>4. generation' \in Nat
  BY <1>0, <1>3
<1> QED BY <1>0, <1>1, <1>2, <1>3, <1>4

\* A session that has gone.
LEMMA GoneFacts ==
  /\ NoSession \in SesRec
  /\ NoSession.pos = 1 /\ NoSession.since = 1 /\ NoSession.watermark = 0
  /\ NoSession.generation = 0 /\ NoSession.step = <<>>
  /\ Nothing \in [Objects -> Val] /\ \A o \in Objects : Nothing[o] = Absent
<1>1. NoSession \in SesRec
  BY DEF NoSession, SesRec, Scopes, Val, Place
<1>2. /\ NoSession.pos = 1 /\ NoSession.since = 1 /\ NoSession.watermark = 0
      /\ NoSession.generation = 0 /\ NoSession.step = <<>>
  BY DEF NoSession
<1>3. Nothing \in [Objects -> Val] /\ \A o \in Objects : Nothing[o] = Absent
  BY DEF Nothing, Val
<1> QED BY <1>1, <1>2, <1>3

LEMMA InitSessionInv == Init => SessionInv
<1> SUFFICES ASSUME Init PROVE SessionInv
  OBVIOUS
<1>1. /\ seq = 0 /\ Len(log) = 0 /\ pc = "connect" /\ ses = NoSession /\ generation = 0
      /\ cache = Nothing /\ got = {} /\ lagged = FALSE /\ store = Objects /\ ~revoked
  BY DEF Init, StreamInit
<1>2. End = 1
  BY <1>1 DEF End
<1>3. pc \in PCs /\ ses \in SesRec /\ lagged \in BOOLEAN /\ cache \in [Objects -> Val]
  BY <1>1, GoneFacts DEF PCs
<1>5. SessionTypes
  BY <1>1, <1>2, <1>3, GoneFacts DEF SessionTypes
<1>6. InHand /\ ScopeIsCurrent
  BY <1>1, GoneFacts DEF InHand, ScopeIsCurrent, Handshake, Pumping
<1>7. UntouchedKey /\ LosslessSoFar
  BY <1>1, GoneFacts DEF UntouchedKey, LosslessSoFar
<1> QED BY <1>5, <1>6, <1>7 DEF SessionInv

\* A step of the others keeps it: the log only grows, and a mutation of the key
\* makes its generation unknown to the session.
LEMMA OthersKeepSession ==
  ASSUME PublisherInv, SessionInv, [Next]_vars, ~(SessionStep \/ Close)
  PROVE  SessionInv'
<1> USE OthersStep DEF SessionInv
<1>1. SesRec \subseteq SesRec'
  <2>1. Place \subseteq Place'
    BY EventsGrow
  <2> QED BY <2>1 DEF SesRec
<1>2. SessionTypes'
  <2>1. End <= End' /\ End \in Nat /\ End' \in Nat
    BY DEF End
  <2>2. ses.pos \in Nat /\ ses.watermark \in Nat /\ ses.generation \in Nat
    BY DEF SessionTypes, SesRec
  <2>3. ses.pos <= End' /\ ses.watermark <= seq' /\ ses.generation <= generation'
    BY <2>1, <2>2 DEF SessionTypes
  <2>4. got \subseteq 1..seq'
    BY DEF SessionTypes
  <2> QED BY <1>1, <2>3, <2>4 DEF SessionTypes
<1>3. InHand'
  <2> SUFFICES ASSUME ses.step # <<>>
               PROVE  /\ pc \in Pumping \ {"pump"} /\ ses.pos > ses.since
                      /\ ses.step = <<log'[ses.pos - 1]>>
    BY DEF InHand
  <2>1. ses.pos - 1 \in 1..Len(log)
    BY DEF InHand, SessionTypes, SesRec, End
  <2> QED BY <2>1 DEF InHand
<1>4. ScopeIsCurrent'
  BY DEF ScopeIsCurrent, SessionTypes, SesRec
<1>5. UntouchedKey'
  BY DEF UntouchedKey
<1>6. LosslessSoFar'
  <2>1. ASSUME ~lagged, generation' = 0, NEW i \in ses.since..(ses.pos - 1),
               ~log'[i].event.backed
        PROVE  log'[i].seq \in got \/ (ses.step # <<>> /\ i = ses.pos - 1)
    <3>1. i \in 1..Len(log) /\ generation = 0
      BY <2>1 DEF SessionTypes, SesRec, End
    <3> QED BY <2>1, <3>1 DEF LosslessSoFar
  <2> QED BY <2>1 DEF LosslessSoFar
<1> QED BY <1>2, <1>3, <1>4, <1>5, <1>6

\* What the session's own steps leave alone, spelt out.
LEMMA SessionFrame ==
  ASSUME SessionStep \/ Close
  PROVE  /\ seq' = seq /\ log' = log /\ inflight' = inflight
         /\ store' = store /\ revoked' = revoked /\ generation' = generation
         /\ registry' = registry /\ ctl' = ctl
         /\ eng' = eng /\ slot' = slot /\ last_states' = last_states /\ frame' = frame
         /\ SeqEvents' = SeqEvents /\ Place' = Place /\ SesRec' = SesRec
<1>1. UNCHANGED <<streamVars, engineVars, controlVars, authVars>>
  BY SessionLeavesTheRest
<1>2. seq' = seq
  BY <1>1 DEF streamVars
<1>3. SeqEvents' = SeqEvents
  BY <1>2 DEF SeqEvents
<1>4. Place' = Place
  BY <1>3 DEF Place
<1>5. SesRec' = SesRec
  BY <1>4 DEF SesRec
<1> QED BY <1>1, <1>3, <1>4, <1>5 DEF streamVars, engineVars, controlVars, authVars

\* What a rebuilt client holds.
LEMMA RebuiltFacts ==
  ASSUME NEW tiles \in [Tiles -> Val], NEW device \in Val, NEW scope \in Scopes
  PROVE  /\ Rebuilt(tiles, device, scope) \in [Objects -> Val]
         /\ \A o \in Objects : o \notin scope => Rebuilt(tiles, device, scope)[o] = Absent
         /\ Device \in scope => Rebuilt(tiles, device, scope)[Device] = device
         /\ \A t \in Tiles \cap scope : Rebuilt(tiles, device, scope)[t] = tiles[t]
<1>1. Device \in Objects /\ Device \notin Tiles /\ Tiles \subseteq Objects
  BY SessionAssumption DEF Objects
<1>2. \A o \in Objects : Rebuilt(tiles, device, scope)[o] =
         IF o \notin scope THEN Absent ELSE IF o = Device THEN device ELSE tiles[o]
  BY DEF Rebuilt
<1>3. \A o \in Objects : (IF o \notin scope THEN Absent
                          ELSE IF o = Device THEN device ELSE tiles[o]) \in Val
  BY DEF Objects, Val
<1>4. Rebuilt(tiles, device, scope) \in [Objects -> Val]
  BY <1>3 DEF Rebuilt
<1> QED BY <1>1, <1>2, <1>4

\* Ending the session keeps the invariant.
LEMMA EndedKeepsSession ==
  ASSUME PublisherInv, SessionInv, SessionStep \/ Close, Ended
  PROVE  SessionInv'
<1> USE SessionFrame, GoneFacts
<1>1. ses' = NoSession /\ cache' = Nothing /\ got' = {} /\ lagged' = FALSE /\ pc' = "closed"
  BY DEF Ended, Session
<1>2. End' \in Nat /\ End' >= 1 /\ seq' \in Nat /\ generation' \in Nat
  BY SessionAssumption DEF PublisherInv, StreamTypes, PublisherTypes, End
<1>3. pc' \in PCs /\ ses' \in SesRec' /\ lagged' \in BOOLEAN /\ cache' \in [Objects -> Val]
  BY <1>1 DEF PCs
<1>4. SessionTypes'
  BY <1>1, <1>2, <1>3 DEF SessionTypes
<1>5. InHand' /\ ScopeIsCurrent' /\ UntouchedKey' /\ LosslessSoFar'
  BY <1>1 DEF SessionInv, InHand, ScopeIsCurrent, UntouchedKey, LosslessSoFar, Handshake,
              Pumping
<1> QED BY <1>4, <1>5 DEF SessionInv

\* The types of the session.
LEMMA StepSessionTypes ==
  ASSUME PublisherInv, SessionInv, SessionStep \/ Close, ~Ended
  PROVE  SessionTypes'
<1> USE SessionFrame DEF PublisherInv, SessionInv, SessionTypes, PCs, Handshake, Pumping
<1>a. seq \in Nat /\ Len(log) \in Nat /\ End \in Nat /\ End >= 1 /\ End' = End
  BY DEF StreamTypes, End
<1>b. /\ store \in Scopes /\ slot \in [Tiles -> Val] /\ registry \in Val
      /\ generation \in Nat
  BY SessionAssumption DEF PublisherTypes
<1>c. <<>> \in Place /\ \A i \in 1..Len(log) : <<log[i]>> \in Place
  BY EventFacts DEF Place
<1>d. /\ ses.scope \in Scopes /\ ses.snapshot \in [Tiles -> Val] /\ ses.pos \in Nat
      /\ ses.step \in Place
  BY DEF SesRec
<1>1. CASE CaptureBaseline
  BY <1>1, <1>a, <1>b, <1>c, <1>d DEF CaptureBaseline, Session, SesRec
<1>2. CASE Verify
  BY <1>2, <1>a, <1>b, <1>c, <1>d DEF Verify, Session, SesRec
<1>3. CASE Subscribe
  <2>1. ses' = [ses EXCEPT !.pos = End, !.since = End]
    BY <1>3 DEF Subscribe
  <2>2. /\ ses' \in SesRec /\ ses'.pos = End /\ ses'.since = End
        /\ ses'.watermark = ses.watermark /\ ses'.generation = ses.generation
    BY <2>1, <1>a DEF SesRec
  <2> QED BY <1>3, <1>a, <2>2 DEF Subscribe, Session
<1>4. CASE CaptureWatermark
  BY <1>4, <1>a, <1>b, <1>c, <1>d DEF CaptureWatermark, Session, SesRec
<1>5. CASE ReadSnapshot
  BY <1>5, <1>a, <1>b, <1>c, <1>d DEF ReadSnapshot, Session, SesRec
<1>6. CASE Gate
  BY <1>6, <1>a, <1>b, <1>c, <1>d DEF Gate, Unchanged, SampleGeneration, Disconnect, Session, SesRec
<1>7. CASE SendTiles
  <2>1. Absent \in Val
    BY DEF Val
  <2> QED BY <1>7, <1>a, <1>d, <2>1, RebuiltFacts DEF SendTiles, Session
<1>8. CASE SendDevices
  BY <1>8, <1>a, <1>b, <1>c, <1>d DEF SendDevices, Session, SesRec
<1>9. CASE Receive
  <2>1. ses.pos < End /\ ses.pos \in 1..Len(log)
    <3>1. ses.pos >= 1 /\ ses.pos < End
      BY <1>9, <1>d DEF Receive, Readable, SesRec
    <3> QED BY <3>1, <1>a, <1>d DEF End
  <2>2. ses' = [ses EXCEPT !.pos = @ + 1, !.step = <<log[ses.pos]>>] /\ <<log[ses.pos]>> \in Place
    BY <1>9, <1>c, <2>1 DEF Receive
  <2>3. /\ ses' \in SesRec /\ ses'.pos = ses.pos + 1
        /\ ses'.since = ses.since /\ ses'.watermark = ses.watermark
        /\ ses'.generation = ses.generation
    <3> DEFINE e == <<log[ses.pos]>>
    <3>1. e \in Place /\ ses.pos + 1 \in Nat /\ ses' = [ses EXCEPT !.pos = ses.pos + 1, !.step = e]
      BY <2>2, <1>d
    <3> HIDE DEF e
    <3> QED BY <3>1 DEF SesRec
  <2>4. ses.since <= ses.pos + 1 /\ 1 <= ses.pos + 1 /\ ses.pos + 1 <= End
    BY <2>1, <1>a, <1>d DEF SesRec
  <2> QED BY <1>9, <1>a, <2>3, <2>4 DEF Receive, Session
<1>10. CASE SkipLag
  BY <1>10, <1>a, <1>b, <1>c, <1>d DEF SkipLag, Session, SesRec
<1>11. CASE ReauthTick
  BY <1>11, <1>a, <1>b, <1>c, <1>d DEF ReauthTick, Session, SesRec
<1>12. CASE Reauthorize
  <2>1. CASE Resync
    BY <1>a, <1>b, <2>1, RebuiltFacts DEF Resync, Session, SesRec
  <2>2. CASE ~Resync
    BY <1>12, <1>a, <1>b, <1>d, <2>2
       DEF Reauthorize, Unchanged, SampleGeneration, Disconnect, Session, SesRec
  <2> QED BY <2>1, <2>2
<1>13. CASE Project
  <2>1. /\ pc' = "pump" /\ ses' = [ses EXCEPT !.step = <<>>] /\ lagged' = lagged
        /\ ses' \in SesRec
    BY <1>13, <1>c DEF Project, Session, SesRec
  <2>2. CASE ~Deliverable
    BY <1>13, <1>a, <2>1, <2>2 DEF Project
  <2>3. CASE Deliverable
    <3>1. ses.step[1] \in SeqEvents
      BY <1>d, <2>3, PlaceFacts DEF Deliverable
    <3>2. /\ ses.step[1].seq \in 1..seq /\ ses.step[1].event.value \in Val
          /\ ses.step[1].event.obj \in Objects
      BY <3>1 DEF SeqEvents, Events, Val
    <3> QED BY <1>13, <1>a, <2>1, <2>3, <3>2 DEF Project
  <2> QED BY <2>2, <2>3
<1>14. CASE Close
  BY <1>14 DEF Close
<1> QED BY <1>1, <1>2, <1>3, <1>4, <1>5, <1>6, <1>7, <1>8, <1>9, <1>10, <1>11, <1>12, <1>13, <1>14 DEF SessionStep

\* What is in hand.
LEMMA StepInHand ==
  ASSUME PublisherInv, SessionInv, SessionStep \/ Close, ~Ended
  PROVE  InHand'
<1> USE SessionFrame DEF SessionInv, InHand, Handshake, Pumping
<1>r. ses \in SesRec
  BY DEF SessionTypes
<1>1. CASE CaptureBaseline
  BY <1>1, <1>r DEF CaptureBaseline, Session, SesRec
<1>2. CASE Verify
  BY <1>2, <1>r DEF Verify, Session, SesRec
<1>3. CASE Subscribe
  BY <1>3, <1>r DEF Subscribe, Session, SesRec
<1>4. CASE CaptureWatermark
  BY <1>4, <1>r DEF CaptureWatermark, Session, SesRec
<1>5. CASE ReadSnapshot
  BY <1>5, <1>r DEF ReadSnapshot, Session, SesRec
<1>6. CASE Gate
  BY <1>6, <1>r DEF Gate, Unchanged, SampleGeneration, Disconnect, Session, SesRec
<1>7. CASE SendTiles
  BY <1>7, <1>r DEF SendTiles, Session, SesRec
<1>8. CASE SendDevices
  BY <1>8, <1>r DEF SendDevices, Session, SesRec
<1>9. CASE Receive
  <2>1. ses.pos \in Nat /\ ses.since <= ses.pos /\ ses.since \in Nat
    BY DEF SessionTypes, SesRec
  <2>2. ses' = [ses EXCEPT !.pos = ses.pos + 1, !.step = <<log[ses.pos]>>]
    BY <1>9 DEF Receive
  <2>3. /\ ses'.pos = ses.pos + 1 /\ ses'.since = ses.since
        /\ ses'.step = <<log[ses.pos]>> /\ ses'.pos - 1 = ses.pos
    BY <2>1, <2>2, <1>r DEF SesRec
  <2> QED BY <1>9, <2>1, <2>3 DEF Receive, Session
<1>10. CASE SkipLag
  BY <1>10, <1>r DEF SkipLag, Session, SesRec
<1>11. CASE ReauthTick
  BY <1>11, <1>r DEF ReauthTick, Session, SesRec
<1>12. CASE Reauthorize
  BY <1>12, <1>r DEF Reauthorize, Unchanged, SampleGeneration, Disconnect, Resync, Session, SesRec
<1>13. CASE Project
  BY <1>13, <1>r DEF Project, Session, SesRec
<1>14. CASE Close
  BY <1>14 DEF Close
<1> QED BY <1>1, <1>2, <1>3, <1>4, <1>5, <1>6, <1>7, <1>8, <1>9, <1>10, <1>11, <1>12, <1>13, <1>14 DEF SessionStep

\* The scope is adopted at the generation it was read at, and the client is
\* rebuilt whenever the scope changes once it holds something.
LEMMA StepScopeIsCurrent ==
  ASSUME PublisherInv, SessionInv, SessionStep \/ Close, ~Ended
  PROVE  ScopeIsCurrent'
<1> USE SessionFrame DEF SessionInv, ScopeIsCurrent, Handshake, Pumping
<1>r. ses \in SesRec /\ \A o \in Objects : Nothing[o] = Absent
  BY GoneFacts DEF SessionTypes
<1>1. CASE CaptureBaseline
  BY <1>1, <1>r DEF CaptureBaseline, Session, SesRec
<1>2. CASE Verify
  BY <1>2, <1>r DEF Verify, Session, SesRec
<1>3. CASE Subscribe
  BY <1>3, <1>r DEF Subscribe, Session, SesRec
<1>4. CASE CaptureWatermark
  BY <1>4, <1>r DEF CaptureWatermark, Session, SesRec
<1>5. CASE ReadSnapshot
  BY <1>5, <1>r DEF ReadSnapshot, Session, SesRec
<1>6. CASE Gate
  BY <1>6, <1>r DEF Gate, Unchanged, SampleGeneration, Disconnect, Session, SesRec
<1>7. CASE SendTiles
  <2>1. ses.snapshot \in [Tiles -> Val] /\ ses.scope \in Scopes /\ Absent \in Val
    BY <1>r DEF SesRec, Val
  <2> QED BY <1>7, <2>1, RebuiltFacts DEF SendTiles, Session, SesRec
<1>8. CASE SendDevices
  <2>1. cache \in [Objects -> Val]
    BY DEF SessionTypes
  <2> QED BY <1>8, <2>1 DEF SendDevices, Session, SesRec
<1>9. CASE Receive
  BY <1>9, <1>r DEF Receive, Session, SesRec
<1>10. CASE SkipLag
  BY <1>10, <1>r DEF SkipLag, Session, SesRec
<1>11. CASE ReauthTick
  BY <1>11, <1>r DEF ReauthTick, Session, SesRec
<1>12. CASE Reauthorize
  <2>1. CASE Resync
    <3>1. slot \in [Tiles -> Val] /\ registry \in Val /\ store \in Scopes
      BY DEF PublisherInv, PublisherTypes
    <3>2. cache' = Rebuilt(slot, registry, store) /\ ses' = [ses EXCEPT !.scope = store]
      BY <2>1 DEF Resync
    <3>3. ses'.scope = store /\ \A o \in Objects : cache'[o] # Absent => o \in store
      BY <3>1, <3>2, <1>r, RebuiltFacts DEF SesRec
    <3> QED BY <2>1, <3>3 DEF Resync, Session, SesRec
  <2>2. CASE ~Resync
    BY <1>12, <1>r, <2>2
       DEF Reauthorize, Unchanged, SampleGeneration, Disconnect, Session, SesRec
  <2> QED BY <2>1, <2>2
<1>13. CASE Project
  <2>1. /\ pc = "project" /\ pc' = "pump" /\ ses' = [ses EXCEPT !.step = <<>>]
        /\ cache \in [Objects -> Val]
    BY <1>13 DEF Project, Session, SessionTypes
  <2>2. ses'.scope = ses.scope /\ ses'.generation = ses.generation
    BY <2>1, <1>r DEF SesRec
  <2>3. \A o \in Objects : cache'[o] # Absent => o \in ses.scope
    BY <1>13, <2>1 DEF Project, Deliverable
  <2> QED BY <2>1, <2>2, <2>3
<1>14. CASE Close
  BY <1>14 DEF Close
<1> QED BY <1>1, <1>2, <1>3, <1>4, <1>5, <1>6, <1>7, <1>8, <1>9, <1>10, <1>11, <1>12, <1>13, <1>14 DEF SessionStep

\* Nobody touched the key, so its scope is the one it started with.
LEMMA StepUntouchedKey ==
  ASSUME PublisherInv, SessionInv, SessionStep \/ Close, ~Ended
  PROVE  UntouchedKey'
<1> USE SessionFrame DEF SessionInv, UntouchedKey
<1>r. ses \in SesRec
  BY DEF SessionTypes
<1>1. CASE CaptureBaseline
  BY <1>1, <1>r DEF CaptureBaseline, Session, SesRec
<1>2. CASE Verify
  BY <1>2, <1>r DEF Verify, Session, SesRec
<1>3. CASE Subscribe
  BY <1>3, <1>r DEF Subscribe, Session, SesRec
<1>4. CASE CaptureWatermark
  BY <1>4, <1>r DEF CaptureWatermark, Session, SesRec
<1>5. CASE ReadSnapshot
  BY <1>5, <1>r DEF ReadSnapshot, Session, SesRec
<1>6. CASE Gate
  BY <1>6, <1>r DEF Gate, Unchanged, SampleGeneration, Disconnect, Session, SesRec
<1>7. CASE SendTiles
  BY <1>7, <1>r DEF SendTiles, Session, SesRec
<1>8. CASE SendDevices
  BY <1>8, <1>r DEF SendDevices, Session, SesRec
<1>9. CASE Receive
  BY <1>9, <1>r DEF Receive, Session, SesRec
<1>10. CASE SkipLag
  BY <1>10, <1>r DEF SkipLag, Session, SesRec
<1>11. CASE ReauthTick
  BY <1>11, <1>r DEF ReauthTick, Session, SesRec
<1>12. CASE Reauthorize
  BY <1>12, <1>r DEF Reauthorize, Unchanged, SampleGeneration, Disconnect, Resync, Session, SesRec
<1>13. CASE Project
  BY <1>13, <1>r DEF Project, Session, SesRec
<1>14. CASE Close
  BY <1>14 DEF Close
<1> QED BY <1>1, <1>2, <1>3, <1>4, <1>5, <1>6, <1>7, <1>8, <1>9, <1>10, <1>11, <1>12, <1>13, <1>14 DEF SessionStep

\* Nothing lossless is skipped.
LEMMA StepLosslessSoFar ==
  ASSUME PublisherInv, SessionInv, SessionStep \/ Close, ~Ended
  PROVE  LosslessSoFar'
<1> USE SessionFrame DEF SessionInv, LosslessSoFar
<1>r. /\ ses \in SesRec /\ ses.pos \in Nat /\ ses.since \in Nat /\ End \in Nat
      /\ ses.since <= ses.pos
  BY DEF SessionTypes, SesRec, PublisherInv, StreamTypes, End
<1>1. CASE CaptureBaseline
  BY <1>1, <1>r DEF CaptureBaseline, Session, SesRec
<1>2. CASE Verify
  BY <1>2, <1>r DEF Verify, Session, SesRec
<1>3. CASE Subscribe
  <2>1. ses' = [ses EXCEPT !.pos = End, !.since = End]
    BY <1>3 DEF Subscribe
  <2>2. ses'.pos = End /\ ses'.since = End
    BY <2>1, <1>r DEF SesRec
  <2> QED BY <1>3, <1>r, <2>2 DEF Subscribe, Session
<1>4. CASE CaptureWatermark
  BY <1>4, <1>r DEF CaptureWatermark, Session, SesRec
<1>5. CASE ReadSnapshot
  BY <1>5, <1>r DEF ReadSnapshot, Session, SesRec
<1>6. CASE Gate
  BY <1>6, <1>r DEF Gate, Unchanged, SampleGeneration, Disconnect, Session, SesRec
<1>7. CASE SendTiles
  BY <1>7, <1>r DEF SendTiles, Session, SesRec
<1>8. CASE SendDevices
  BY <1>8, <1>r DEF SendDevices, Session, SesRec
<1>9. CASE Receive
  <2>1. ses' = [ses EXCEPT !.pos = ses.pos + 1, !.step = <<log[ses.pos]>>]
    BY <1>9 DEF Receive
  <2>2. ses'.pos = ses.pos + 1 /\ ses'.since = ses.since /\ ses'.step = <<log[ses.pos]>>
    BY <2>1, <1>r DEF SesRec
  <2>3. ses.step = <<>> /\ got' = got /\ lagged' = lagged /\ pc' = "reauth"
    BY <1>9 DEF Receive, Session, InHand, Pumping
  <2>4. ASSUME ~lagged, generation = 0, NEW i \in ses.since..ses.pos, ~log[i].event.backed
        PROVE  log[i].seq \in got \/ i = ses.pos
    <3>1. CASE i = ses.pos
      BY <3>1
    <3>2. CASE i # ses.pos
      <4>1. i \in ses.since..(ses.pos - 1)
        BY <3>2, <1>r
      <4> QED BY <2>3, <2>4, <4>1
    <3> QED BY <3>1, <3>2
  <2>5. (ses.pos + 1) - 1 = ses.pos /\ ses'.step # <<>>
    BY <1>r, <2>2
  <2> QED BY <2>2, <2>3, <2>4, <2>5
<1>10. CASE SkipLag
  BY <1>10, <1>r DEF SkipLag, Session, SesRec
<1>11. CASE ReauthTick
  BY <1>11, <1>r DEF ReauthTick, Session, SesRec
<1>12. CASE Reauthorize
  BY <1>12, <1>r DEF Reauthorize, Unchanged, SampleGeneration, Disconnect, Resync, Session, SesRec
<1>13. CASE Project
  <2>1. ses' = [ses EXCEPT !.step = <<>>] /\ pc = "project" /\ pc' = "pump" /\ lagged' = lagged
    BY <1>13 DEF Project, Session
  <2>2. ses'.pos = ses.pos /\ ses'.since = ses.since /\ ses'.step = <<>>
    BY <2>1, <1>r DEF SesRec
  <2>3. ASSUME ~lagged, generation = 0, NEW i \in ses.since..(ses.pos - 1),
               ~log[i].event.backed
        PROVE  log[i].seq \in got'
    <3>1. got \subseteq got'
      BY <1>13 DEF Project
    <3>2. CASE log[i].seq \in got
      BY <3>1, <3>2
    <3>3. CASE log[i].seq \notin got
      <4>1. ses.step # <<>> /\ i = ses.pos - 1
        BY <2>3, <3>3
      <4>2. ses.step = <<log[i]>>
        BY <4>1 DEF InHand
      <4>3. ses.step[1] = log[i]
        BY <4>2
      <4>4. log[i].event.obj \in Objects
        <5>1. i \in 1..Len(log)
          BY <1>r DEF SessionTypes, End
        <5> QED BY <5>1, EventFacts DEF PublisherInv, Events
      <4>5. ses.scope = Objects
        BY <2>1, <2>3 DEF UntouchedKey
      <4>6. Deliverable
        BY <2>3, <4>1, <4>3, <4>4, <4>5 DEF Deliverable, BehindWatermark
      <4> QED BY <1>13, <2>3, <4>3, <4>6 DEF Project
    <3> QED BY <3>2, <3>3
  <2> QED BY <2>1, <2>2, <2>3
<1>14. CASE Close
  BY <1>14 DEF Close
<1> QED BY <1>1, <1>2, <1>3, <1>4, <1>5, <1>6, <1>7, <1>8, <1>9, <1>10, <1>11, <1>12, <1>13, <1>14 DEF SessionStep

LEMMA NextSessionInv ==
  ASSUME PublisherInv, SessionInv, [Next]_vars
  PROVE  SessionInv'
<1>1. CASE ~(SessionStep \/ Close)
  BY <1>1, OthersKeepSession
<1>2. CASE (SessionStep \/ Close) /\ Ended
  BY <1>2, EndedKeepsSession
<1>3. CASE (SessionStep \/ Close) /\ ~Ended
  BY <1>3, StepSessionTypes, StepInHand, StepScopeIsCurrent, StepUntouchedKey,
     StepLosslessSoFar DEF SessionInv
<1> QED BY <1>1, <1>2, <1>3

-----------------------------------------------------------------------------
(* What follows, for every behaviour.                                       *)

\* The stream and the session stay as they must.
THEOREM SessionInvariant == Spec => [](PublisherInv /\ SessionInv)
<1>1. Init => PublisherInv /\ SessionInv
  BY InitPublisherInv, InitSessionInv
<1>2. PublisherInv /\ SessionInv /\ [Next]_vars => PublisherInv' /\ SessionInv'
  BY NextPublisherInv, NextSessionInv
<1> QED BY <1>1, <1>2, PTL DEF Spec

\* Types: the cursor stays within the log and the generation a session knows
\* is one the store has had.
THEOREM SessionTypeCorrect == Spec => []TypeOK
<1>1. PublisherInv /\ SessionInv => TypeOK
  <2> SUFFICES ASSUME PublisherInv, SessionInv PROVE TypeOK
    OBVIOUS
  <2> USE DEF PublisherInv, SessionInv
  <2>1. seq \in Nat /\ log \in Seq(SeqEvents) /\ Len(log) \in Nat /\ generation \in Nat
    BY SessionAssumption DEF StreamTypes, PublisherTypes
  <2>2. \A p \in Producers : Len(inflight[p]) <= 1 /\ inflight[p] \in Seq(SeqEvents)
    <3> SUFFICES ASSUME NEW p \in Producers
                 PROVE  Len(inflight[p]) <= 1 /\ inflight[p] \in Seq(SeqEvents)
      OBVIOUS
    <3>1. CASE inflight[p] = <<>>
      BY <3>1
    <3>2. CASE inflight[p] # <<>>
      <4>1. PICK e \in SeqEvents : inflight[p] = <<e>>
        BY <3>2 DEF StreamTypes, Place
      <4> QED BY <4>1
    <3> QED BY <3>1, <3>2
  <2>3. /\ ses.pos \in 1..End /\ ses.watermark \in 0..seq
        /\ ses.scope \in Scopes /\ ses.generation \in 0..generation
    <3>1. End \in Nat
      BY <2>1 DEF End
    <3> QED BY <2>1, <3>1 DEF SessionTypes, SesRec
  <2> QED BY <2>1, <2>2, <2>3 DEF TypeOK, PublisherTypes, SessionTypes, Val
<1> QED BY <1>1, SessionInvariant, PTL

\* A session that has seen the store's current generation serves a key that
\* still stands and holds nothing outside its scope.
THEOREM SettledIsScoped == Spec => []SettledSessionIsScoped
<1>1. SessionInv => SettledSessionIsScoped
  BY DEF SessionInv, ScopeIsCurrent, SettledSessionIsScoped
<1> QED BY <1>1, SessionInvariant, PTL

\* No lossless event sent after the subscription is dropped.
THEOREM NoLosslessEventDropped == Spec => []LosslessDelivered
<1>1. SessionInv => LosslessDelivered
  BY DEF SessionInv, LosslessSoFar, InHand, LosslessDelivered, Pumping
<1> QED BY <1>1, SessionInvariant, PTL

-----------------------------------------------------------------------------
(* Snapshot plus deltas.                                                    *)

\* What is to come stays to come while the others move.
LEMMA PendingStays ==
  ASSUME PublisherInv, SessionInv, [Next]_vars, ~(SessionStep \/ Close),
         NEW o \in Objects, Pending(o)
  PROVE  Pending(o)'
<1> USE OthersStep DEF Ahead, About
<1>0. StreamTypes /\ ses \in SesRec /\ ses.pos \in Nat /\ ses.pos <= End /\ ses' = ses
  BY DEF PublisherInv, SessionInv, SessionTypes, SesRec
<1>1. CASE ses.step # <<>> /\ Ahead(ses.step[1], o)
  BY <1>0, <1>1 DEF Pending
<1>2. ASSUME NEW i \in 1..Len(log), i >= ses.pos, Ahead(log[i], o)
      PROVE  Pending(o)'
  <2>1. i \in 1..Len(log') /\ log'[i] = log[i]
    OBVIOUS
  <2> QED BY <1>0, <1>2, <2>1 DEF Pending
<1>3. ASSUME NEW p \in Producers, ~Idle(p), Ahead(inflight[p][1], o)
      PROVE  Pending(o)'
  <2>1. CASE Send(p)
    <3>1. /\ log'[Len(log) + 1] = inflight[p][1] /\ Len(log) + 1 \in 1..Len(log')
          /\ Len(log) + 1 >= ses.pos
      BY <1>0, <2>1, SendFacts DEF End
    <3> QED BY <1>0, <1>3, <3>1 DEF Pending
  <2>2. CASE ~Send(p)
    <3>1. inflight'[p] = inflight[p]
      <4>1. \/ UNCHANGED streamVars
            \/ \E q \in Producers, event \in Events : FetchAdd(q, event)
            \/ \E q \in Producers : Send(q)
        <5>1. CASE PublishTileState
          BY <5>1, TileEvent, SessionAssumption DEF PublishTileState, PublisherInv
        <5>2. CASE PublishStatus
          BY <5>2, DeviceEvent, SessionAssumption DEF PublishStatus, PublisherInv, PublisherTypes
        <5>3. CASE PublishLossless
          BY <5>3, DeviceEvent, SessionAssumption DEF PublishLossless, Val
        <5> QED BY <5>1, <5>2, <5>3
               DEF Next, vars, Compose, PublishState, SetStatus, SendEvent, SetPrincipal, Revoke
      <4>2. CASE UNCHANGED streamVars
        BY <4>2 DEF streamVars
      <4>3. CASE \E q \in Producers, event \in Events : FetchAdd(q, event)
        BY <4>3, <1>0, <1>3, FetchAddFacts
      <4>4. CASE \E q \in Producers : Send(q)
        BY <4>4, <1>0, <2>2, SendFacts
      <4> QED BY <4>1, <4>2, <4>3, <4>4
    <3>2. ~Idle(p)'
      BY <1>3, <3>1 DEF Idle
    <3> QED BY <1>0, <1>3, <3>1, <3>2 DEF Pending
  <2> QED BY <2>1, <2>2
<1> QED BY <1>1, <1>2, <1>3 DEF Pending

\* A new event about o is to come: its number is past the watermark.
LEMMA NewEventPending ==
  ASSUME PublisherInv, SessionInv, ses' = ses, NEW o \in Objects, NEW p \in Producers,
         NEW event \in Events, FetchAdd(p, event), event.obj = o, event.backed
  PROVE  Pending(o)'
<1>1. /\ ~Idle(p)' /\ inflight'[p][1].event = event /\ inflight'[p][1].seq = seq + 1
      /\ seq \in Nat
  BY FetchAddFacts DEF PublisherInv, StreamTypes
<1>2. ses.watermark \in Nat /\ ses.watermark <= seq
  BY DEF SessionInv, SessionTypes, SesRec
<1>3. inflight'[p][1].seq > ses'.watermark
  BY <1>1, <1>2
<1> QED BY <1>1, <1>3 DEF Pending, Ahead, About

\* A step of the session that moves neither cursor, hand nor watermark.
LEMMA PendingSame ==
  ASSUME SessionStep \/ Close, ses'.pos = ses.pos, ses'.step = ses.step,
         ses'.watermark = ses.watermark, NEW o \in Objects, Pending(o)
  PROVE  Pending(o)'
BY SessionFrame DEF Pending, Ahead, About, Idle

\* Taking the next event into the hand.
LEMMA PendingReceive ==
  ASSUME SessionInv, Receive, NEW o \in Objects, Pending(o)
  PROVE  Pending(o)'
<1>1. ses.step = <<>> /\ ses \in SesRec /\ ses.pos \in Nat
  BY DEF SessionInv, InHand, SessionTypes, SesRec, Receive, Pumping
<1>2. /\ ses'.pos = ses.pos + 1 /\ ses'.step = <<log[ses.pos]>>
      /\ ses'.watermark = ses.watermark
  <2>1. ses' = [ses EXCEPT !.pos = ses.pos + 1, !.step = <<log[ses.pos]>>]
    BY DEF Receive
  <2> QED BY <2>1, <1>1 DEF SesRec
<1>3. log' = log /\ inflight' = inflight
  BY SessionFrame DEF SessionStep
<1>4. ses'.step # <<>> /\ ses'.step[1] = log[ses.pos]
  BY <1>2
<1>5. ASSUME NEW i \in 1..Len(log), i >= ses.pos, Ahead(log[i], o)
      PROVE  Pending(o)'
  <2>1. CASE i = ses.pos
    BY <1>2, <1>4, <1>5, <2>1 DEF Pending, Ahead, About
  <2>2. CASE i # ses.pos
    <3>1. i >= ses'.pos /\ i \in 1..Len(log') /\ log'[i] = log[i]
      BY <1>1, <1>2, <1>3, <1>5, <2>2
    <3> QED BY <1>2, <1>5, <3>1 DEF Pending, Ahead, About
  <2> QED BY <2>1, <2>2
<1>6. ASSUME NEW p \in Producers, ~Idle(p), Ahead(inflight[p][1], o)
      PROVE  Pending(o)'
  BY <1>2, <1>3, <1>6 DEF Pending, Ahead, About, Idle
<1> QED BY <1>1, <1>5, <1>6 DEF Pending

\* Delivering, or dropping, what is in hand: the object is left as it was, or
\* a later event about it is to come, or this was the newest and is current.
LEMMA ProjectShows ==
  ASSUME PublisherInv, SessionInv, Project, NEW o \in Objects, o \in ses.scope
  PROVE  \/ cache'[o] = cache[o] /\ (Pending(o) => Pending(o)')
         \/ Pending(o)'
         \/ Announced(o) => cache'[o] = Current(o)
<1>1. /\ ses \in SesRec /\ ses.pos \in Nat /\ ses.since \in Nat /\ ses.since >= 1
      /\ ses.watermark \in Nat /\ cache \in [Objects -> Val]
      /\ ses.pos <= End /\ ses.step \in Place
  BY DEF SessionInv, SessionTypes, SesRec
<1>2. log' = log /\ inflight' = inflight
  BY SessionFrame DEF SessionStep
<1>3. ses'.pos = ses.pos /\ ses'.step = <<>> /\ ses'.watermark = ses.watermark
  <2>1. ses' = [ses EXCEPT !.step = <<>>]
    BY DEF Project
  <2> QED BY <2>1, <1>1 DEF SesRec
<1>4. /\ \A i \in 1..Len(log) : i >= ses.pos /\ Ahead(log[i], o) => Pending(o)'
      /\ \A p \in Producers : ~Idle(p) /\ Ahead(inflight[p][1], o) => Pending(o)'
  BY <1>2, <1>3 DEF Pending, Ahead, About, Idle
<1>5. CASE ses.step = <<>>
  BY <1>4, <1>5 DEF Project, Deliverable, Pending
<1>6. CASE ses.step # <<>>
  <2> DEFINE e == ses.step[1]
             n == ses.pos - 1
  <2>1. n \in 1..Len(log) /\ e = log[n]
    <3>1. n \in 1..Len(log)
      BY <1>1, <1>6 DEF SessionInv, InHand, End, PublisherInv, StreamTypes
    <3>2. ses.step = <<log[n]>>
      BY <1>6 DEF SessionInv, InHand
    <3> QED BY <3>1, <3>2
  <2>2. e.seq \in Nat /\ e.event \in Events
    BY <2>1, EventFacts DEF PublisherInv, StreamTypes
  <2>3. ASSUME Ahead(e, o)
        PROVE  Pending(o)' \/ (Announced(o) => cache'[o] = Current(o))
    <3>1. cache'[o] = e.event.value
      <4>1. Deliverable /\ e.event.backed /\ e.event.obj = o
        BY <1>1, <1>6, <2>2, <2>3 DEF Deliverable, BehindWatermark, Ahead, About
      <4> QED BY <1>1, <4>1 DEF Project
    <3>2. ASSUME NEW j \in 1..Len(log), j > n, About(log[j], o)
          PROVE  Pending(o)'
      <4>1. e.seq < log[j].seq
        BY <2>1, <2>3, <3>2 DEF PublisherInv, OrderedPerObject, Ahead, About
      <4>2. j >= ses.pos /\ log[j].seq \in Nat
        BY <1>1, <3>2, EventFacts DEF PublisherInv, StreamTypes
      <4> QED BY <1>1, <1>4, <2>2, <2>3, <3>2, <4>1, <4>2 DEF Ahead
    <3>3. ASSUME InFlight(o)
          PROVE  Pending(o)'
      <4>1. PICK p \in Producers : ~Idle(p) /\ About(inflight[p][1], o)
        BY <3>3 DEF InFlight
      <4>2. e.seq < inflight[p][1].seq
        BY <2>1, <2>3, <4>1 DEF PublisherInv, OrderedPerObject, Ahead, About
      <4>3. inflight[p][1].seq \in Nat
        BY <4>1, EventFacts DEF PublisherInv, StreamTypes
      <4> QED BY <1>1, <1>4, <2>2, <2>3, <4>1, <4>2, <4>3 DEF Ahead
    <3>4. ASSUME ~Pending(o)', Announced(o)
          PROVE  e.event.value = Current(o)
      <4>1. LastAbout(n, o) /\ ~InFlight(o)
        BY <2>1, <2>3, <3>2, <3>3, <3>4 DEF LastAbout, Ahead
      <4> QED BY <2>1, <3>4, <4>1 DEF PublisherInv, NewestIsCurrent
    <3> QED BY <3>1, <3>4
  <2>4. ASSUME ~Ahead(e, o)
        PROVE  cache'[o] = cache[o] /\ (Pending(o) => Pending(o)')
    <3>1. Pending(o) => Pending(o)'
      BY <1>4, <2>4 DEF Pending
    <3>2. cache'[o] = cache[o]
      <4>1. Deliverable /\ e.event.backed => e.event.obj # o
        BY <1>1, <2>2, <2>4 DEF Deliverable, BehindWatermark, Ahead, About
      <4> QED BY <1>1, <4>1 DEF Project
    <3> QED BY <3>1, <3>2
  <2> QED BY <2>3, <2>4
<1> QED BY <1>5, <1>6

\* The session's steps that deliver nothing and read nothing: what is shown of
\* an object, and what is to come about it, are as before.
LEMMA QuietStep ==
  ASSUME PublisherInv, SessionInv, SessionStep \/ Close, ~Ended,
         pc' \in {"sendDevices"} \cup Handshake \cup Pumping
  PROVE  \/ ReadSnapshot \/ SendTiles \/ SendDevices \/ Receive \/ Resync \/ Project
         \/ lagged'
         \/ /\ cache' = cache /\ lagged' = lagged
            /\ ses'.pos = ses.pos /\ ses'.step = ses.step /\ ses'.watermark = ses.watermark
            /\ ses'.snapshot = ses.snapshot
            /\ \/ pc \in Handshake /\ pc' \in Handshake
               \/ pc \in Pumping /\ pc' \in Pumping /\ ses'.scope = ses.scope
<1> USE DEF Handshake, Pumping, Session
<1>r. ses \in SesRec
  BY DEF SessionInv, SessionTypes
<1>1. CASE CaptureBaseline \/ Verify \/ Subscribe \/ CaptureWatermark
  BY <1>1 DEF CaptureBaseline, Verify, Subscribe, CaptureWatermark
<1>2. CASE Gate
  BY <1>2, <1>r DEF Gate, Unchanged, SampleGeneration, Disconnect, SesRec
<1>3. CASE SkipLag \/ ReauthTick
  BY <1>3 DEF SkipLag, ReauthTick
<1>4. CASE Reauthorize
  BY <1>4, <1>r DEF Reauthorize, Unchanged, SampleGeneration, Disconnect, SesRec
<1>5. CASE Close
  BY <1>5 DEF Close
<1> QED BY <1>1, <1>2, <1>3, <1>4, <1>5 DEF SessionStep

LEMMA NextDeviceInv ==
  ASSUME PublisherInv, SessionInv, DeviceInv, [Next]_vars
  PROVE  DeviceInv'
<1> SUFFICES ASSUME ~lagged', pc' \in Pumping, Device \in ses'.scope
             PROVE  DeviceUpToDate'
  BY DEF DeviceInv
<1>d. Device \in Objects /\ "control" \in Producers
  BY SessionAssumption DEF Objects
<1>1. CASE ~(SessionStep \/ Close)
  <2>1. UNCHANGED <<pc, ses, cache, lagged>> /\ (cache[Device] = registry \/ ctl = "set" \/ Pending(Device))
    <3>1. UNCHANGED <<pc, ses, cache, lagged>>
      BY <1>1, OthersStep
    <3> QED BY <3>1 DEF DeviceInv, DeviceUpToDate
  <2>2. Pending(Device) => Pending(Device)'
    BY <1>1, <1>d, PendingStays
  <2>3. CASE SetStatus
    BY <2>3 DEF SetStatus, DeviceUpToDate
  <2>4. CASE PublishStatus
    <3> DEFINE event == [obj |-> Device, value |-> registry, backed |-> TRUE]
    <3>1. /\ event \in Events /\ event.obj = Device /\ event.backed
          /\ FetchAdd("control", event) /\ ses' = ses
      BY <2>1, <2>4, DeviceEvent DEF PublishStatus, PublisherInv, PublisherTypes
    <3> HIDE DEF event
    <3>2. Pending(Device)'
      BY <3>1, <1>d, NewEventPending
    <3> QED BY <3>2 DEF DeviceUpToDate
  <2>5. CASE ~SetStatus /\ ~PublishStatus
    <3>1. registry' = registry /\ ctl' = ctl
      BY <1>1, <2>5 DEF Next, vars, controlVars, Compose, PublishState, PublishTileState,
                        PublishLossless, SendEvent, SetPrincipal, Revoke
    <3> QED BY <2>1, <2>2, <3>1 DEF DeviceUpToDate
  <2> QED BY <2>3, <2>4, <2>5
<1>2. CASE (SessionStep \/ Close) /\ ~Ended
  <2>0. registry' = registry /\ ctl' = ctl /\ ses \in SesRec
    BY <1>2, SessionFrame DEF SessionInv, SessionTypes
  <2>1. CASE ReadSnapshot \/ SendTiles
    BY <2>1 DEF ReadSnapshot, SendTiles, Session, Pumping
  <2>2. CASE SendDevices
    <3>1. cache'[Device] = registry
      BY <2>2, <1>d DEF SendDevices, SessionInv, SessionTypes
    <3> QED BY <2>0, <3>1 DEF DeviceUpToDate
  <2>3. CASE Receive
    <3>1. pc \in Pumping /\ cache' = cache /\ lagged' = lagged /\ ses'.scope = ses.scope
      BY <2>0, <2>3 DEF Receive, Pumping, SesRec
    <3>2. DeviceUpToDate
      BY <3>1 DEF DeviceInv
    <3>3. Pending(Device) => Pending(Device)'
      BY <2>3, <1>d, PendingReceive
    <3> QED BY <2>0, <3>1, <3>2, <3>3 DEF DeviceUpToDate
  <2>4. CASE Resync
    <3>1. ses'.scope = store /\ cache' = Rebuilt(slot, registry, store)
      BY <2>0, <2>4 DEF Resync, SesRec
    <3>2. cache'[Device] = registry
      BY <3>1, RebuiltFacts DEF PublisherInv, PublisherTypes
    <3> QED BY <2>0, <3>2 DEF DeviceUpToDate
  <2>5. CASE Project
    <3>1. pc \in Pumping /\ lagged' = lagged /\ ses'.scope = ses.scope
      BY <2>0, <2>5 DEF Project, Pumping, SesRec
    <3>2. DeviceUpToDate
      BY <3>1 DEF DeviceInv
    <3>3. \/ cache'[Device] = cache[Device] /\ (Pending(Device) => Pending(Device)')
          \/ Pending(Device)'
          \/ Announced(Device) => cache'[Device] = Current(Device)
      BY <2>5, <3>1, <1>d, ProjectShows
    <3>4. ctl = "idle" \/ ctl = "set"
      BY DEF PublisherInv, PublisherTypes
    <3> QED BY <2>0, <3>2, <3>3, <3>4 DEF DeviceUpToDate, Announced, Current
  <2>6. CASE /\ cache' = cache /\ lagged' = lagged
             /\ ses'.pos = ses.pos /\ ses'.step = ses.step /\ ses'.watermark = ses.watermark
             /\ pc \in Pumping /\ ses'.scope = ses.scope
    <3>1. DeviceUpToDate
      BY <2>6 DEF DeviceInv
    <3>2. Pending(Device) => Pending(Device)'
      BY <1>2, <1>d, <2>6, PendingSame
    <3> QED BY <2>0, <2>6, <3>1, <3>2 DEF DeviceUpToDate
  <2> QED BY <1>2, <2>1, <2>2, <2>3, <2>4, <2>5, <2>6, QuietStep DEF Handshake, Pumping
<1>3. CASE (SessionStep \/ Close) /\ Ended
  BY <1>3 DEF Ended, Session, Pumping
<1> QED BY <1>1, <1>2, <1>3

\* With one tile the slot and the announced states part only between the two
\* publishes of a tick.
LEMMA NextSlotAnnounced ==
  ASSUME OneTile, PublisherInv, SlotAnnounced, [Next]_vars
  PROVE  SlotAnnounced'
<1> USE DEF SlotAnnounced
<1>1. CASE Compose
  BY <1>1 DEF Compose
<1>2. CASE PublishState
  BY <1>2 DEF PublishState
<1>3. CASE PublishTileState
  <2>1. eng = "published" /\ eng' = "idle" /\ slot' = slot
    BY <1>3 DEF PublishTileState
  <2>2. last_states' = frame
    <3>1. CASE last_states = frame /\ UNCHANGED <<streamVars, last_states>>
      BY <3>1
    <3>2. ASSUME NEW t \in Tiles, last_states' = [last_states EXCEPT ![t] = frame[t]]
          PROVE  last_states' = frame
      <4>1. \A s \in Tiles : s = t
        BY DEF OneTile
      <4>2. last_states \in [Tiles -> Val] /\ frame \in [Tiles -> Val]
        BY DEF PublisherInv, PublisherTypes
      <4>3. last_states' \in [Tiles -> Val] /\ \A s \in Tiles : last_states'[s] = frame[s]
        BY <3>2, <4>1, <4>2
      <4> QED BY <4>2, <4>3
    <3> QED BY <1>3, <3>1, <3>2 DEF PublishTileState
  <2> QED BY <2>1, <2>2
<1>4. CASE SessionStep \/ Close
  BY <1>4, SessionFrame
<1>5. CASE ~Compose /\ ~PublishState /\ ~PublishTileState /\ ~(SessionStep \/ Close)
  BY <1>5 DEF Next, vars, engineVars, SetStatus, PublishStatus, PublishLossless, SendEvent,
              SetPrincipal, Revoke
<1> QED BY <1>1, <1>2, <1>3, <1>4, <1>5

\* A step of the others keeps what is shown of a tile up to date.
LEMMA OthersKeepTile ==
  ASSUME OneTile, PublisherInv, SessionInv, [Next]_vars, ~(SessionStep \/ Close),
         NEW t \in Tiles, TileUpToDate(t)
  PROVE  TileUpToDate(t)'
<1>0. UNCHANGED <<pc, ses, cache>> /\ t \in Objects /\ "engine" \in Producers
  BY OthersStep, SessionAssumption DEF Objects
<1>1. Pending(t) => Pending(t)'
  BY <1>0, PendingStays
<1>2. Shown(t)' = Shown(t)
  BY <1>0 DEF Shown
<1>3. CASE Compose
  BY <1>1, <1>2, <1>3 DEF Compose, TileUpToDate
<1>4. CASE PublishState
  BY <1>1, <1>2, <1>4 DEF PublishState, TileUpToDate
<1>5. CASE PublishTileState
  <2>1. CASE last_states = frame /\ UNCHANGED <<streamVars, last_states>>
    BY <1>1, <1>2, <1>5, <2>1 DEF TileUpToDate
  <2>2. ASSUME NEW s \in Tiles,
               FetchAdd("engine", [obj |-> s, value |-> frame[s], backed |-> TRUE])
        PROVE  Pending(t)'
    <3> DEFINE event == [obj |-> s, value |-> frame[s], backed |-> TRUE]
    <3>1. /\ event \in Events /\ event.obj = t /\ event.backed
          /\ FetchAdd("engine", event) /\ ses' = ses
      BY <1>0, <2>2, TileEvent DEF PublisherInv, OneTile
    <3> HIDE DEF event
    <3> QED BY <3>1, <1>0, NewEventPending
  <2> QED BY <1>5, <2>1, <2>2 DEF PublishTileState, TileUpToDate
<1>6. CASE ~Compose /\ ~PublishState /\ ~PublishTileState
  <2>1. eng' = eng /\ frame' = frame /\ last_states' = last_states
    BY <1>6 DEF Next, vars, engineVars, SetStatus, PublishStatus, PublishLossless, SendEvent,
                SetPrincipal, Revoke
  <2> QED BY <1>1, <1>2, <2>1 DEF TileUpToDate
<1> QED BY <1>3, <1>4, <1>5, <1>6

\* A step of the session: the slot is up to date when it is read, and so is
\* what is rebuilt or delivered from it.
LEMMA StepKeepsTile ==
  ASSUME PublisherInv, SessionInv, TilesInv, SessionStep \/ Close, ~Ended, ~lagged',
         NEW t \in Tiles,
         \/ pc' \in Handshake
         \/ pc' \in {"sendDevices"} \cup Pumping /\ t \in ses'.scope
  PROVE  TileUpToDate(t)'
<1>0. /\ t \in Objects /\ t # Device /\ ses \in SesRec /\ cache \in [Objects -> Val]
      /\ eng' = eng /\ frame' = frame /\ last_states' = last_states /\ slot' = slot
  BY SessionFrame, SessionAssumption DEF Objects, SessionInv, SessionTypes
<1>s. slot[t] = last_states[t] \/ (eng = "published" /\ slot[t] = frame[t])
  BY DEF TilesInv, SlotAnnounced
<1>1. CASE ReadSnapshot
  <2>1. ses'.snapshot = slot /\ pc' = "gate"
    BY <1>0, <1>1 DEF ReadSnapshot, Session, SesRec
  <2> QED BY <1>0, <1>s, <2>1 DEF TileUpToDate, Shown, Handshake
<1>2. CASE SendTiles
  <2>1. pc \in Handshake /\ pc' = "sendDevices" /\ lagged' = lagged /\ ses' = ses
    BY <1>2 DEF SendTiles, Session, Handshake
  <2>2. TileUpToDate(t) /\ t \in ses.scope
    BY <2>1 DEF TilesInv, Handshake
  <2>3. cache'[t] = ses.snapshot[t]
    <3>1. ses.snapshot \in [Tiles -> Val] /\ ses.scope \in Scopes /\ Absent \in Val
      BY <1>0 DEF SesRec, Val
    <3>2. cache' = Rebuilt(ses.snapshot, Absent, ses.scope)
      BY <1>2 DEF SendTiles
    <3> QED BY <2>2, <3>1, <3>2, RebuiltFacts
  <2>4. Shown(t)' = Shown(t)
    BY <2>1, <2>3 DEF Shown, Handshake
  <2>5. Pending(t) => Pending(t)'
    BY <1>0, <2>1, PendingSame
  <2> QED BY <1>0, <2>2, <2>4, <2>5 DEF TileUpToDate
<1>3. CASE SendDevices
  <2>1. pc = "sendDevices" /\ pc' = "pump" /\ lagged' = lagged /\ ses' = ses
    BY <1>3 DEF SendDevices, Session
  <2>2. TileUpToDate(t)
    BY <2>1 DEF TilesInv, Handshake
  <2>3. cache'[t] = cache[t]
    BY <1>0, <1>3 DEF SendDevices
  <2>4. Shown(t)' = Shown(t)
    BY <2>1, <2>3 DEF Shown, Handshake
  <2>5. Pending(t) => Pending(t)'
    BY <1>0, <2>1, PendingSame
  <2> QED BY <1>0, <2>2, <2>4, <2>5 DEF TileUpToDate
<1>4. CASE Receive
  <2>1. /\ pc = "pump" /\ pc' = "reauth" /\ lagged' = lagged /\ cache' = cache
        /\ ses'.scope = ses.scope
    BY <1>0, <1>4 DEF Receive, Session, SesRec
  <2>2. TileUpToDate(t)
    BY <2>1 DEF TilesInv, Handshake, Pumping
  <2>3. Shown(t)' = Shown(t)
    BY <2>1 DEF Shown, Handshake
  <2>4. Pending(t) => Pending(t)'
    BY <1>0, <1>4, PendingReceive
  <2> QED BY <1>0, <2>2, <2>3, <2>4 DEF TileUpToDate
<1>5. CASE Resync
  <2>1. ses'.scope = store /\ cache' = Rebuilt(slot, registry, store) /\ pc' = "project"
    BY <1>0, <1>5 DEF Resync, Session, SesRec
  <2>2. cache'[t] = slot[t]
    BY <2>1, RebuiltFacts DEF PublisherInv, PublisherTypes, Handshake
  <2> QED BY <1>0, <1>s, <2>1, <2>2 DEF TileUpToDate, Shown, Handshake
<1>6. CASE Project
  <2>1. pc = "project" /\ pc' = "pump" /\ lagged' = lagged /\ ses'.scope = ses.scope
    BY <1>0, <1>6 DEF Project, Session, SesRec
  <2>2. TileUpToDate(t) /\ t \in ses.scope
    BY <2>1 DEF TilesInv, Handshake, Pumping
  <2>3. \/ cache'[t] = cache[t] /\ (Pending(t) => Pending(t)')
        \/ Pending(t)'
        \/ cache'[t] = last_states[t]
    BY <1>0, <1>6, <2>2, ProjectShows DEF Announced, Current
  <2>4. Shown(t)' = cache'[t] /\ Shown(t) = cache[t]
    BY <2>1 DEF Shown, Handshake
  <2> QED BY <1>0, <2>2, <2>3, <2>4 DEF TileUpToDate
<1>7. CASE /\ cache' = cache /\ lagged' = lagged
           /\ ses'.pos = ses.pos /\ ses'.step = ses.step /\ ses'.watermark = ses.watermark
           /\ ses'.snapshot = ses.snapshot
           /\ \/ pc \in Handshake /\ pc' \in Handshake
              \/ pc \in Pumping /\ pc' \in Pumping /\ ses'.scope = ses.scope
  <2>1. TileUpToDate(t)
    BY <1>7 DEF TilesInv, Handshake, Pumping
  <2>2. Shown(t)' = Shown(t)
    BY <1>7 DEF Shown, Handshake, Pumping
  <2>3. Pending(t) => Pending(t)'
    BY <1>0, <1>7, PendingSame
  <2> QED BY <1>0, <2>1, <2>2, <2>3 DEF TileUpToDate
<1> QED BY <1>1, <1>2, <1>3, <1>4, <1>5, <1>6, <1>7, QuietStep

LEMMA NextTilesInv ==
  ASSUME OneTile, PublisherInv, SessionInv, TilesInv, [Next]_vars
  PROVE  TilesInv'
<1>1. SlotAnnounced'
  BY NextSlotAnnounced DEF TilesInv
<1>2. CASE ~(SessionStep \/ Close)
  <2>1. UNCHANGED <<pc, ses, lagged>>
    BY <1>2, OthersStep
  <2>2. \A t \in Tiles : TileUpToDate(t) => TileUpToDate(t)'
    BY <1>2, OthersKeepTile
  <2> QED BY <1>1, <2>1, <2>2 DEF TilesInv
<1>3. CASE (SessionStep \/ Close) /\ Ended
  BY <1>1, <1>3 DEF TilesInv, Ended, Session, Handshake, Pumping
<1>4. CASE (SessionStep \/ Close) /\ ~Ended
  <2>1. ASSUME ~lagged', pc' \in Handshake, NEW t \in Tiles
        PROVE  TileUpToDate(t)'
    BY <1>4, <2>1, StepKeepsTile
  <2>2. ASSUME ~lagged', pc' \in {"sendDevices"} \cup Pumping, NEW t \in Tiles \cap ses'.scope
        PROVE  TileUpToDate(t)'
    BY <1>4, <2>2, StepKeepsTile
  <2> QED BY <1>1, <2>1, <2>2 DEF TilesInv
<1> QED BY <1>2, <1>3, <1>4

\* When everything has been given, nothing is to come.
LEMMA QuietNothingPending ==
  ASSUME PublisherInv, SessionInv, Quiet, NEW o \in Objects
  PROVE  ~Pending(o)
<1>1. ses.step = <<>>
  BY DEF Quiet, SessionInv, InHand
<1>2. \A i \in 1..Len(log) : ~(i >= ses.pos)
  BY DEF Quiet, End, PublisherInv, StreamTypes
<1> QED BY <1>1, <1>2 DEF Pending, Quiet

\* Snapshot plus ordered deltas is the current truth for the device, however
\* many tiles there are (the device half of CaughtUpIsCurrent).
DeviceCaughtUpIsCurrent == Quiet /\ ~lagged => cache[Device] = Truth[Device]

THEOREM DeviceIsCurrent == Spec => []DeviceCaughtUpIsCurrent
<1>1. Init => DeviceInv
  BY DEF Init, DeviceInv, Pumping
<1>2. PublisherInv /\ SessionInv /\ DeviceInv /\ [Next]_vars => DeviceInv'
  BY NextDeviceInv
<1>3. PublisherInv /\ SessionInv /\ DeviceInv => DeviceCaughtUpIsCurrent
  <2> SUFFICES ASSUME PublisherInv, SessionInv, DeviceInv, Quiet, ~lagged
               PROVE  cache[Device] = Truth[Device]
    BY DEF DeviceCaughtUpIsCurrent
  <2>1. /\ frame \in [Tiles -> Val] /\ registry \in Val /\ ses.scope \in Scopes
        /\ Device \in Objects
    BY DEF PublisherInv, PublisherTypes, SessionInv, SessionTypes, SesRec, Objects
  <2>2. CASE Device \in ses.scope
    <3>1. DeviceUpToDate /\ ctl = "idle" /\ ~Pending(Device)
      BY <2>1, <2>2, QuietNothingPending DEF DeviceInv, Quiet, Pumping
    <3>2. Truth[Device] = registry
      BY <2>1, <2>2, RebuiltFacts DEF Truth
    <3> QED BY <3>1, <3>2 DEF DeviceUpToDate
  <2>3. CASE Device \notin ses.scope
    BY <2>1, <2>3, RebuiltFacts DEF Truth, SessionInv, ScopeIsCurrent
  <2> QED BY <2>2, <2>3
<1> QED BY <1>1, <1>2, <1>3, SessionInvariant, PTL DEF Spec

\* With one tile, a session that did not lag shows every object in its scope as
\* it is; with two it need not, since a tick announces one tile only.
THEOREM SessionIsCurrent ==
  ASSUME OneTile
  PROVE  Spec => []CaughtUpIsCurrent
<1>1. Init => TilesInv
  <2> SUFFICES ASSUME Init PROVE TilesInv
    OBVIOUS
  <2>1. pc = "connect" /\ eng = "idle" /\ slot = last_states
    BY DEF Init
  <2> QED BY <2>1 DEF TilesInv, SlotAnnounced, Handshake, Pumping
<1>2. PublisherInv /\ SessionInv /\ TilesInv /\ [Next]_vars => TilesInv'
  BY NextTilesInv
<1>3. PublisherInv /\ SessionInv /\ TilesInv /\ DeviceCaughtUpIsCurrent => CaughtUpIsCurrent
  <2> SUFFICES ASSUME PublisherInv, SessionInv, TilesInv, DeviceCaughtUpIsCurrent,
                      Quiet, ~lagged
               PROVE  cache = Truth
    BY DEF CaughtUpIsCurrent
  <2>1. /\ frame \in [Tiles -> Val] /\ registry \in Val /\ ses.scope \in Scopes
        /\ cache \in [Objects -> Val] /\ Truth \in [Objects -> Val]
    BY RebuiltFacts
       DEF PublisherInv, PublisherTypes, SessionInv, SessionTypes, SesRec, Truth
  <2>2. ASSUME NEW o \in Objects
        PROVE  cache[o] = Truth[o]
    <3>1. CASE o = Device
      BY <3>1 DEF DeviceCaughtUpIsCurrent
    <3>2. CASE o \notin ses.scope
      BY <2>1, <3>2, RebuiltFacts DEF Truth, SessionInv, ScopeIsCurrent
    <3>3. CASE o \in Tiles /\ o \in ses.scope
      <4>1. TileUpToDate(o)
        BY <3>3 DEF TilesInv, Quiet, Pumping
      <4>2. ~Pending(o) /\ Shown(o) = cache[o] /\ eng = "idle" /\ last_states = frame
        BY QuietNothingPending DEF Quiet, Shown, Handshake
      <4>3. Truth[o] = frame[o]
        BY <2>1, <3>3, RebuiltFacts DEF Truth
      <4> QED BY <4>1, <4>2, <4>3 DEF TileUpToDate
    <3> QED BY <3>1, <3>2, <3>3 DEF Objects
  <2> QED BY <2>1, <2>2
<1> QED BY <1>1, <1>2, <1>3, SessionInvariant, DeviceIsCurrent, PTL DEF Spec

=============================================================================
