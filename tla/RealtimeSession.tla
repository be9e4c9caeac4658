-------------------------- MODULE RealtimeSession --------------------------
(***************************************************************************)
(* One realtime session (multiview-control realtime.rs, run_ws_session and *)
(* sse_handler) between the engine's publisher and a client: connect under *)
(* an API key, subscribe, capture the broadcast watermark, read the state  *)
(* snapshot, then pump deltas, re-authorising before each one.             *)
(*                                                                         *)
(* The engine publishes one state snapshot per tick and at most one        *)
(* tile.state event (pipeline.rs event_of); a control-plane producer       *)
(* publishes the device's conflated status and its lossless lifecycle      *)
(* events (broadcaster.rs).  The client keeps the last value it was sent   *)
(* for every object.  Roles all permit Read, so authorisation is the       *)
(* object scope or the key's revocation; the other two scope axes behave   *)
(* as this one.                                                            *)
(***************************************************************************)
EXTENDS EventStream

CONSTANTS
  Tiles, Device,     \* the objects a session sees
  Values,            \* lifecycle states of an object
  Absent,            \* an object the client has no value for
  MaxTicks, MaxStatus, MaxNotes, MaxGeneration,  \* bounds: of each kind of change
  MaxPublished       \* bound: ticks, statuses and lossless events together

Objects == Tiles \cup {Device}
Scopes == SUBSET Objects

ASSUME SessionAssumption ==
  /\ Producers = {"engine", "control"}
  /\ Device \notin Tiles /\ Absent \notin Values
  /\ MaxTicks \in Nat /\ MaxStatus \in Nat /\ MaxNotes \in Nat
  /\ MaxGeneration \in Nat /\ MaxPublished \in Nat

VARIABLES
  frame,        \* source states of the frame the engine composed last
  slot,         \* the latest-state slot, Absent before the first publish
  last_states,  \* event_of's memory of the states it has announced
  eng,          \* the engine's position in a tick
  registry,     \* the DeviceStatusRegistry's entry for Device
  ctl,          \* the control producer's position in publish_status
  store,        \* the key's scope in the ApiKeyStore
  revoked,      \* whether the key is gone from it
  generation,   \* the store's generation
  pc,           \* the session's position
  ses,          \* the session's state
  cache,        \* the client: last value received per object
  got,          \* lossless events the client received
  lagged,       \* the session skipped events it never made up for
  ticks, statuses, notes    \* counters for the bounds

engineVars == <<frame, slot, last_states, eng, ticks>>
controlVars == <<registry, ctl, statuses, notes>>
authVars == <<store, revoked, generation>>
sessionVars == <<pc, ses, cache, got, lagged>>
vars == <<streamVars, engineVars, controlVars, authVars, sessionVars>>

Nothing == [o \in Objects |-> Absent]

NoSession ==
  [pos |-> 1, since |-> 1, watermark |-> 0, snapshot |-> [t \in Tiles |-> Absent],
   scope |-> {}, generation |-> 0, step |-> <<>>]

Init ==
  /\ StreamInit
  /\ frame = [t \in Tiles |-> Absent] /\ slot = [t \in Tiles |-> Absent]
  /\ last_states = [t \in Tiles |-> Absent] /\ eng = "idle" /\ ticks = 0
  /\ registry = Absent /\ ctl = "idle" /\ statuses = 0 /\ notes = 0
  /\ store = Objects /\ revoked = FALSE /\ generation = 0
  /\ pc = "connect"
  /\ ses = NoSession
  /\ cache = Nothing /\ got = {} /\ lagged = FALSE

Published == ticks + statuses + notes

-----------------------------------------------------------------------------
\* The engine's tick: compose, publish_state, publish_event.

Compose ==
  /\ eng = "idle" /\ Idle("engine") /\ ticks < MaxTicks /\ Published < MaxPublished
  /\ frame' \in [Tiles -> Values]
  /\ eng' = "composed" /\ ticks' = ticks + 1
  /\ UNCHANGED <<streamVars, slot, last_states, controlVars, authVars, sessionVars>>

PublishState ==
  /\ eng = "composed"
  /\ slot' = frame /\ eng' = "published"
  /\ UNCHANGED <<streamVars, frame, last_states, ticks, controlVars, authVars,
                 sessionVars>>

\* event_of: the first tile whose state differs from the last one announced.
PublishTileState ==
  /\ eng = "published"
  /\ \/ \E t \in Tiles :
          /\ last_states[t] # frame[t]
          /\ FetchAdd("engine", [obj |-> t, value |-> frame[t], backed |-> TRUE])
          /\ last_states' = [last_states EXCEPT ![t] = frame[t]]
     \/ last_states = frame /\ UNCHANGED <<streamVars, last_states>>
  /\ eng' = "idle"
  /\ UNCHANGED <<frame, slot, ticks, controlVars, authVars, sessionVars>>

\* DeviceBroadcaster::publish_status: registry first, then the event.
SetStatus ==
  /\ ctl = "idle" /\ Idle("control") /\ statuses < MaxStatus /\ Published < MaxPublished
  /\ registry' \in Values /\ ctl' = "set" /\ statuses' = statuses + 1
  /\ UNCHANGED <<streamVars, engineVars, notes, authVars, sessionVars>>

PublishStatus ==
  /\ ctl = "set"
  /\ FetchAdd("control", [obj |-> Device, value |-> registry, backed |-> TRUE])
  /\ ctl' = "idle"
  /\ UNCHANGED <<engineVars, registry, statuses, notes, authVars, sessionVars>>

\* device.mode, device.error and the other lossless lifecycle events.
PublishLossless ==
  /\ ctl = "idle" /\ notes < MaxNotes /\ Published < MaxPublished
  /\ FetchAdd("control", [obj |-> Device, value |-> Absent, backed |-> FALSE])
  /\ notes' = notes + 1
  /\ UNCHANGED <<engineVars, registry, ctl, statuses, authVars, sessionVars>>

SendEvent(p) ==
  /\ Send(p)
  /\ UNCHANGED <<engineVars, controlVars, authVars, sessionVars>>

\* ApiKeyStore::set_principal and ApiKeyStore::revoke, each bumping the
\* generation while it holds the write lock.
SetPrincipal(scope) ==
  /\ ~revoked /\ generation < MaxGeneration
  /\ store' = scope /\ generation' = generation + 1 /\ UNCHANGED revoked
  /\ UNCHANGED <<streamVars, engineVars, controlVars, sessionVars>>

Revoke ==
  /\ ~revoked /\ generation < MaxGeneration
  /\ revoked' = TRUE /\ generation' = generation + 1 /\ UNCHANGED store
  /\ UNCHANGED <<streamVars, engineVars, controlVars, sessionVars>>

-----------------------------------------------------------------------------
\* The session.

Session(next) ==
  /\ pc' = next
  /\ UNCHANGED <<streamVars, engineVars, controlVars, authVars>>

\* The session and its client are gone.
Ended ==
  /\ ses' = NoSession /\ cache' = Nothing /\ got' = {} /\ lagged' = FALSE
  /\ Session("closed")

\* resolve_principal: the generation is captured before the key is verified.
CaptureBaseline ==
  /\ pc = "connect"
  /\ ses' = [ses EXCEPT !.generation = generation]
  /\ Session("verify")
  /\ UNCHANGED <<cache, got, lagged>>

Verify ==
  /\ pc = "verify"
  /\ \/ revoked /\ Ended
     \/ /\ ~revoked
        /\ ses' = [ses EXCEPT !.scope = store]
        /\ Session("subscribe")
        /\ UNCHANGED <<cache, got, lagged>>

\* Mutant: the re-authorisation baseline is sampled when the session is built.
BaselineAtInstall ==
  /\ pc = "subscribe"
  /\ ses' = [ses EXCEPT !.pos = End, !.since = End, !.generation = generation]
  /\ Session("watermark")
  /\ UNCHANGED <<cache, got, lagged>>

Subscribe ==
  /\ pc = "subscribe"
  /\ ses' = [ses EXCEPT !.pos = End, !.since = End]
  /\ Session("watermark")
  /\ UNCHANGED <<cache, got, lagged>>

CaptureWatermark ==
  /\ pc = "watermark"
  /\ ses' = [ses EXCEPT !.watermark = seq]
  /\ Session("snapshot")
  /\ UNCHANGED <<cache, got, lagged>>

ReadSnapshot ==
  /\ pc = "snapshot"
  /\ ses' = [ses EXCEPT !.snapshot = slot]
  /\ Session("gate")
  /\ UNCHANGED <<cache, got, lagged>>

\* What a client rebuilds from a tiles snapshot and a device snapshot.
Rebuilt(tiles, device, scope) ==
  [o \in Objects |-> IF o \notin scope THEN Absent
                     ELSE IF o = Device THEN device ELSE tiles[o]]

\* reauthorize: nothing to do while the generation stands; otherwise read the
\* key's principal, in a step of its own.
Unchanged(here, next) ==
  /\ pc = here
  /\ generation = ses.generation
  /\ Session(next)
  /\ UNCHANGED <<ses, cache, got, lagged>>

SampleGeneration(here, next) ==
  /\ pc = here
  /\ generation # ses.generation
  /\ ses' = [ses EXCEPT !.generation = generation]
  /\ Session(next)
  /\ UNCHANGED <<cache, got, lagged>>

Disconnect(here) ==
  /\ pc = here /\ revoked
  /\ Ended

\* The connect-race gate, before any snapshot is sent: adopt the scope or end.
Gate ==
  \/ Unchanged("gate", "sendTiles")
  \/ SampleGeneration("gate", "gateResolve")
  \/ Disconnect("gateResolve")
  \/ /\ pc = "gateResolve" /\ ~revoked
     /\ ses' = [ses EXCEPT !.scope = store]
     /\ Session("sendTiles")
     /\ UNCHANGED <<cache, got, lagged>>

\* Mutant: the watermark is captured after the snapshot.
LateWatermark ==
  /\ pc = "sendTiles"
  /\ cache' = Rebuilt(ses.snapshot, Absent, ses.scope)
  /\ ses' = [ses EXCEPT !.watermark = seq]
  /\ Session("sendDevices")
  /\ UNCHANGED <<got, lagged>>

\* tiles_snapshot_frame, then devices_snapshot_frames with the registry as it
\* is by then.
SendTiles ==
  /\ pc = "sendTiles"
  /\ cache' = Rebuilt(ses.snapshot, Absent, ses.scope)
  /\ Session("sendDevices")
  /\ UNCHANGED <<ses, got, lagged>>

SendDevices ==
  /\ pc = "sendDevices"
  /\ cache' = IF Device \in ses.scope THEN [cache EXCEPT ![Device] = registry] ELSE cache
  /\ Session("pump")
  /\ UNCHANGED <<ses, got, lagged>>

\* recv_event, or the idle re-auth tick of the select!.
Receive ==
  /\ pc = "pump" /\ Readable(ses.pos)
  /\ ses' = [ses EXCEPT !.pos = @ + 1, !.step = <<log[ses.pos]>>]
  /\ Session("reauth")
  /\ UNCHANGED <<cache, got, lagged>>

\* Mutant: resubscribes one past the head.
SkipPastHead ==
  /\ pc = "pump" /\ Lagging(ses.pos)
  /\ ses' = [ses EXCEPT !.pos = End + 1]
  /\ lagged' = TRUE
  /\ Session("reauth")
  /\ UNCHANGED <<cache, got>>

\* Lagged: resubscribe at the head and skip.
SkipLag ==
  /\ pc = "pump" /\ Lagging(ses.pos)
  /\ ses' = [ses EXCEPT !.pos = End]
  /\ lagged' = TRUE
  /\ Session("reauth")
  /\ UNCHANGED <<cache, got>>

\* Mutant: no timer, only an event wakes the pump.
ReauthOnEventsOnly ==
  /\ pc = "pump" /\ Readable(ses.pos)
  /\ Session("reauth")
  /\ UNCHANGED <<ses, cache, got, lagged>>

ReauthTick ==
  /\ pc = "pump"
  /\ Session("reauth")
  /\ UNCHANGED <<ses, cache, got, lagged>>

\* The pump's reauthorize.  A changed scope rebuilds the client from the
\* state of this moment (build_resync_frames).
Resync ==
  /\ pc = "reauthResolve" /\ ~revoked /\ store # ses.scope
  /\ ses' = [ses EXCEPT !.scope = store]
  /\ cache' = Rebuilt(slot, registry, store)
  /\ Session("project")
  /\ UNCHANGED <<got, lagged>>

Reauthorize ==
  \/ Unchanged("reauth", "project")
  \/ SampleGeneration("reauth", "reauthResolve")
  \/ Disconnect("reauthResolve")
  \/ Resync
  \/ /\ pc = "reauthResolve" /\ ~revoked /\ store = ses.scope
     /\ Session("project")
     /\ UNCHANGED <<ses, cache, got, lagged>>

\* Mutant: the watermark drops lossless events too.
DropEverything(e) == e.seq <= ses.watermark

\* The watermark drops an event the connect snapshot already reflects.
BehindWatermark(e) == e.seq <= ses.watermark /\ e.event.backed

\* frame_for: what the watermark and the scope let through is delivered.
Deliverable ==
  /\ ses.step # <<>>
  /\ ~BehindWatermark(ses.step[1])
  /\ ses.step[1].event.obj \in ses.scope

Project ==
  /\ pc = "project"
  /\ IF ~Deliverable THEN UNCHANGED <<cache, got>>
     ELSE LET e == ses.step[1]
          IN  IF e.event.backed
              THEN cache' = [cache EXCEPT ![e.event.obj] = e.event.value] /\ UNCHANGED got
              ELSE got' = got \cup {e.seq} /\ UNCHANGED cache
  /\ ses' = [ses EXCEPT !.step = <<>>]
  /\ Session("pump")
  /\ UNCHANGED lagged

SessionStep ==
  \/ CaptureBaseline \/ Verify \/ Subscribe \/ CaptureWatermark \/ ReadSnapshot
  \/ Gate \/ SendTiles \/ SendDevices
  \/ Receive \/ SkipLag \/ ReauthTick \/ Reauthorize \/ Project

\* The client goes away.
Close ==
  /\ pc \in {"sendTiles", "sendDevices", "pump", "project"}
  /\ Ended

Next ==
  \/ Compose \/ PublishState \/ PublishTileState
  \/ SetStatus \/ PublishStatus \/ PublishLossless
  \/ \E p \in Producers : SendEvent(p)
  \/ \E scope \in Scopes : SetPrincipal(scope)
  \/ Revoke
  \/ SessionStep \/ Close

Spec == Init /\ [][Next]_vars

\* A session's task keeps running: its timer fires even when no event comes,
\* and the client is assumed to keep reading its socket.
FairSpec == Spec /\ WF_vars(SessionStep)

-----------------------------------------------------------------------------
(* Properties *)

Events == [obj : Objects, value : Values \cup {Absent}, backed : BOOLEAN]
SeqEvents == [seq : 1..seq, event : Events]

TypeOK ==
  /\ seq \in Nat /\ log \in Seq(SeqEvents)
  /\ \A p \in Producers : Len(inflight[p]) <= 1 /\ inflight[p] \in Seq(SeqEvents)
  /\ frame \in [Tiles -> Values \cup {Absent}]
  /\ slot \in [Tiles -> Values \cup {Absent}]
  /\ last_states \in [Tiles -> Values \cup {Absent}]
  /\ eng \in {"idle", "composed", "published"} /\ ctl \in {"idle", "set"}
  /\ registry \in Values \cup {Absent}
  /\ store \in Scopes /\ revoked \in BOOLEAN /\ generation \in 0..MaxGeneration
  /\ ses.pos \in 1..End /\ ses.watermark \in 0..seq
  /\ ses.scope \in Scopes /\ ses.generation \in 0..generation
  /\ cache \in [Objects -> Values \cup {Absent}]
  /\ got \subseteq 1..seq

\* The session has been given everything there is, and nothing is under way.
Quiet ==
  /\ pc = "pump" /\ ses.pos = End
  /\ \A p \in Producers : Idle(p)
  /\ eng = "idle" /\ ctl = "idle" /\ last_states = frame

Truth == Rebuilt(frame, registry, ses.scope)

\* Snapshot plus ordered deltas is the current truth (ADR-RT003): a session
\* that did not lag shows every object in its scope as it is, although the
\* watermark dropped deltas and a resync raced the publishers.
CaughtUpIsCurrent == Quiet /\ ~lagged => cache = Truth

\* The same for a session that lagged: broadcast Lagged(n) is converted to
\* $lag and a re-snapshot (ADR-RT004).
LaggedClientRecovers == Quiet => cache = Truth

\* A lossless event sent after the session subscribed is never dropped: not by
\* the watermark, in whatever order the producers sent.
LosslessDelivered ==
  pc = "pump" /\ ~lagged /\ generation = 0 =>
    \A i \in ses.since..(ses.pos - 1) : ~log[i].event.backed => log[i].seq \in got

\* A session that has seen the store's current generation serves a key that
\* still stands, and the client holds nothing outside that key's scope:
\* whatever the mutation raced, the connect handshake included.
SettledSessionIsScoped ==
  pc = "pump" /\ ses.generation = generation =>
    /\ ~revoked /\ store = ses.scope
    /\ \A o \in Objects : cache[o] # Absent => o \in store

\* Revoking the key ends the session.
RevokedSessionEnds == revoked ~> pc = "closed"
=============================================================================
