---------------------------- MODULE CommandPath ----------------------------
(***************************************************************************)
(* The way of a command through the control plane (multiview-control):     *)
(* submit_accepted_body and the discovery-scan route under an idempotency  *)
(* key, the bounded command bus, the engine's drain, and the CorrRegistry  *)
(* that names an outcome event after the operation that was answered 202.  *)
(*                                                                         *)
(* Requests run on a multi-threaded runtime: a critical section, an atomic *)
(* read or a channel call is one step, and steps of different requests,    *)
(* the engine and the clients interleave.  A request's operation id is the *)
(* request itself.  An engine sequence number is an index of events; the   *)
(* race between taking one and sending is EventStream's.                   *)
(***************************************************************************)
EXTENDS Naturals, FiniteSets, SequencesExt

CONSTANTS
  Requests,      \* POSTs, each minting at most one operation id
  IdemKeys,      \* Idempotency-Key values
  CorrKeys,      \* correlation keys of keyed commands
  Clients,       \* realtime sessions
  None,          \* no key, no operation, no outcome
  BusCapacity,   \* depth of the command bus
  CorrCapacity,  \* capacity of the CorrRegistry
  MaxRows        \* bound: device.discovered rows of one scan

ASSUME NoneAssumption ==
  /\ None \notin Requests \cup IdemKeys \cup CorrKeys
  /\ "discovery" \notin CorrKeys
ASSUME CapacityAssumption ==
  BusCapacity \in Nat \ {0} /\ CorrCapacity \in Nat \ {0} /\ MaxRows \in Nat

VARIABLES
  req,      \* request -> position, key, command and the operation it is answered with
  seen,     \* IdempotencyStore: key -> operation or None
  bus,      \* commands queued for the engine
  batch,    \* commands the engine has drained and not yet applied
  events,   \* every event published, with the operation that caused it
  corr,     \* the CorrRegistry
  gate,     \* ScanGate: the running scan's operation or None
  rows,     \* rows the running scan has published
  client,   \* client -> index of its next event, 0 before it connects
  stamps,   \* client -> index of an event it projected -> the corr it stamped
  ran       \* history: operations whose command was queued or whose scan started

requestVars == <<req, seen, gate, rows, ran>>
vars == <<requestVars, bus, batch, events, corr, client, stamps>>

Ops    == Requests
Scan   == "discovery"
Keyed  == CorrKeys \cup {Scan}
\* A command is its correlation key (for_command): None for the commands that
\* have no unambiguous outcome.
Commands == Keyed \cup {None}

Positions ==
  {"new", "reserved", "rollback", "queued", "window", "attached", "accepted", "rejected"}

NoRequest == [pc |-> "new", key |-> None, cmd |-> None, op |-> None]

\* Nothing pending, no window, nothing resolved (CorrRegistry::new).
EmptyRegistry ==
  [pending |-> [k \in CorrKeys |-> <<>>], order |-> <<>>,
   window |-> [op |-> None, from |-> 0], resolved |-> <<>>]

Init ==
  /\ req = [r \in Requests |-> NoRequest]
  /\ seen = [k \in IdemKeys |-> None]
  /\ bus = <<>> /\ batch = <<>> /\ events = <<>>
  /\ corr = EmptyRegistry
  /\ gate = None /\ rows = 0
  /\ client = [c \in Clients |-> 0]
  /\ stamps = [c \in Clients |-> <<>>]
  /\ ran = {}

-----------------------------------------------------------------------------
\* The CorrRegistry, as functions of its state.

DropOldest(reg) ==
  LET k == Head(reg.order)
  IN  [reg EXCEPT !.order = Tail(@), !.pending[k] = Tail(@)]

\* record: queue the operation under its key; over capacity the oldest pending
\* correlation of any key goes.
Recorded(reg, k, op) ==
  LET full == [reg EXCEPT !.pending[k] = Append(@, op), !.order = Append(@, k)]
  IN  IF Len(full.order) > CorrCapacity THEN DropOldest(full) ELSE full

\* Mutant: every reader resolves for itself.
NoMemo(reg, seq, op) == reg

Memoized(reg, seq, op) ==
  LET all == Append(reg.resolved, [seq |-> seq, op |-> op])
  IN  [reg EXCEPT !.resolved = IF Len(all) > CorrCapacity THEN Tail(all) ELSE all]

Memo(reg, seq) == {m \in Range(reg.resolved) : m.seq = seq}

\* Mutant: the last event before the window belongs to it.
FenceIncluded(reg, seq) == reg.window.op # None /\ seq >= reg.window.from

InWindow(reg, seq) == reg.window.op # None /\ seq > reg.window.from

\* Mutants: the operation stays pending; its key stays in the order.
Peeked(reg, k) == reg
PoppedNotOrder(reg, k) == [reg EXCEPT !.pending[k] = Tail(@)]

Popped(reg, k) ==
  [reg EXCEPT !.pending[k] = Tail(@), !.order = RemoveFirst(@, k)]

\* The operation resolve answers with, and the registry it leaves.
ResolvedOp(reg, k, seq) ==
  IF Memo(reg, seq) # {} THEN (CHOOSE m \in Memo(reg, seq) : TRUE).op
  ELSE IF k = Scan THEN IF InWindow(reg, seq) THEN reg.window.op ELSE None
  ELSE IF reg.pending[k] # <<>> THEN Head(reg.pending[k]) ELSE None

Resolved(reg, k, seq) ==
  LET op == ResolvedOp(reg, k, seq)
  IN  IF Memo(reg, seq) # {} \/ op = None THEN reg
      ELSE IF k = Scan THEN Memoized(reg, seq, op)
      ELSE Memoized(Popped(reg, k), seq, op)

-----------------------------------------------------------------------------
\* Requests.

Goto(r, pc) == req' = [req EXCEPT ![r].pc = pc]
Answer(r, op) == req' = [req EXCEPT ![r].pc = "accepted", ![r].op = op]

Arrives(r, k, cmd, pc, op) ==
  req' = [req EXCEPT ![r] = [pc |-> pc, key |-> k, cmd |-> cmd, op |-> op]]

\* Mutant: a key whose command is not queued yet is reserved again.
ReserveUnqueued(r, k, cmd) ==
  /\ req[r].pc = "new"
  /\ IF k = None \/ seen[k] = None \/ seen[k] \notin ran
     THEN /\ Arrives(r, k, cmd, "reserved", None)
          /\ seen' = IF k = None THEN seen ELSE [seen EXCEPT ![k] = r]
     ELSE Arrives(r, k, cmd, "accepted", seen[k]) /\ UNCHANGED seen
  /\ UNCHANGED <<bus, batch, events, corr, gate, rows, client, stamps, ran>>

\* IdempotencyStore::reserve: Fresh mints the operation; Replay answers 202 with
\* the recorded one and does nothing else.
Reserve(r, k, cmd) ==
  /\ req[r].pc = "new"
  /\ IF k = None \/ seen[k] = None
     THEN /\ Arrives(r, k, cmd, "reserved", None)
          /\ seen' = IF k = None THEN seen ELSE [seen EXCEPT ![k] = r]
     ELSE Arrives(r, k, cmd, "accepted", seen[k]) /\ UNCHANGED seen
  /\ UNCHANGED <<bus, batch, events, corr, gate, rows, client, stamps, ran>>

\* The build closure refuses the command (422).
BuildRefused(r) ==
  /\ req[r].pc = "reserved" /\ req[r].cmd # Scan
  /\ Goto(r, "rollback")
  /\ UNCHANGED <<bus, batch, events, corr, seen, gate, rows, client, stamps, ran>>

\* Mutant: the bus takes one command too many.
SubmitOverfull(r) ==
  /\ req[r].pc = "reserved" /\ req[r].cmd # Scan
  /\ IF Len(bus) <= BusCapacity
     THEN bus' = Append(bus, r) /\ ran' = ran \cup {r} /\ Goto(r, "queued")
     ELSE Goto(r, "rollback") /\ UNCHANGED <<bus, ran>>
  /\ UNCHANGED <<batch, events, corr, seen, gate, rows, client, stamps>>

\* try_submit: never waits; a full bus sheds the command (503).
Submit(r) ==
  /\ req[r].pc = "reserved" /\ req[r].cmd # Scan
  /\ IF Len(bus) < BusCapacity
     THEN bus' = Append(bus, r) /\ ran' = ran \cup {r} /\ Goto(r, "queued")
     ELSE Goto(r, "rollback") /\ UNCHANGED <<bus, ran>>
  /\ UNCHANGED <<batch, events, corr, seen, gate, rows, client, stamps>>

Rejected(r) ==
  /\ req[r].pc = "rollback"
  /\ Goto(r, "rejected")
  /\ UNCHANGED <<bus, batch, events, corr, gate, rows, client, stamps, ran>>

\* Mutant: the reservation of a command that was never queued stays.
RollbackForgotten(r) == Rejected(r) /\ UNCHANGED seen

\* IdempotencyStore::release, for the operation it was reserved with.
Rollback(r) ==
  /\ Rejected(r)
  /\ seen' = [k \in IdemKeys |-> IF k = req[r].key /\ seen[k] = r THEN None ELSE seen[k]]

\* CorrRegistry::record, after the command is on the bus; then 202.
RecordCorr(r) ==
  /\ req[r].pc = "queued"
  /\ Answer(r, r)
  /\ corr' = IF req[r].cmd = None THEN corr ELSE Recorded(corr, req[r].cmd, r)
  /\ UNCHANGED <<bus, batch, events, seen, gate, rows, client, stamps, ran>>

\* ScanGate::begin: own the slot, or attach to the running scan.
BeginScan(r) ==
  /\ req[r].pc = "reserved" /\ req[r].cmd = Scan
  /\ IF gate = None
     THEN gate' = r /\ rows' = 0 /\ ran' = ran \cup {r} /\ Goto(r, "window")
     ELSE /\ req' = [req EXCEPT ![r].pc = "attached", ![r].op = gate]
          /\ UNCHANGED <<gate, rows, ran>>
  /\ UNCHANGED <<bus, batch, events, corr, seen, client, stamps>>

Attached(r) ==
  /\ req[r].pc = "attached"
  /\ Goto(r, "accepted")
  /\ UNCHANGED <<bus, batch, events, corr, gate, rows, client, stamps, ran>>

\* Mutant: the key keeps naming the scan that never ran.
NotRebound(r) == Attached(r) /\ UNCHANGED seen

\* IdempotencyStore::rebind to the running scan.
Rebind(r) ==
  /\ Attached(r)
  /\ seen' = [k \in IdemKeys |->
                IF k = req[r].key /\ seen[k] = r THEN req[r].op ELSE seen[k]]

\* The fence is the last sequence number issued; then record_window, and the
\* scan is spawned.
OpenWindow(r) ==
  /\ req[r].pc = "window"
  /\ corr' = [corr EXCEPT !.window = [op |-> r, from |-> Len(events)]]
  /\ Answer(r, r)
  /\ UNCHANGED <<bus, batch, events, seen, gate, rows, client, stamps, ran>>

-----------------------------------------------------------------------------
\* The scan task, the engine and the clients.

Publish(k, op) == events' = Append(events, [key |-> k, cause |-> op])

PublishRow ==
  /\ gate # None /\ req[gate].pc = "accepted" /\ rows < MaxRows
  /\ Publish(Scan, gate) /\ rows' = rows + 1
  /\ UNCHANGED <<req, seen, gate, ran, bus, batch, corr, client, stamps>>

\* The task ends and its guard clears the slot.
EndScan ==
  /\ gate # None /\ req[gate].pc = "accepted"
  /\ gate' = None
  /\ UNCHANGED <<req, seen, rows, ran, bus, batch, events, corr, client, stamps>>

\* CommandReceiver::try_drain, once per tick.
Drain ==
  /\ batch = <<>> /\ bus # <<>>
  /\ batch' = bus /\ bus' = <<>>
  /\ UNCHANGED <<requestVars, events, corr, client, stamps>>

\* route_command: a keyed command publishes its outcome or is ignored (no such
\* salvo); take and cancel of the armed salvo, which for_command leaves without
\* a key, publish the outcome of whatever was armed.
Apply ==
  /\ batch # <<>>
  /\ batch' = Tail(batch)
  /\ \/ UNCHANGED events
     \/ \E k \in CorrKeys :
          /\ req[Head(batch)].cmd \in {k, None}
          /\ Publish(k, Head(batch))
  /\ UNCHANGED <<requestVars, bus, corr, client, stamps>>

\* A session subscribes at the head.
Connect(c) ==
  /\ client[c] = 0
  /\ client' = [client EXCEPT ![c] = Len(events) + 1]
  /\ UNCHANGED <<requestVars, bus, batch, events, corr, stamps>>

Advance(c) ==
  /\ client[c] \in 1 .. Len(events)
  /\ client' = [client EXCEPT ![c] = @ + 1]
  /\ UNCHANGED <<requestVars, bus, batch, events>>

\* frame_for: the event is out of scope or behind the watermark, or was lost to
\* a lag; nothing is resolved.
Skip(c) == Advance(c) /\ UNCHANGED <<corr, stamps>>

\* frame_for: the delta is stamped with what resolve answers.
Project(c) ==
  /\ Advance(c)
  /\ LET i == client[c]
         k == events[i].key
     IN  /\ stamps' = [stamps EXCEPT ![c] =
                          [j \in DOMAIN @ \cup {i} |->
                             IF j = i THEN ResolvedOp(corr, k, i) ELSE @[j]]]
         /\ corr' = Resolved(corr, k, i)

Next ==
  \/ \E r \in Requests, k \in IdemKeys \cup {None}, cmd \in Commands : Reserve(r, k, cmd)
  \/ \E r \in Requests :
       \/ BuildRefused(r) \/ Submit(r) \/ Rollback(r) \/ RecordCorr(r)
       \/ BeginScan(r) \/ Rebind(r) \/ OpenWindow(r)
  \/ PublishRow \/ EndScan \/ Drain \/ Apply
  \/ \E c \in Clients : Connect(c) \/ Skip(c) \/ Project(c)

Spec == Init /\ [][Next]_vars

-----------------------------------------------------------------------------
(* Properties *)

OpOrNone == Ops \cup {None}

TypeOK ==
  /\ req \in [Requests -> [pc : Positions, key : IdemKeys \cup {None},
                           cmd : Commands, op : OpOrNone]]
  /\ seen \in [IdemKeys -> OpOrNone]
  /\ bus \in Seq(Ops) /\ Len(bus) <= BusCapacity
  /\ batch \in Seq(Ops) /\ Len(batch) <= BusCapacity
  /\ events \in Seq([key : Keyed, cause : Ops])
  /\ corr.pending \in [CorrKeys -> Seq(Ops)] /\ corr.order \in Seq(CorrKeys)
  /\ corr.window.op \in OpOrNone /\ corr.window.from \in 0 .. Len(events)
  /\ gate \in OpOrNone /\ rows \in 0 .. MaxRows
  /\ client \in [Clients -> 0 .. Len(events) + 1]
  /\ \A c \in Clients :
       /\ DOMAIN stamps[c] \subseteq 1 .. client[c] - 1
       /\ \A i \in DOMAIN stamps[c] : stamps[c][i] \in OpOrNone
  /\ ran \subseteq Ops

\* Requests with one idempotency key run at most one operation between them,
\* although a shed or refused one gives the key back for a retry
\* (IdempotencyStore: "the engine is never asked to apply the command twice").
RunsOncePerKey ==
  \A r, s \in ran : req[r].key = req[s].key /\ req[r].key # None => r = s

InFlight(r) == req[r].pc \in {"reserved", "rollback", "attached"}

\* What a recorded key replays is an operation that ran, or one whose request
\* is still being decided: no shed, refused or attached request leaves the key
\* naming an operation that will never run (release and rebind).
RecordedKeyRan ==
  \A k \in IdemKeys : seen[k] # None => seen[k] \in ran \/ InFlight(seen[k])

\* The eviction order and the queues describe the same pending correlations,
\* within the capacity, through any mix of records, evictions and resolutions
\* (CorrInner: "a consumed correlation cannot be evicted twice").
OrderMatchesPending ==
  /\ Len(corr.order) <= CorrCapacity /\ Len(corr.resolved) <= CorrCapacity
  /\ \A k \in CorrKeys :
       Len(corr.pending[k]) = Cardinality({i \in DOMAIN corr.order : corr.order[i] = k})

\* One operation per key, and every recorded key names it (IdempotencyStore,
\* as submit_accepted_body and the scan route use it).
KeysRunOnce == RunsOncePerKey /\ RecordedKeyRan

Stamps == {x \in Clients \X (1 .. Len(events)) :
             x[2] \in DOMAIN stamps[x[1]] /\ stamps[x[1]][x[2]] # None}
Stamp(x) == stamps[x[1]][x[2]]

\* A command's operation is stamped on one engine event at most, whoever
\* projects it ("a re-emitted outcome carries no stale corr").
StampedOnce ==
  \A x, y \in Stamps :
    Stamp(x) = Stamp(y) /\ req[Stamp(x)].cmd # Scan => x[2] = y[2]

\* As long as no memo was evicted, clients that stamp one event stamp it with
\* the same operation ("every fanned-out subscriber stamps the same corr").
StampsAgree ==
  Len(corr.resolved) < CorrCapacity =>
    \A x, y \in Stamps : x[2] = y[2] => Stamp(x) = Stamp(y)

\* A correlation is consumed once, by one event, and every client and both
\* structures of the registry agree on which (CorrRegistry::resolve).
ConsumedOnce == OrderMatchesPending /\ StampedOnce /\ StampsAgree

\* A row of a scan is stamped with that scan or not at all, however far behind
\* the client is ("an earlier scan's stragglers" never get a newer scan's id).
ScanRowsKeepTheirScan ==
  \A x \in Stamps : events[x[2]].key = Scan => Stamp(x) = events[x[2]].cause

\* What CorrRegistry says of every outcome: it is correlated with the operation
\* that caused it or not at all, "never a wrong id".
NeverAWrongId ==
  \A x \in Stamps : Stamp(x) = events[x[2]].cause

\* What submit_accepted_body says of a replay: "the original command already
\* reached the engine"; so a 202 never names an operation that was rejected.
AcceptedRuns ==
  \A r \in Requests :
    req[r].pc = "accepted" => req[r].op \in ran \/ InFlight(req[r].op)
=============================================================================
