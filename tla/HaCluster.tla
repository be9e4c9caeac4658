------------------------------ MODULE HaCluster ------------------------------
(***************************************************************************)
(* The active/standby cluster of multiview-engine (ha/mod.rs): every node  *)
(* runs an HaStateMachine under an HaRunner (ha/transport.rs) that beats   *)
(* once per interval and pumps the heartbeats that arrived over UDP.       *)
(*                                                                         *)
(* The unit of time is the heartbeat interval.  All nodes stamp and read   *)
(* one shared timeline, and the code only compares differences of instants *)
(* with the dead window, so instants are kept as ages that stop at the     *)
(* window.  Until the network heals a datagram may be lost, duplicated,    *)
(* reordered or late by up to MaxDelay intervals; afterwards each arrives  *)
(* once, within MaxDelay, and every node keeps its beat.                   *)
(***************************************************************************)
EXTENDS Naturals, Sequences, FiniteSets

CONSTANTS
    Nodes,        \* NodeIds: positive naturals
    Prio,         \* node -> Priority
    Configured,   \* the node configured to start as Active
    DeadAfter,    \* miss_threshold, in heartbeat intervals
    MaxDelay,     \* bound: age of a datagram still in flight
    MaxBatch,     \* bound: heartbeats one pump drains
    MaxEpoch,     \* bound: promotions of one node while the network misbehaves
    MaxCrashes,   \* bound: crashes of nodes
    StartHealed   \* whether the network may be reliable, or unreliable, from the start

ASSUME NodesAssumption == Nodes \subseteq Nat \ {0} /\ IsFiniteSet(Nodes)
ASSUME PrioAssumption == Prio \in [Nodes -> Nat] /\ Configured \in Nodes
ASSUME WindowAssumption == DeadAfter \in Nat \ {0} /\ MaxDelay \in Nat
(* A beat reaches a peer while the one before it still counts.              *)
ASSUME TimelyAssumption == MaxDelay + 1 < DeadAfter
ASSUME BoundAssumption ==
    MaxBatch \in Nat /\ MaxEpoch \in Nat /\ MaxCrashes \in Nat /\ StartHealed \subseteq BOOLEAN

VARIABLES
    node,      \* node -> its HaStateMachine: role, epoch, the active it watches, age of its last beat
    up,        \* the nodes that are running
    net,       \* heartbeats in flight, one per destination
    clock,     \* age of the shared timeline's origin (start_anchor)
    beaten,    \* nodes that have beaten in this interval
    healed,    \* the network has become reliable
    crashes,   \* crashes so far
    calm,      \* history: nobody has crashed, on a network reliable from the start
    uptime     \* history: node -> intervals since it started

vars == <<node, up, net, clock, beaten, healed, crashes, calm, uptime>>

NoNode == 0
Age    == 0 .. DeadAfter
Older(age) == IF age < DeadAfter THEN age + 1 ELSE age

Heartbeat == [to : Nodes, from : Nodes, role : {"active", "standby"}, epoch : Nat, age : Nat]

TypeOK ==
    /\ node \in [Nodes -> [role : {"active", "standby"}, epoch : Nat,
                           watch : Nodes \cup {NoNode}, seen : Age]]
    /\ up \subseteq Nodes
    /\ net \subseteq Heartbeat
    /\ \A hb \in net : hb.age <= MaxDelay
    /\ clock \in Age
    /\ beaten \subseteq Nodes
    /\ healed \in BOOLEAN
    /\ crashes \in 0 .. MaxCrashes
    /\ uptime \in [Nodes -> Age]
    /\ calm \in BOOLEAN

(* HaStateMachine::new, in the configured role.                             *)
Fresh(n) == [role  |-> IF n = Configured THEN "active" ELSE "standby",
             epoch |-> 0, watch |-> NoNode, seen |-> 0]

Init ==
    /\ node = [n \in Nodes |-> Fresh(n)]
    /\ up = Nodes
    /\ net = {}
    /\ clock = 0
    /\ beaten = {}
    /\ healed \in StartHealed
    /\ calm = healed
    /\ crashes = 0
    /\ uptime = [n \in Nodes |-> 0]

-----------------------------------------------------------------------------
(* Mutants: an equal epoch always yields; an equal epoch never yields.      *)
TieYields(peerEpoch, peer, epoch, n) == peerEpoch >= epoch
TieHolds(peerEpoch, peer, epoch, n)  == peerEpoch > epoch

(* peer_outranks_us: the higher epoch, then the higher priority, then the   *)
(* lower id.                                                                *)
Outranks(peerEpoch, peer, epoch, n) ==
    \/ peerEpoch > epoch
    \/ peerEpoch = epoch /\ Prio[peer] > Prio[n]
    \/ peerEpoch = epoch /\ Prio[peer] = Prio[n] /\ peer < n

(* observe_heartbeat of node n in state s: an active peer's beat retargets  *)
(* or refreshes the tracker (never backwards), and outranks n or not.       *)
observe_heartbeat(n, s, hb) ==
    IF hb.from = n \/ hb.role # "active" THEN s
    ELSE [s EXCEPT !.watch = hb.from,
                   !.seen  = IF s.watch = hb.from /\ s.seen <= hb.age THEN @
                             ELSE IF hb.age < DeadAfter THEN hb.age ELSE DeadAfter,
                   !.role  = IF Outranks(hb.epoch, hb.from, s.epoch, n) THEN "standby" ELSE @]

(* Mutant: a peer counts as dead one interval early.                        *)
DueEarly(s) == IF s.watch = NoNode THEN clock >= DeadAfter ELSE s.seen + 1 >= DeadAfter

(* is_alive, and cold_start_deadline_elapsed when no active was ever heard. *)
Due(s) == IF s.watch = NoNode THEN clock >= DeadAfter ELSE s.seen >= DeadAfter

(* Mutant: a promotion counts down.                                         *)
TickDown(s) ==
    IF s.role = "standby" /\ Due(s)
    THEN [s EXCEPT !.role = "active", !.epoch = @ - 1]
    ELSE s

(* tick: a standby whose active is dead promotes and bumps its own epoch.   *)
tick(s) ==
    IF s.role = "standby" /\ Due(s)
    THEN [s EXCEPT !.role = "active", !.epoch = @ + 1]
    ELSE s

Inflight(n) == {hb \in net : hb.to = n}
Batches(n)  == UNION {[1 .. k -> Inflight(n)] : k \in 0 .. MaxBatch}

Observed(n, batch) ==
    LET after[i \in 0 .. Len(batch)] ==
            IF i = 0 THEN node[n] ELSE observe_heartbeat(n, after[i - 1], batch[i])
    IN  after[Len(batch)]

(* HaRunner::pump_heartbeats: observe what arrived, in the order it         *)
(* arrived, then tick.                                                      *)
Pump(n) ==
    /\ n \in up
    /\ \E batch \in Batches(n) :
          LET arrived == {batch[i] : i \in DOMAIN batch}
          IN  /\ node' = [node EXCEPT ![n] = tick(Observed(n, batch))]
              /\ healed \/ node'[n].epoch <= MaxEpoch
              /\ net' = IF healed THEN net \ arrived ELSE net
    /\ UNCHANGED <<up, clock, beaten, healed, crashes, calm, uptime>>

(* HaRunner::beat: publish to every peer, best effort.                      *)
Beat(n) ==
    /\ n \in up \ beaten
    /\ net' = net \cup {[to |-> m, from |-> n, role |-> node[n].role,
                         epoch |-> node[n].epoch, age |-> 0] : m \in Nodes \ {n}}
    /\ beaten' = beaten \cup {n}
    /\ UNCHANGED <<node, up, clock, healed, crashes, calm, uptime>>

(* An interval passes.  On a healed network every running node has beaten   *)
(* in it, and no datagram to a running node stays out longer than MaxDelay. *)
Advance ==
    /\ healed => up \subseteq beaten /\ \A hb \in net : hb.to \in up => hb.age < MaxDelay
    /\ clock' = Older(clock)
    /\ net' = {[hb EXCEPT !.age = @ + 1] : hb \in {h \in net : h.age < MaxDelay}}
    /\ node' = [n \in Nodes |-> [node[n] EXCEPT !.seen = Older(@)]]
    /\ uptime' = [n \in Nodes |-> Older(uptime[n])]
    /\ beaten' = {}
    /\ UNCHANGED <<up, healed, crashes, calm>>

Heal ==
    /\ ~healed
    /\ healed' = TRUE
    /\ UNCHANGED <<node, up, net, clock, beaten, crashes, calm, uptime>>

Crash(n) ==
    /\ n \in up /\ Cardinality(up) > 1 /\ crashes < MaxCrashes
    /\ up' = up \ {n} /\ crashes' = crashes + 1
    /\ node' = [node EXCEPT ![n] = Fresh(n)]
    /\ calm' = FALSE
    /\ UNCHANGED <<net, clock, beaten, healed, uptime>>

(* A restarted process builds a new machine in its configured role.         *)
Restart(n) ==
    /\ n \notin up
    /\ up' = up \cup {n}
    /\ uptime' = [uptime EXCEPT ![n] = 0]
    /\ node' = [node EXCEPT ![n] = Fresh(n)]
    /\ UNCHANGED <<net, clock, beaten, healed, crashes, calm>>

Next ==
    \/ \E n \in Nodes : Pump(n) \/ Beat(n) \/ Crash(n) \/ Restart(n)
    \/ Advance \/ Heal

Spec == Init /\ [][Next]_vars

(* The caller beats and pumps once per interval, and time passes.  Nothing  *)
(* has to crash, restart or heal.                                           *)
FairSpec ==
    /\ Spec
    /\ \A n \in Nodes : WF_vars(Pump(n)) /\ WF_vars(Beat(n))
    /\ WF_vars(Advance)

-----------------------------------------------------------------------------
(* Properties.                                                              *)

Drivers == {n \in up : node[n].role = "active"}

(* Output is always driven: whatever beats are lost, late, duplicated or    *)
(* reordered, two actives never yield to each other, so as long as nobody   *)
(* has crashed there is an active (ha/mod.rs, observe_heartbeat).           *)
SomeoneDrives == crashes = 0 => Drivers # {}

(* On a network that delivers within the dead window and while nobody       *)
(* crashes, the configured node drives and no other: no beat ever comes too *)
(* late for a standby (ha/mod.rs, PeerHealth::is_alive).                    *)
OneDriver == calm => Drivers = {Configured}

(* Split brain heals: once the network is reliable and nodes stay up, one   *)
(* and only one node drives for ever (ha/mod.rs, peer_outranks_us).         *)
SplitBrainHeals == <>[](healed => Cardinality(Drivers) = 1)

Promotes(n) == n \in up \cap up' /\ node[n].role = "standby" /\ node'[n].role = "active"

(* What the comment on tick says of a cold start: a node that never heard   *)
(* an active waits one dead window from the first instant it observed.      *)
ColdStartWaits ==
    [][\A n \in Nodes : Promotes(n) /\ node'[n].watch = NoNode => uptime[n] >= DeadAfter]_vars
=============================================================================
