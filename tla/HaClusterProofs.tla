--------------------------- MODULE HaClusterProofs ---------------------------
(***************************************************************************)
(* Proofs about HaCluster, for every set of nodes, every priorities, dead  *)
(* window and batch, and a network that loses, repeats, delays and         *)
(* reorders as it likes: its types, and that the actives never all yield.  *)
(***************************************************************************)
EXTENDS HaCluster, WellFoundedInduction, TLAPS

-----------------------------------------------------------------------------
(* The order of ranks *)

\* A rank of epoch e and node m is at least one of epoch f and node p.
AtLeast(e, m, f, p) == Outranks(e, m, f, p) \/ (e = f /\ m = p)

\* peer_outranks_us is a strict order of epochs and nodes.
LEMMA RankOrder ==
  ASSUME NEW e \in Nat, NEW f \in Nat, NEW g \in Nat,
         NEW m \in Nodes, NEW p \in Nodes, NEW q \in Nodes
  PROVE  /\ ~Outranks(e, m, e, m)
         /\ AtLeast(e, m, f, p) /\ Outranks(f, p, g, q) => Outranks(e, m, g, q)
         /\ AtLeast(e, m, f, p) /\ AtLeast(f, p, g, q) => AtLeast(e, m, g, q)
         /\ e >= f => AtLeast(e, m, f, m)
<1>1. /\ m \in Nat /\ p \in Nat /\ q \in Nat
      /\ Prio[m] \in Nat /\ Prio[p] \in Nat /\ Prio[q] \in Nat
  BY NodesAssumption, PrioAssumption
<1> QED BY <1>1, SMT DEF AtLeast, Outranks

-----------------------------------------------------------------------------
(* A batch of heartbeats *)

\* A non-empty set of naturals has a least element.
LEMMA LeastExists ==
  ASSUME NEW S \in SUBSET Nat, S # {}
  PROVE  \E x \in S : \A y \in S : x <= y
<1>1. PICK x \in S : \A y \in S : ~(<<y, x>> \in OpToRel(<, Nat))
  BY NatLessThanWellFounded, WFMin
<1>2. \A y \in S : x <= y
  <2> TAKE y \in S
  <2>1. ~(<<y, x>> \in OpToRel(<, Nat))
    BY <1>1
  <2> QED BY <2>1 DEF OpToRel
<1> QED BY <1>2

\* The states a node passes through on a batch (pump_heartbeats).
Passes(n, batch, k, g) ==
  g = [i \in 0 .. k |->
         IF i = 0 THEN node[n] ELSE observe_heartbeat(n, g[i - 1], batch[i])]

\* There are such states for every batch.
LEMMA PassesExist ==
  ASSUME NEW n, NEW batch, NEW k \in Nat
  PROVE  \E g : Passes(n, batch, k, g)
<1> DEFINE Bad == {j \in Nat : ~ \E g : Passes(n, batch, j, g)}
<1>1. SUFFICES Bad = {}
  OBVIOUS
<1>2. SUFFICES ASSUME Bad # {} PROVE FALSE
  OBVIOUS
<1>3. PICK j \in Bad : \A l \in Bad : j <= l
  <2>1. Bad \in SUBSET Nat
    OBVIOUS
  <2> HIDE DEF Bad
  <2> QED BY <1>2, <2>1, LeastExists
<1>4. CASE j = 0
  <2> DEFINE g == [i \in 0 .. 0 |-> node[n]]
  <2>1. Passes(n, batch, 0, g)
    BY DEF Passes
  <2> QED BY <1>3, <1>4, <2>1
<1>5. CASE j # 0
  <2>1. j - 1 \in Nat /\ j \in Nat /\ j - 1 \notin Bad
    BY <1>3, <1>5
  <2>2. PICK f : Passes(n, batch, j - 1, f)
    BY <2>1
  <2> DEFINE g == [i \in 0 .. j |->
                     IF i = j THEN observe_heartbeat(n, f[j - 1], batch[j]) ELSE f[i]]
  <2>3. ASSUME NEW i \in 0 .. j
        PROVE  g[i] = IF i = 0 THEN node[n] ELSE observe_heartbeat(n, g[i - 1], batch[i])
    <3>1. CASE i = j
      <4>1. i # 0 /\ i - 1 \in 0 .. j /\ i - 1 # j
        BY <3>1, <2>1, <1>5
      <4>2. g[i - 1] = f[j - 1]
        BY <4>1, <3>1
      <4> QED BY <4>1, <4>2, <3>1
    <3>2. CASE i # j
      <4>1. i \in 0 .. j - 1 /\ g[i] = f[i]
        BY <3>2, <2>1
      <4>2. f[i] = IF i = 0 THEN node[n] ELSE observe_heartbeat(n, f[i - 1], batch[i])
        BY <4>1, <2>2 DEF Passes
      <4>3. i # 0 => i - 1 \in 0 .. j /\ i - 1 # j
        BY <4>1, <2>1
      <4>4. i # 0 => g[i - 1] = f[i - 1]
        BY <4>3
      <4> QED BY <4>1, <4>2, <4>4
    <3> QED BY <3>1, <3>2
  <2>4. Passes(n, batch, j, g)
    <3> DEFINE h == [i \in 0 .. j |->
                       IF i = 0 THEN node[n] ELSE observe_heartbeat(n, g[i - 1], batch[i])]
    <3>1. \A i \in 0 .. j : g[i] = h[i]
      BY <2>3
    <3>2. g = h
      BY <3>1, Zenon
    <3> QED BY <3>2 DEF Passes
  <2> HIDE DEF g
  <2> QED BY <1>3, <2>4
<1> QED BY <1>4, <1>5

Node == [role : {"active", "standby"}, epoch : Nat, watch : Nodes \cup {NoNode}, seen : Age]

\* The heartbeat of a batch that makes node n yield (observe_heartbeat).
YieldsTo(n, hb) ==
  hb.role = "active" /\ hb.from # n /\ Outranks(hb.epoch, hb.from, node[n].epoch, n)

\* One heartbeat changes no epoch, promotes nobody, and demotes only for a
\* higher rank.
LEMMA ObserveFacts ==
  ASSUME NEW n \in Nodes, NEW s \in Node, NEW hb \in Heartbeat, hb.age \in Nat
  PROVE  LET t == observe_heartbeat(n, s, hb)
         IN  /\ t \in Node /\ t.epoch = s.epoch
             /\ t.role = "active" => s.role = "active"
             /\ s.role = "active" /\ t.role = "standby" =>
                  hb.role = "active" /\ hb.from # n /\ Outranks(hb.epoch, hb.from, s.epoch, n)
<1>1. hb.from \in Nodes /\ DeadAfter \in Nat \ {0} /\ Age = 0 .. DeadAfter
  BY WindowAssumption DEF Heartbeat, Age
<1>2. CASE hb.from = n \/ hb.role # "active"
  BY <1>2 DEF observe_heartbeat
<1>3. CASE ~(hb.from = n \/ hb.role # "active")
  <2> DEFINE w == IF s.watch = hb.from /\ s.seen <= hb.age THEN s.seen
                  ELSE IF hb.age < DeadAfter THEN hb.age ELSE DeadAfter
             r == IF Outranks(hb.epoch, hb.from, s.epoch, n) THEN "standby" ELSE s.role
  <2>1. w \in Age
    BY <1>1 DEF Node
  <2>2. r \in {"active", "standby"}
    BY DEF Node
  <2>3. observe_heartbeat(n, s, hb) = [s EXCEPT !.watch = hb.from, !.seen = w, !.role = r]
    BY <1>3 DEF observe_heartbeat
  <2> HIDE DEF w
  <2>4. observe_heartbeat(n, s, hb) = [role |-> r, epoch |-> s.epoch, watch |-> hb.from, seen |-> w]
    BY <2>3 DEF Node
  <2> QED BY <2>1, <2>2, <2>4, <1>1, <1>3 DEF Node
<1> QED BY <1>2, <1>3

\* What node n is after the first i heartbeats of a batch.
Sane(n, batch, i, t) ==
  /\ t \in Node /\ t.epoch = node[n].epoch
  /\ t.role = "active" => node[n].role = "active"
  /\ node[n].role = "active" /\ t.role = "standby" =>
       \E l \in 1 .. i : YieldsTo(n, batch[l])

\* A whole batch changes no epoch, promotes nobody, and demotes only for a
\* heartbeat in it of a higher rank (pump_heartbeats).
LEMMA ObservedFacts ==
  ASSUME NEW n \in Nodes, NEW k \in Nat, NEW batch \in [1 .. k -> Heartbeat],
         node[n] \in Node
  PROVE  Sane(n, batch, k, Observed(n, batch))
<1>0. Len(batch) = k /\ \A l \in 1 .. k : batch[l] \in Heartbeat /\ batch[l].age \in Nat
  <2>1. batch \in Seq(Heartbeat) /\ DOMAIN batch = 1 .. k
    OBVIOUS
  <2> QED BY <2>1 DEF Heartbeat
<1> DEFINE g == CHOOSE f : Passes(n, batch, k, f)
<1>1. Passes(n, batch, k, g)
  BY PassesExist
<1>2. Observed(n, batch) = g[k]
  BY <1>0 DEF Observed, Passes
<1> HIDE DEF g
<1>3. \A i \in 0 .. k :
        g[i] = IF i = 0 THEN node[n] ELSE observe_heartbeat(n, g[i - 1], batch[i])
  BY <1>1 DEF Passes
<1> DEFINE Bad == {i \in 0 .. k : ~Sane(n, batch, i, g[i])}
<1>4. Bad = {}
  <2> SUFFICES ASSUME Bad # {} PROVE FALSE
    OBVIOUS
  <2>1. PICK i \in Bad : \A l \in Bad : i <= l
    <3>1. Bad \in SUBSET Nat
      OBVIOUS
    <3> HIDE DEF Bad
    <3> QED BY <3>1, LeastExists
  <2>2. CASE i = 0
    BY <1>3, <2>1, <2>2 DEF Sane
  <2>3. CASE i # 0
    <3>1. i - 1 \in 0 .. k /\ i \in 1 .. k /\ i - 1 \notin Bad
      BY <2>1, <2>3
    <3>2. Sane(n, batch, i - 1, g[i - 1])
      BY <3>1
    <3>3. g[i] = observe_heartbeat(n, g[i - 1], batch[i])
      BY <1>3, <2>1, <2>3
    <3> DEFINE s == g[i - 1]
               t == g[i]
               hb == batch[i]
    <3>4. /\ t \in Node /\ t.epoch = s.epoch
          /\ t.role = "active" => s.role = "active"
          /\ s.role = "active" /\ t.role = "standby" =>
               hb.role = "active" /\ hb.from # n /\ Outranks(hb.epoch, hb.from, s.epoch, n)
      <4>1. s \in Node /\ hb \in Heartbeat /\ hb.age \in Nat /\ t = observe_heartbeat(n, s, hb)
        BY <1>0, <3>1, <3>2, <3>3 DEF Sane
      <4> HIDE DEF s, t, hb
      <4> QED BY <4>1, ObserveFacts
    <3>5. node[n].role = "active" /\ t.role = "standby" =>
            \E l \in 1 .. i : YieldsTo(n, batch[l])
      <4> SUFFICES ASSUME node[n].role = "active", t.role = "standby"
                   PROVE  \E l \in 1 .. i : YieldsTo(n, batch[l])
        OBVIOUS
      <4>1. CASE s.role = "active"
        <5>1. YieldsTo(n, batch[i])
          BY <4>1, <3>2, <3>4 DEF YieldsTo, Sane
        <5> QED BY <5>1, <3>1
      <4>2. CASE s.role = "standby"
        <5>1. PICK l \in 1 .. i - 1 : YieldsTo(n, batch[l])
          BY <4>2, <3>2 DEF Sane
        <5> QED BY <5>1, <3>1
      <4> QED BY <4>1, <4>2, <3>2 DEF Sane, Node
    <3>6. Sane(n, batch, i, g[i])
      BY <3>2, <3>4, <3>5 DEF Sane
    <3> QED BY <3>6, <2>1
  <2> QED BY <2>2, <2>3
<1>5. k \in 0 .. k
  OBVIOUS
<1> QED BY <1>2, <1>4, <1>5

-----------------------------------------------------------------------------
(* Types *)

\* Restarting, waiting and promoting keep the types (HaStateMachine::new, tick).
LEMMA NodeFacts ==
  /\ \A n \in Nodes : Fresh(n) \in Node
  /\ \A a \in Age : Older(a) \in Age
  /\ \A s \in Node : /\ tick(s) \in Node /\ tick(s).epoch >= s.epoch
                     /\ s.role = "active" => tick(s) = s
<1>1. 0 \in Age
  BY WindowAssumption DEF Age
<1>2. \A n \in Nodes : Fresh(n) \in Node
  BY <1>1 DEF Fresh, Node
<1>3. \A a \in Age : Older(a) \in Age
  BY WindowAssumption DEF Age, Older
<1>4. ASSUME NEW s \in Node
      PROVE  /\ tick(s) \in Node /\ tick(s).epoch >= s.epoch
             /\ s.role = "active" => tick(s) = s
  <2> DEFINE e == s.epoch + 1
  <2>1. e \in Nat /\ e >= s.epoch /\ s.epoch >= s.epoch
    BY DEF Node
  <2>2. tick(s) = s \/ (s.role # "active" /\ tick(s) = [s EXCEPT !.role = "active", !.epoch = e])
    BY DEF tick
  <2> HIDE DEF e
  <2>3. [s EXCEPT !.role = "active", !.epoch = e] \in Node
    BY <2>1 DEF Node
  <2>4. [s EXCEPT !.role = "active", !.epoch = e].epoch = e
    BY DEF Node
  <2> QED BY <2>1, <2>2, <2>3, <2>4
<1> QED BY <1>2, <1>3, <1>4

\* A pump is a batch of what arrived, then a tick (pump_heartbeats).
LEMMA PumpFacts ==
  ASSUME TypeOK, NEW n \in Nodes, Pump(n)
  PROVE  \E k \in Nat : \E batch \in [1 .. k -> Inflight(n)] :
           /\ Sane(n, batch, k, Observed(n, batch))
           /\ node' = [node EXCEPT ![n] = tick(Observed(n, batch))]
           /\ net' \subseteq net
           /\ UNCHANGED <<up, clock, beaten, healed, crashes, calm, uptime>>
<1>0. PICK batch \in Batches(n) :
        /\ node' = [node EXCEPT ![n] = tick(Observed(n, batch))]
        /\ net' \subseteq net
  BY DEF Pump
<1>1. PICK k \in 0 .. MaxBatch : batch \in [1 .. k -> Inflight(n)]
  BY DEF Batches
<1>2. batch \in [1 .. k -> Heartbeat] /\ k \in Nat /\ node[n] \in Node
  <2>1. Inflight(n) \subseteq Heartbeat
    BY DEF TypeOK, Inflight
  <2>2. batch \in [1 .. k -> Heartbeat]
    BY <1>1, <2>1
  <2>3. k \in Nat
    BY BoundAssumption
  <2>4. node[n] \in Node
    BY DEF TypeOK, Node
  <2> QED BY <2>2, <2>3, <2>4
<1>3. Sane(n, batch, k, Observed(n, batch))
  BY <1>2, ObservedFacts
<1> QED BY <1>0, <1>1, <1>2, <1>3 DEF Pump

\* Every step keeps the types.
LEMMA TypeStep == TypeOK /\ [Next]_vars => TypeOK'
<1> SUFFICES ASSUME TypeOK, [Next]_vars PROVE TypeOK'
  OBVIOUS
<1> USE DEF TypeOK
<1>0. node \in [Nodes -> Node]
  BY DEF Node
<1>t. ASSUME node' \in [Nodes -> Node], net' \subseteq net,
             UNCHANGED <<up, clock, beaten, healed, crashes, calm, uptime>>
      PROVE  TypeOK'
  BY <1>t DEF Node
<1>1. ASSUME NEW n \in Nodes, Pump(n) PROVE TypeOK'
  <2>1. PICK k \in Nat : \E batch \in [1 .. k -> Inflight(n)] :
           /\ Sane(n, batch, k, Observed(n, batch))
           /\ node' = [node EXCEPT ![n] = tick(Observed(n, batch))]
           /\ net' \subseteq net
           /\ UNCHANGED <<up, clock, beaten, healed, crashes, calm, uptime>>
    BY <1>1, PumpFacts
  <2>2. PICK t \in Node : node' = [node EXCEPT ![n] = tick(t)]
    BY <2>1 DEF Sane
  <2>3. node' \in [Nodes -> Node]
    BY <2>2, <1>0, NodeFacts
  <2> QED BY <2>1, <2>3, <1>t
<1>2. ASSUME NEW n \in Nodes, Beat(n) PROVE TypeOK'
  <2>1. ASSUME NEW hb \in net' PROVE hb \in Heartbeat /\ hb.age <= MaxDelay
    <3>1. CASE hb \in net
      BY <3>1
    <3>2. CASE hb \notin net
      <4>1. PICK m \in Nodes \ {n} :
              hb = [to |-> m, from |-> n, role |-> node[n].role, epoch |-> node[n].epoch,
                    age |-> 0]
        BY <1>2, <3>2 DEF Beat
      <4>2. hb \in Heartbeat
        BY <4>1, <1>0 DEF Heartbeat, Node
      <4>3. hb.age = 0 /\ MaxDelay \in Nat
        BY <4>1, WindowAssumption
      <4> QED BY <4>2, <4>3
    <3> QED BY <3>1, <3>2
  <2>2. /\ beaten' \subseteq Nodes
        /\ UNCHANGED <<node, up, clock, healed, crashes, calm, uptime>>
    BY <1>2 DEF Beat
  <2> QED BY <2>1, <2>2
<1>3. CASE Advance
  <2>1. ASSUME NEW hb \in net' PROVE hb \in Heartbeat /\ hb.age <= MaxDelay
    <3>1. PICK h \in net : h.age < MaxDelay /\ hb = [h EXCEPT !.age = @ + 1]
      BY <1>3 DEF Advance
    <3>2. h \in Heartbeat /\ h.age \in Nat /\ MaxDelay \in Nat
      BY WindowAssumption DEF Heartbeat
    <3> DEFINE a == h.age + 1
    <3>3. a \in Nat /\ a <= MaxDelay
      BY <3>1, <3>2
    <3>4. hb = [h EXCEPT !.age = a]
      BY <3>1
    <3> HIDE DEF a
    <3>5. hb \in Heartbeat /\ hb.age = a
      BY <3>2, <3>3, <3>4 DEF Heartbeat
    <3> QED BY <3>3, <3>5
  <2>2. node' \in [Nodes -> Node]
    <3>1. node' = [n \in Nodes |-> [node[n] EXCEPT !.seen = Older(@)]]
      BY <1>3 DEF Advance
    <3>2. ASSUME NEW n \in Nodes PROVE [node[n] EXCEPT !.seen = Older(@)] \in Node
      <4>1. node[n] \in Node /\ Older(node[n].seen) \in Age
        BY <1>0, NodeFacts DEF Node
      <4> DEFINE a == Older(node[n].seen)
      <4>2. [node[n] EXCEPT !.seen = Older(@)] = [node[n] EXCEPT !.seen = a]
        OBVIOUS
      <4> HIDE DEF a
      <4>3. a \in Age
        BY <4>1 DEF a
      <4> QED BY <4>1, <4>2, <4>3 DEF Node
    <3> QED BY <3>1, <3>2
  <2>3. clock' \in Age /\ uptime' \in [Nodes -> Age] /\ beaten' = {}
    BY <1>3, NodeFacts DEF Advance
  <2>4. UNCHANGED <<up, healed, crashes, calm>>
    BY <1>3 DEF Advance
  <2> QED BY <2>1, <2>2, <2>3, <2>4 DEF Node
<1>4. CASE Heal
  BY <1>4 DEF Heal
<1>5. ASSUME NEW n \in Nodes, Crash(n) PROVE TypeOK'
  <2>1. crashes' \in 0 .. MaxCrashes
    BY <1>5, BoundAssumption DEF Crash
  <2>2. node' \in [Nodes -> Node]
    BY <1>5, <1>0, NodeFacts DEF Crash
  <2> QED BY <1>5, <2>1, <2>2 DEF Crash, Node
<1>6. ASSUME NEW n \in Nodes, Restart(n) PROVE TypeOK'
  <2>1. node' \in [Nodes -> Node] /\ uptime' \in [Nodes -> Age]
    BY <1>6, <1>0, NodeFacts, WindowAssumption DEF Restart, Age
  <2> QED BY <1>6, <2>1 DEF Restart, Node
<1>7. CASE UNCHANGED vars
  BY <1>7 DEF vars
<1> QED BY <1>1, <1>2, <1>3, <1>4, <1>5, <1>6, <1>7 DEF Next

\* The cluster starts in type (HaRunner::new).
LEMMA TypeInit == Init => TypeOK
<1> SUFFICES ASSUME Init PROVE TypeOK
  OBVIOUS
<1>1. node \in [Nodes -> Node] /\ 0 \in Age
  BY NodeFacts, WindowAssumption DEF Init, Age
<1>2. 0 \in 0 .. MaxCrashes /\ healed \in BOOLEAN
  BY BoundAssumption DEF Init
<1> QED BY <1>1, <1>2 DEF Init, TypeOK, Node

\* Types, with every epoch a natural, for any number of nodes.
THEOREM ClusterTypes == Spec => []TypeOK
BY TypeInit, TypeStep, PTL DEF Spec

-----------------------------------------------------------------------------
(* Somebody drives *)

\* Whatever an active ever announced, an active of at least that rank drives
\* now: who yields, yields to one of them.
Backed(hb) == \E q \in Drivers : AtLeast(node[q].epoch, q, hb.epoch, hb.from)

DriveInv ==
  crashes = 0 =>
    /\ up = Nodes /\ Drivers # {}
    /\ \A hb \in net : hb.role = "active" => Backed(hb)

\* What a step must keep: every driver stays one with its rank, or somebody of
\* a higher rank drives.
LEMMA DriveKept ==
  ASSUME TypeOK, DriveInv, crashes' = crashes, up' = up,
         node' \in [Nodes -> Node],
         \A q \in Drivers : \E d \in Drivers' :
            AtLeast(node'[d].epoch, d, node[q].epoch, q),
         \A hb \in net' : hb \in Heartbeat /\ (hb.role = "active" =>
            \/ \E h \in net : h.role = "active" /\ h.epoch = hb.epoch /\ h.from = hb.from
            \/ Backed(hb))
  PROVE  DriveInv'
<1> SUFFICES ASSUME crashes = 0 PROVE up' = Nodes /\ Drivers' # {}
                                     /\ \A hb \in net' : hb.role = "active" => Backed(hb)'
  BY DEF DriveInv
<1>1. up = Nodes /\ Drivers # {} /\ Drivers \subseteq Nodes /\ Drivers' \subseteq Nodes
  BY DEF DriveInv, Drivers, TypeOK
<1>2. Drivers' # {}
  BY <1>1
<1>3. ASSUME NEW hb \in net', hb.role = "active" PROVE Backed(hb)'
  <2>1. hb.epoch \in Nat /\ hb.from \in Nodes
    BY DEF Heartbeat
  <2>2. PICK q \in Drivers : AtLeast(node[q].epoch, q, hb.epoch, hb.from)
    <3>1. CASE Backed(hb)
      BY <3>1 DEF Backed
    <3>2. CASE \E h \in net : h.role = "active" /\ h.epoch = hb.epoch /\ h.from = hb.from
      BY <3>2 DEF DriveInv, Backed
    <3> QED BY <1>3, <3>1, <3>2
  <2>3. PICK d \in Drivers' : AtLeast(node'[d].epoch, d, node[q].epoch, q)
    BY <2>2
  <2>4. d \in Nodes /\ q \in Nodes /\ node'[d].epoch \in Nat /\ node[q].epoch \in Nat
    BY <1>1 DEF TypeOK, Node
  <2>5. AtLeast(node'[d].epoch, d, hb.epoch, hb.from)
    BY <2>1, <2>2, <2>3, <2>4, RankOrder
  <2> QED BY <2>5 DEF Backed
<1> QED BY <1>1, <1>2, <1>3

\* A pump: the node keeps or raises its rank, or yields to a higher one.
LEMMA DrivePump ==
  ASSUME TypeOK, TypeOK', DriveInv, NEW n \in Nodes, Pump(n)
  PROVE  DriveInv'
<1>0. node \in [Nodes -> Node] /\ node' \in [Nodes -> Node]
  BY DEF TypeOK, Node
<1>1. CASE crashes # 0
  BY <1>1 DEF Pump, DriveInv
<1>2. CASE crashes = 0
  <2>1. PICK k \in Nat, t \in Node :
          /\ \E batch \in [1 .. k -> Inflight(n)] : Sane(n, batch, k, t)
          /\ node' = [node EXCEPT ![n] = tick(t)]
          /\ net' \subseteq net
          /\ UNCHANGED <<up, crashes>>
    <3>1. PICK k \in Nat : \E batch \in [1 .. k -> Inflight(n)] :
           /\ Sane(n, batch, k, Observed(n, batch))
           /\ node' = [node EXCEPT ![n] = tick(Observed(n, batch))]
           /\ net' \subseteq net
           /\ UNCHANGED <<up, clock, beaten, healed, crashes, calm, uptime>>
      BY PumpFacts
    <3> QED BY <3>1 DEF Sane
  <2>2. PICK batch \in [1 .. k -> Inflight(n)] : Sane(n, batch, k, t)
    BY <2>1
  <2>3. /\ node'[n] = tick(t) /\ tick(t) \in Node
        /\ node'[n].epoch >= node[n].epoch
        /\ node'[n].epoch \in Nat /\ node[n].epoch \in Nat
        /\ \A m \in Nodes : m # n => node'[m] = node[m]
    BY <2>1, <2>2, <1>0, NodeFacts DEF Sane, Node
  <2>4. Drivers \subseteq Nodes /\ up = Nodes /\ up' = Nodes
    BY <1>2, <2>1 DEF Drivers, TypeOK, DriveInv
  <2>5. \A q \in Drivers : q # n => q \in Drivers' /\ node'[q] = node[q]
    BY <2>1, <2>3, <2>4 DEF Drivers
  <2>6. ASSUME NEW q \in Drivers
        PROVE  \E d \in Drivers' : AtLeast(node'[d].epoch, d, node[q].epoch, q)
    <3>0. q \in Nodes /\ node[q].epoch \in Nat
      BY <2>4, <1>0 DEF Node
    <3>1. CASE q # n
      BY <3>0, <3>1, <2>5 DEF AtLeast
    <3>2. CASE q = n /\ node'[n].role = "active"
      <4>1. n \in Drivers'
        BY <3>2, <2>1, <2>4 DEF Drivers
      <4>2. AtLeast(node'[n].epoch, n, node[n].epoch, n)
        BY <2>3, RankOrder
      <4> QED BY <4>1, <4>2, <3>2
    <3>3. CASE q = n /\ node'[n].role # "active"
      <4>1. node[n].role = "active" /\ t.role = "standby"
        BY <3>3, <2>1, <2>3, NodeFacts DEF Drivers, Node
      <4>2. PICK l \in 1 .. k : YieldsTo(n, batch[l])
        BY <4>1, <2>2 DEF Sane
      <4> DEFINE hb == batch[l]
      <4>3. hb \in net /\ hb.epoch \in Nat /\ hb.from \in Nodes
        BY <2>2 DEF Inflight, TypeOK, Heartbeat
      <4>4. PICK d \in Drivers : AtLeast(node[d].epoch, d, hb.epoch, hb.from)
        BY <4>2, <4>3, <1>2 DEF DriveInv, Backed, YieldsTo
      <4>5. d \in Nodes /\ node[d].epoch \in Nat
        BY <2>4, <1>0 DEF Node
      <4>6. Outranks(node[d].epoch, d, node[n].epoch, n)
        <5>1. Outranks(hb.epoch, hb.from, node[n].epoch, n)
          BY <4>2 DEF YieldsTo
        <5> DEFINE e == node[d].epoch
                   f == hb.epoch
                   g == node[n].epoch
                   p == hb.from
        <5>2. /\ e \in Nat /\ f \in Nat /\ g \in Nat /\ d \in Nodes /\ p \in Nodes
              /\ AtLeast(e, d, f, p) /\ Outranks(f, p, g, n)
          BY <4>3, <4>4, <4>5, <2>3, <5>1
        <5> HIDE DEF e, f, g, p, hb
        <5>3. Outranks(e, d, g, n)
          BY <5>2, RankOrder
        <5> QED BY <5>3 DEF e, g
      <4>7. d # n
        BY <4>6, <2>3, RankOrder
      <4> QED BY <4>6, <4>7, <2>5, <3>3 DEF AtLeast
    <3> QED BY <3>1, <3>2, <3>3
  <2>7. \A hb \in net' : hb \in Heartbeat
                         /\ (hb.role = "active" =>
                              \E h \in net : h.role = "active" /\ h.epoch = hb.epoch /\ h.from = hb.from)
    BY <2>1 DEF TypeOK
  <2> QED BY <2>1, <2>6, <2>7, <1>0, DriveKept
<1> QED BY <1>1, <1>2

\* Every step keeps a driver, and the rank of what is on the network.
LEMMA DriveStep == TypeOK /\ TypeOK' /\ DriveInv /\ [Next]_vars => DriveInv'
<1> SUFFICES ASSUME TypeOK, TypeOK', DriveInv, [Next]_vars PROVE DriveInv'
  OBVIOUS
<1>0. node \in [Nodes -> Node] /\ node' \in [Nodes -> Node]
  BY DEF TypeOK, Node
<1>s. ASSUME UNCHANGED <<up, crashes>>, \A m \in Nodes : node'[m].epoch = node[m].epoch
                                                         /\ node'[m].role = node[m].role,
             \A hb \in net' : hb.role = "active" =>
               \/ \E h \in net : h.role = "active" /\ h.epoch = hb.epoch /\ h.from = hb.from
               \/ Backed(hb)
      PROVE  DriveInv'
  <2>1. \A q \in Drivers : q \in Drivers' /\ AtLeast(node'[q].epoch, q, node[q].epoch, q)
    BY <1>s DEF Drivers, TypeOK, AtLeast
  <2>2. \A hb \in net' : hb \in Heartbeat
    BY DEF TypeOK
  <2> QED BY <1>s, <1>0, <2>1, <2>2, DriveKept
<1>1. ASSUME NEW n \in Nodes, Pump(n) PROVE DriveInv'
  BY <1>1, DrivePump
<1>2. ASSUME NEW n \in Nodes, Beat(n) PROVE DriveInv'
  <2>1. ASSUME NEW hb \in net', hb.role = "active", hb \notin net PROVE Backed(hb)
    <3>1. hb.role = node[n].role /\ hb.epoch = node[n].epoch /\ hb.from = n /\ n \in up
      BY <1>2, <2>1 DEF Beat
    <3> QED BY <3>1, <2>1 DEF Backed, Drivers, AtLeast
  <2>2. UNCHANGED <<up, crashes, node>>
    BY <1>2 DEF Beat
  <2> QED BY <2>1, <2>2, <1>s
<1>3. CASE Advance
  <2>1. \A m \in Nodes : node'[m].epoch = node[m].epoch /\ node'[m].role = node[m].role
    BY <1>3, <1>0 DEF Advance, Node
  <2>2. ASSUME NEW hb \in net'
        PROVE  \E h \in net : h.role = hb.role /\ h.epoch = hb.epoch /\ h.from = hb.from
    <3>1. PICK h \in net : hb = [h EXCEPT !.age = @ + 1]
      BY <1>3 DEF Advance
    <3>2. h \in Heartbeat
      BY DEF TypeOK
    <3> QED BY <3>1, <3>2 DEF Heartbeat
  <2>3. UNCHANGED <<up, crashes>>
    BY <1>3 DEF Advance
  <2> QED BY <2>1, <2>2, <2>3, <1>s
<1>4. CASE Heal
  BY <1>4, <1>s DEF Heal
<1>5. ASSUME NEW n \in Nodes, Crash(n) PROVE DriveInv'
  <2>1. crashes \in Nat /\ crashes' = crashes + 1
    BY <1>5, BoundAssumption DEF Crash, TypeOK
  <2> QED BY <2>1 DEF DriveInv
<1>6. ASSUME NEW n \in Nodes, Restart(n) PROVE DriveInv'
  <2>1. crashes # 0 /\ crashes' = crashes
    BY <1>6 DEF Restart, DriveInv
  <2> QED BY <2>1 DEF DriveInv
<1>7. CASE UNCHANGED vars
  BY <1>7, <1>s DEF vars
<1> QED BY <1>1, <1>2, <1>3, <1>4, <1>5, <1>6, <1>7 DEF Next

\* While nobody crashes output is driven, for any number of nodes, whatever
\* beats are lost, late, repeated or out of order (SomeoneDrives).
THEOREM ActivesNeverAllYield == Spec => []SomeoneDrives
<1>1. Init => DriveInv
  <2> SUFFICES ASSUME Init PROVE DriveInv
    OBVIOUS
  <2>1. Configured \in Drivers
    BY PrioAssumption DEF Init, Drivers, Fresh
  <2> QED BY <2>1 DEF Init, DriveInv
<1>2. DriveInv => SomeoneDrives
  BY DEF DriveInv, SomeoneDrives
<1> QED BY <1>1, <1>2, TypeInit, TypeStep, DriveStep, PTL DEF Spec

-----------------------------------------------------------------------------
(* One node drives *)

\* How long a standby has been waiting for a beat (tick).
Waiting(s) == IF s.watch = NoNode THEN clock ELSE s.seen

OnItsWay(m, a) ==
  \E hb \in net : /\ hb.to = m /\ hb.from = Configured
                  /\ hb.role = "active" /\ hb.age = a

\* Every beat of the configured node that a standby has not seen, and that is
\* younger than the one it saw last, is still on its way.
Served(m) ==
  /\ node[m].watch \in {NoNode, Configured}
  /\ \A a \in 1 .. Waiting(node[m]) - 1 : OnItsWay(m, a)
  /\ Configured \in beaten /\ Waiting(node[m]) # 0 => OnItsWay(m, 0)

CalmInv ==
  calm =>
    /\ healed /\ up = Nodes
    /\ \A m \in Nodes : node[m].role = "active" <=> m = Configured
    /\ \A hb \in net : (hb.role = "active" <=> hb.from = Configured) /\ hb.age <= clock
    /\ \A m \in Nodes \ {Configured} : Served(m)

\* On a timely network a standby never waits for a dead window.
LEMMA NeverDue ==
  ASSUME TypeOK, CalmInv, calm, NEW m \in Nodes \ {Configured}
  PROVE  /\ Waiting(node[m]) \in Nat /\ Waiting(node[m]) <= MaxDelay + 1
         /\ Waiting(node[m]) < DeadAfter
<1>1. Waiting(node[m]) \in Nat /\ MaxDelay \in Nat /\ DeadAfter \in Nat
  BY WindowAssumption DEF Waiting, TypeOK, Age
<1>2. Waiting(node[m]) <= MaxDelay + 1
  <2>1. CASE Waiting(node[m]) <= 1
    BY <1>1, <2>1
  <2>2. CASE Waiting(node[m]) > 1
    <3>1. Waiting(node[m]) - 1 \in 1 .. Waiting(node[m]) - 1
      BY <1>1, <2>2
    <3>2. OnItsWay(m, Waiting(node[m]) - 1)
      BY <3>1 DEF CalmInv, Served
    <3>3. Waiting(node[m]) - 1 <= MaxDelay
      BY <3>2 DEF OnItsWay, TypeOK
    <3> QED BY <1>1, <3>3
  <2> QED BY <1>1, <2>1, <2>2
<1> QED BY <1>1, <1>2, TimelyAssumption

\* What a standby is after the first i heartbeats of a batch: no less patient,
\* and it has seen them.
Patient(n, batch, i, t) ==
  /\ t \in Node /\ t.role = "standby" /\ t.watch \in {NoNode, Configured}
  /\ Waiting(t) <= Waiting(node[n])
  /\ \A l \in 1 .. i : batch[l].role = "active" => Waiting(t) <= batch[l].age

\* One heartbeat of the configured node shortens the wait (PeerHealth::record).
LEMMA ObservePatient ==
  ASSUME NEW n \in Nodes \ {Configured}, NEW s \in Node, NEW hb \in Heartbeat, clock \in Age,
         hb.age < DeadAfter, hb.age <= clock, hb.role = "active" => hb.from = Configured,
         s.role = "standby", s.watch \in {NoNode, Configured}
  PROVE  LET t == observe_heartbeat(n, s, hb)
         IN  /\ t \in Node /\ t.role = "standby" /\ t.watch \in {NoNode, Configured}
             /\ Waiting(t) <= Waiting(s)
             /\ hb.role = "active" => Waiting(t) <= hb.age
<1>1. /\ DeadAfter \in Nat /\ Age = 0 .. DeadAfter /\ clock \in Nat /\ s.seen \in Nat
      /\ hb.age \in Nat /\ Configured \in Nodes /\ Configured # NoNode
  BY WindowAssumption, PrioAssumption, NodesAssumption DEF Age, Node, Heartbeat, NoNode
<1>2. CASE hb.role # "active"
  <2>1. observe_heartbeat(n, s, hb) = s
    BY <1>2 DEF observe_heartbeat
  <2> QED BY <2>1, <1>1, <1>2 DEF Waiting
<1>3. CASE hb.role = "active"
  <2> DEFINE w == IF s.watch = hb.from /\ s.seen <= hb.age THEN s.seen
                  ELSE IF hb.age < DeadAfter THEN hb.age ELSE DeadAfter
             r == IF Outranks(hb.epoch, hb.from, s.epoch, n) THEN "standby" ELSE s.role
  <2>1. w \in Age /\ w <= hb.age /\ w <= Waiting(s)
    BY <1>1, <1>3 DEF Waiting
  <2>2. r = "standby"
    OBVIOUS
  <2>3. observe_heartbeat(n, s, hb) = [s EXCEPT !.watch = hb.from, !.seen = w, !.role = r]
    BY <1>3, <1>1 DEF observe_heartbeat
  <2> HIDE DEF w, r
  <2>4. observe_heartbeat(n, s, hb)
          = [role |-> r, epoch |-> s.epoch, watch |-> Configured, seen |-> w]
    BY <2>3, <1>3 DEF Node
  <2> DEFINE t == [role |-> r, epoch |-> s.epoch, watch |-> Configured, seen |-> w]
  <2>5. t \in Node /\ t.role = "standby" /\ t.watch = Configured /\ Waiting(t) = w
    BY <2>1, <2>2, <1>1 DEF Node, Waiting
  <2> HIDE DEF t
  <2> QED BY <2>1, <2>4, <2>5 DEF t
<1> QED BY <1>2, <1>3

\* A whole batch shortens the wait to the youngest beat in it.
LEMMA ObservedPatient ==
  ASSUME TypeOK, CalmInv, calm, NEW n \in Nodes \ {Configured},
         NEW k \in Nat, NEW batch \in [1 .. k -> Inflight(n)]
  PROVE  Patient(n, batch, k, Observed(n, batch))
<1>0. /\ Len(batch) = k
      /\ \A l \in 1 .. k : /\ batch[l] \in Heartbeat /\ batch[l].age < DeadAfter
                           /\ batch[l].age <= clock
                           /\ batch[l].role = "active" => batch[l].from = Configured
  <2>1. batch \in Seq(Inflight(n)) /\ DOMAIN batch = 1 .. k
    OBVIOUS
  <2>2. ASSUME NEW hb \in net
        PROVE  /\ hb \in Heartbeat /\ hb.age < DeadAfter /\ hb.age <= clock
               /\ hb.role = "active" => hb.from = Configured
    <3>1. hb.age \in Nat /\ hb.age <= MaxDelay
      BY DEF TypeOK, Heartbeat
    <3>2. hb.age < DeadAfter
      BY <3>1, WindowAssumption, TimelyAssumption
    <3> QED BY <3>2 DEF TypeOK, CalmInv
  <2> QED BY <2>1, <2>2 DEF Inflight
<1> DEFINE g == CHOOSE f : Passes(n, batch, k, f)
<1>1. Passes(n, batch, k, g)
  BY PassesExist
<1>2. Observed(n, batch) = g[k]
  BY <1>0 DEF Observed, Passes
<1> HIDE DEF g
<1>3. \A i \in 0 .. k :
        g[i] = IF i = 0 THEN node[n] ELSE observe_heartbeat(n, g[i - 1], batch[i])
  BY <1>1 DEF Passes
<1>4. node[n] \in Node /\ node[n].role = "standby" /\ clock \in Age
  BY DEF TypeOK, CalmInv, Node
<1> DEFINE Bad == {i \in 0 .. k : ~Patient(n, batch, i, g[i])}
<1>5. Bad = {}
  <2> SUFFICES ASSUME Bad # {} PROVE FALSE
    OBVIOUS
  <2>1. PICK i \in Bad : \A l \in Bad : i <= l
    <3>1. Bad \in SUBSET Nat
      OBVIOUS
    <3> HIDE DEF Bad
    <3> QED BY <3>1, LeastExists
  <2>2. CASE i = 0
    <3>1. g[0] = node[n]
      BY <1>3
    <3>2. Waiting(node[n]) <= Waiting(node[n]) /\ node[n].watch \in {NoNode, Configured}
      BY NeverDue DEF CalmInv, Served
    <3>3. Patient(n, batch, 0, g[0])
      BY <3>1, <3>2, <1>4 DEF Patient
    <3> QED BY <3>3, <2>1, <2>2
  <2>3. CASE i # 0
    <3>1. i - 1 \in 0 .. k /\ i \in 1 .. k /\ i - 1 \notin Bad
      BY <2>1, <2>3
    <3>2. Patient(n, batch, i - 1, g[i - 1])
      BY <3>1
    <3>3. g[i] = observe_heartbeat(n, g[i - 1], batch[i])
      BY <1>3, <2>1, <2>3
    <3> DEFINE s == g[i - 1]
               t == g[i]
               hb == batch[i]
    <3>4. /\ t \in Node /\ t.role = "standby" /\ t.watch \in {NoNode, Configured}
          /\ Waiting(t) <= Waiting(s)
          /\ hb.role = "active" => Waiting(t) <= hb.age
      <4>1. /\ s \in Node /\ s.role = "standby" /\ s.watch \in {NoNode, Configured}
            /\ hb \in Heartbeat /\ hb.age < DeadAfter /\ hb.age <= clock
            /\ hb.role = "active" => hb.from = Configured
            /\ t = observe_heartbeat(n, s, hb)
        BY <1>0, <3>1, <3>2, <3>3 DEF Patient
      <4> HIDE DEF s, t, hb
      <4> QED BY <4>1, <1>4, ObservePatient
    <3>5. /\ Waiting(t) \in Nat /\ Waiting(s) \in Nat /\ Waiting(node[n]) \in Nat
          /\ \A l \in 1 .. k : batch[l].age \in Nat
      BY <1>0, <1>4, <3>2, <3>4, WindowAssumption, SMTT(30)
         DEF Patient, Waiting, Node, Age, Heartbeat
    <3>6. Waiting(t) <= Waiting(node[n])
      BY <3>2, <3>4, <3>5 DEF Patient
    <3>7. ASSUME NEW l \in 1 .. i, batch[l].role = "active" PROVE Waiting(t) <= batch[l].age
      <4>1. CASE l = i
        BY <4>1, <3>4, <3>7
      <4>2. CASE l # i
        <5>1. l \in 1 .. i - 1 /\ l \in 1 .. k
          BY <4>2, <3>1
        <5>2. Waiting(s) <= batch[l].age
          BY <5>1, <3>2, <3>7 DEF Patient
        <5> QED BY <5>1, <5>2, <3>4, <3>5
      <4> QED BY <4>1, <4>2
    <3>8. Patient(n, batch, i, g[i])
      BY <3>4, <3>6, <3>7 DEF Patient
    <3> QED BY <3>8, <2>1
  <2> QED BY <2>2, <2>3
<1>6. k \in 0 .. k
  OBVIOUS
<1> QED BY <1>2, <1>5, <1>6

\* On a timely network a pump leaves every role as it is, and takes from the
\* network only what the node has seen (pump_heartbeats).
LEMMA CalmPump ==
  ASSUME TypeOK, TypeOK', CalmInv, calm, NEW n \in Nodes, Pump(n)
  PROVE  CalmInv'
<1>0. /\ node \in [Nodes -> Node] /\ node' \in [Nodes -> Node]
      /\ healed /\ up = Nodes /\ Configured \in Nodes
      /\ UNCHANGED <<up, clock, beaten, healed, calm>>
  BY PrioAssumption DEF TypeOK, Node, CalmInv, Pump
<1>1. PICK batch \in Batches(n) :
        /\ node' = [node EXCEPT ![n] = tick(Observed(n, batch))]
        /\ net' = net \ {batch[i] : i \in DOMAIN batch}
  BY <1>0 DEF Pump
<1>2. PICK k \in 0 .. MaxBatch : batch \in [1 .. k -> Inflight(n)]
  BY <1>1 DEF Batches
<1>3. k \in Nat /\ DOMAIN batch = 1 .. k /\ \A i \in 1 .. k : batch[i] \in net /\ batch[i].to = n
  BY <1>2, BoundAssumption DEF Inflight
<1> DEFINE t == Observed(n, batch)
<1>4. CASE n = Configured
  <2>1. Sane(n, batch, k, t)
    <3>1. Inflight(n) \subseteq Heartbeat
      BY DEF Inflight, TypeOK
    <3>2. batch \in [1 .. k -> Heartbeat]
      BY <1>2, <3>1
    <3> QED BY <1>0, <1>3, <3>2, ObservedFacts
  <2>2. node[n].role = "active"
    BY <1>0, <1>4 DEF CalmInv
  <2>3. \A l \in 1 .. k : ~YieldsTo(n, batch[l])
    BY <1>3, <1>4 DEF YieldsTo, CalmInv
  <2>4. t \in Node /\ t.role = "active"
    BY <2>1, <2>2, <2>3 DEF Sane, Node
  <2>5. node'[n] = t /\ \A m \in Nodes : m # n => node'[m] = node[m]
    BY <1>0, <1>1, <2>4, NodeFacts
  <2>6. \A m \in Nodes : node'[m].role = "active" <=> m = Configured
    BY <2>4, <2>5, <1>4 DEF CalmInv
  <2>7. ASSUME NEW m \in Nodes \ {Configured} PROVE Served(m)'
    <3>1. \A a : OnItsWay(m, a) => OnItsWay(m, a)'
      BY <1>1, <1>3, <1>4, <2>7 DEF OnItsWay
    <3>2. node'[m] = node[m]
      BY <2>5, <2>7, <1>4
    <3>3. Served(m)
      BY <2>7 DEF CalmInv
    <3> QED BY <1>0, <3>1, <3>2, <3>3 DEF Served, Waiting
  <2> QED BY <1>0, <1>1, <2>6, <2>7 DEF CalmInv
<1>5. CASE n # Configured
  <2>1. Patient(n, batch, k, t)
    BY <1>2, <1>3, <1>5, ObservedPatient
  <2>2. Waiting(node[n]) \in Nat /\ Waiting(node[n]) < DeadAfter /\ DeadAfter \in Nat
    BY <1>5, NeverDue, WindowAssumption
  <2>3. t \in Node /\ t.role = "standby" /\ Waiting(t) \in Nat
    BY <2>1, WindowAssumption DEF Patient, Waiting, TypeOK, Age, Node
  <2>4. ~Due(t)
    BY <2>1, <2>2, <2>3 DEF Patient, Due, Waiting
  <2>5. node'[n] = t /\ \A m \in Nodes : m # n => node'[m] = node[m]
    BY <1>0, <1>1, <2>4 DEF tick
  <2>6. \A m \in Nodes : node'[m].role = "active" <=> m = Configured
    BY <2>3, <2>5, <1>5 DEF CalmInv
  <2>7. ASSUME NEW m \in Nodes \ {Configured}, m # n PROVE Served(m)'
    <3>1. \A a : OnItsWay(m, a) => OnItsWay(m, a)'
      BY <1>1, <1>3, <2>7 DEF OnItsWay
    <3>2. node'[m] = node[m]
      BY <2>5, <2>7
    <3>3. Served(m)
      BY <2>7 DEF CalmInv
    <3> QED BY <1>0, <3>1, <3>2, <3>3 DEF Served, Waiting
  <2>8. Served(n)'
    <3>1. ASSUME NEW a, OnItsWay(n, a), a < Waiting(t) PROVE OnItsWay(n, a)'
      <4>1. PICK hb \in net : /\ hb.to = n /\ hb.from = Configured
                              /\ hb.role = "active" /\ hb.age = a
        BY <3>1 DEF OnItsWay
      <4>2. hb.age \in Nat
        BY DEF TypeOK, Heartbeat
      <4>3. \A l \in 1 .. k : batch[l] # hb
        <5> SUFFICES ASSUME NEW l \in 1 .. k, batch[l] = hb PROVE FALSE
          OBVIOUS
        <5>1. Waiting(t) <= a
          BY <2>1, <4>1 DEF Patient
        <5> QED BY <5>1, <3>1, <4>1, <4>2, <2>3
      <4>4. hb \in net'
        BY <1>1, <1>3, <4>3
      <4> QED BY <4>1, <4>4 DEF OnItsWay
    <3>2. Served(n) /\ Waiting(t) <= Waiting(node[n])
      BY <2>1, <1>5 DEF CalmInv, Patient
    <3>3. \A a \in 1 .. Waiting(t) - 1 : OnItsWay(n, a)'
      <4> SUFFICES ASSUME NEW a \in 1 .. Waiting(t) - 1 PROVE OnItsWay(n, a)'
        OBVIOUS
      <4>1. a \in 1 .. Waiting(node[n]) - 1 /\ a < Waiting(t)
        BY <2>2, <2>3, <3>2
      <4> QED BY <4>1, <3>1, <3>2 DEF Served
    <3>4. Configured \in beaten /\ Waiting(t) # 0 => OnItsWay(n, 0)'
      <4> SUFFICES ASSUME Configured \in beaten, Waiting(t) # 0 PROVE OnItsWay(n, 0)'
        OBVIOUS
      <4>1. 0 < Waiting(t) /\ Waiting(node[n]) # 0
        BY <2>2, <2>3, <3>2
      <4>2. OnItsWay(n, 0)
        BY <4>1, <3>2 DEF Served
      <4> QED BY <3>1, <4>1, <4>2
    <3>5. node'[n] = t /\ clock' = clock /\ beaten' = beaten /\ t.watch \in {NoNode, Configured}
      BY <2>1, <2>5, <1>0 DEF Patient
    <3> HIDE DEF t
    <3> QED BY <3>3, <3>4, <3>5 DEF Served, Waiting
  <2>9. \A m \in Nodes \ {Configured} : Served(m)'
    BY <2>7, <2>8
  <2> QED BY <1>0, <1>1, <2>6, <2>9 DEF CalmInv
<1> QED BY <1>4, <1>5

\* A beat is on its way to every standby (beat).
LEMMA CalmBeat ==
  ASSUME TypeOK, TypeOK', CalmInv, calm, NEW n \in Nodes, Beat(n)
  PROVE  CalmInv'
<1>0. /\ UNCHANGED <<node, up, clock, healed, calm>> /\ beaten' = beaten \cup {n}
      /\ net' = net \cup {[to |-> m, from |-> n, role |-> node[n].role,
                           epoch |-> node[n].epoch, age |-> 0] : m \in Nodes \ {n}}
      /\ clock \in Nat /\ Configured \in Nodes
  BY PrioAssumption, WindowAssumption DEF Beat, TypeOK, Age
<1>1. ASSUME NEW hb \in net' PROVE (hb.role = "active" <=> hb.from = Configured) /\ hb.age <= clock
  <2>1. CASE hb \in net
    BY <2>1 DEF CalmInv
  <2>2. CASE hb \notin net
    BY <2>2, <1>0 DEF CalmInv
  <2> QED BY <2>1, <2>2
<1>2. ASSUME NEW m \in Nodes \ {Configured} PROVE Served(m)'
  <2>1. Served(m)
    BY <1>2 DEF CalmInv
  <2>2. \A a : OnItsWay(m, a) => OnItsWay(m, a)'
    BY <1>0 DEF OnItsWay
  <2>3. CASE n = Configured
    <3> DEFINE hb == [to |-> m, from |-> n, role |-> node[n].role, epoch |-> node[n].epoch,
                      age |-> 0]
    <3>1. hb \in net'
      BY <1>0, <1>2, <2>3
    <3>2. hb.to = m /\ hb.from = Configured /\ hb.role = "active" /\ hb.age = 0
      BY <2>3, <1>0 DEF CalmInv
    <3>3. OnItsWay(m, 0)'
      BY <3>1, <3>2 DEF OnItsWay
    <3> QED BY <2>1, <2>2, <3>3, <1>0 DEF Served, Waiting
  <2>4. CASE n # Configured
    BY <2>1, <2>2, <2>4, <1>0 DEF Served, Waiting
  <2> QED BY <2>3, <2>4
<1> QED BY <1>0, <1>1, <1>2 DEF CalmInv

\* An interval passes: every beat ages with the wait for it.
LEMMA CalmAdvance ==
  ASSUME TypeOK, TypeOK', CalmInv, calm, Advance
  PROVE  CalmInv'
<1>0. /\ healed /\ up = Nodes /\ up \subseteq beaten /\ Configured \in Nodes
      /\ UNCHANGED <<up, healed, calm>> /\ beaten' = {}
      /\ clock' = Older(clock) /\ clock \in Nat /\ DeadAfter \in Nat /\ MaxDelay \in Nat
      /\ MaxDelay + 1 < DeadAfter
  BY PrioAssumption, WindowAssumption, TimelyAssumption DEF Advance, CalmInv, TypeOK, Age
<1>1. /\ \A hb \in net : hb \in Heartbeat /\ hb.age \in Nat /\ hb.age < MaxDelay
      /\ net' = {[hb EXCEPT !.age = @ + 1] : hb \in {h \in net : h.age < MaxDelay}}
  <2>1. \A hb \in net : hb \in Heartbeat /\ hb.age \in Nat /\ hb.to \in up
    BY <1>0 DEF TypeOK, Heartbeat
  <2> QED BY <2>1, <1>0 DEF Advance
<1>2. \A m \in Nodes : node'[m] = [node[m] EXCEPT !.seen = Older(@)] /\ node[m] \in Node
  BY DEF Advance, TypeOK, Node
<1>3. ASSUME NEW m \in Nodes
      PROVE  /\ node'[m].role = node[m].role /\ node'[m].watch = node[m].watch
             /\ node'[m].seen = Older(node[m].seen)
  BY <1>2 DEF Node
<1>4. ASSUME NEW hb \in net'
      PROVE  (hb.role = "active" <=> hb.from = Configured) /\ hb.age <= clock'
  <2>1. PICK h \in net : hb = [h EXCEPT !.age = @ + 1]
    BY <1>1
  <2>2. /\ h \in Heartbeat /\ h.age \in Nat /\ h.age < MaxDelay /\ h.age <= clock
        /\ h.role = "active" <=> h.from = Configured
    BY <1>1 DEF CalmInv
  <2>3. hb.role = h.role /\ hb.from = h.from /\ hb.age = h.age + 1
    BY <2>1, <2>2 DEF Heartbeat
  <2> QED BY <2>2, <2>3, <1>0 DEF Older
<1>5. ASSUME NEW m \in Nodes, NEW a \in Nat, OnItsWay(m, a) PROVE OnItsWay(m, a + 1)'
  <2>1. PICK h \in net : h.to = m /\ h.from = Configured /\ h.role = "active" /\ h.age = a
    BY <1>5 DEF OnItsWay
  <2> DEFINE hb == [h EXCEPT !.age = @ + 1]
  <2>2. hb \in net' /\ h \in Heartbeat
    BY <1>1, <2>1
  <2>3. hb.to = m /\ hb.from = Configured /\ hb.role = "active" /\ hb.age = a + 1
    BY <2>1, <2>2 DEF Heartbeat
  <2> QED BY <2>2, <2>3 DEF OnItsWay
<1>6. ASSUME NEW m \in Nodes \ {Configured} PROVE Served(m)'
  <2> DEFINE w == Waiting(node[m])
  <2>1. w \in Nat /\ w < DeadAfter /\ Served(m) /\ Configured \in beaten
    BY <1>0, <1>6, NeverDue DEF CalmInv
  <2>2. Waiting(node[m])' = w + 1
    BY <1>0, <1>3, <2>1 DEF Waiting, Older
  <2>3. ASSUME NEW a \in 1 .. w PROVE OnItsWay(m, a)'
    <3>1. a - 1 \in Nat /\ a - 1 + 1 = a
      OBVIOUS
    <3>2. OnItsWay(m, a - 1)
      <4>1. CASE a = 1
        BY <4>1, <2>1 DEF Served
      <4>2. CASE a # 1
        <5>1. a - 1 \in 1 .. w - 1
          BY <4>2, <2>1
        <5> QED BY <5>1, <2>1 DEF Served
      <4> QED BY <4>1, <4>2
    <3>3. OnItsWay(m, a - 1 + 1)'
      BY <3>1, <3>2, <1>5
    <3> QED BY <3>1, <3>3
  <2>4. \A a \in 1 .. Waiting(node[m])' - 1 : OnItsWay(m, a)'
    <3>1. Waiting(node[m])' - 1 = w
      BY <2>1, <2>2
    <3> HIDE DEF w
    <3> QED BY <2>3, <3>1
  <2>5. beaten' = {} /\ node'[m].watch \in {NoNode, Configured}
    BY <1>0, <1>3, <2>1 DEF Served
  <2> QED BY <2>4, <2>5 DEF Served
<1> QED BY <1>0, <1>3, <1>4, <1>6 DEF CalmInv

\* On a timely network without crashes every step keeps the configured node
\* driving and the others served.
LEMMA CalmStep == TypeOK /\ TypeOK' /\ CalmInv /\ [Next]_vars => CalmInv'
<1> SUFFICES ASSUME TypeOK, TypeOK', CalmInv, [Next]_vars PROVE CalmInv'
  OBVIOUS
<1>1. CASE ~calm
  <2>1. ~calm'
    BY <1>1 DEF Next, vars, Pump, Beat, Crash, Restart, Advance, Heal
  <2> QED BY <2>1 DEF CalmInv
<1>2. CASE calm
  <2>1. ASSUME NEW n \in Nodes, Pump(n) PROVE CalmInv'
    BY <1>2, <2>1, CalmPump
  <2>2. ASSUME NEW n \in Nodes, Beat(n) PROVE CalmInv'
    BY <1>2, <2>2, CalmBeat
  <2>3. ASSUME NEW n \in Nodes, Crash(n) PROVE CalmInv'
    BY <2>3 DEF Crash, CalmInv
  <2>4. ASSUME NEW n \in Nodes, Restart(n) PROVE CalmInv'
    BY <1>2, <2>4 DEF Restart, CalmInv
  <2>5. CASE Advance
    BY <1>2, <2>5, CalmAdvance
  <2>6. CASE Heal
    BY <1>2, <2>6 DEF Heal, CalmInv
  <2>7. CASE UNCHANGED vars
    BY <2>7 DEF vars, CalmInv, Served, OnItsWay, Waiting
  <2> QED BY <2>1, <2>2, <2>3, <2>4, <2>5, <2>6, <2>7 DEF Next
<1> QED BY <1>1, <1>2

\* On a network that delivers within the dead window, and while nobody
\* crashes, the configured node drives and no other, for any number of nodes
\* and any batches (OneDriver).
THEOREM ConfiguredDrivesAlone == Spec => []OneDriver
<1>1. Init => CalmInv
  <2> SUFFICES ASSUME Init PROVE CalmInv
    OBVIOUS
  <2>1. \A m \in Nodes : /\ node[m].role = "active" <=> m = Configured
                         /\ node[m].watch = NoNode
    BY DEF Init, Fresh
  <2>2. ASSUME NEW m \in Nodes \ {Configured} PROVE Served(m)
    <3>1. Waiting(node[m]) = 0
      BY <2>1 DEF Init, Waiting
    <3> QED BY <3>1, <2>1 DEF Served, Init
  <2> QED BY <2>1, <2>2 DEF Init, CalmInv
<1>2. CalmInv => OneDriver
  BY PrioAssumption DEF CalmInv, OneDriver, Drivers
<1> QED BY <1>1, <1>2, TypeInit, TypeStep, CalmStep, PTL DEF Spec

=============================================================================
