-------------------------- MODULE CommandPathProofs --------------------------
(***************************************************************************)
(* Proofs about CommandPath, for every set of requests, keys and clients   *)
(* and every capacity: one idempotency key runs one operation, a row of a  *)
(* discovery scan is never stamped with another scan, and a correlation is *)
(* consumed by one event.                                                  *)
(***************************************************************************)
EXTENDS CommandPath, Integers, SequenceTheorems, FiniteSetTheorems, WellFoundedInduction, TLAPS

-----------------------------------------------------------------------------
(* The keys *)

RequestState == [pc : Positions, key : IdemKeys \cup {None}, cmd : Commands, op : OpOrNone]

KeyTypes ==
  /\ req \in [Requests -> RequestState]
  /\ seen \in [IdemKeys -> OpOrNone]
  /\ gate \in OpOrNone /\ ran \subseteq Requests

\* Who may still run, or did, holds its key; a running scan has run; and a key
\* names what ran, or the undecided request that reserved it.
Owner(r) ==
  req[r].pc \in {"reserved", "rollback", "attached", "queued", "window"} \/ r \in ran

KeyInv ==
  /\ KeyTypes
  /\ \A r \in Requests :
       /\ Owner(r) /\ req[r].key # None => seen[req[r].key] = r
       /\ r \in ran => req[r].pc \in {"queued", "window", "accepted"}
       /\ req[r].pc = "attached" => req[r].op \in ran
  /\ gate # None => gate \in ran
  /\ \A k \in IdemKeys : seen[k] # None =>
       \/ seen[k] \in ran
       \/ InFlight(seen[k]) /\ req[seen[k]].key = k

\* A new request enters; the others stay (submit_accepted).
LEMMA ArrivesFacts ==
  ASSUME KeyTypes, NEW r \in Requests, NEW k \in IdemKeys \cup {None}, NEW cmd \in Commands,
         NEW pc \in Positions, NEW op \in OpOrNone, Arrives(r, k, cmd, pc, op)
  PROVE  /\ req' \in [Requests -> RequestState]
         /\ req'[r].pc = pc /\ req'[r].key = k /\ req'[r].cmd = cmd /\ req'[r].op = op
         /\ \A s \in Requests : s # r => req'[s] = req[s]
<1> DEFINE x == [pc |-> pc, key |-> k, cmd |-> cmd, op |-> op]
<1>1. x \in RequestState /\ x.pc = pc /\ x.key = k /\ x.cmd = cmd /\ x.op = op
  BY DEF RequestState
<1>2. req' = [req EXCEPT ![r] = x]
  BY DEF Arrives
<1> HIDE DEF x
<1> QED BY <1>1, <1>2 DEF KeyTypes

\* A request moves on with its key and command; the others stay.
Moved(r, pc, op) ==
  /\ req' \in [Requests -> RequestState]
  /\ req'[r].pc = pc /\ req'[r].key = req[r].key /\ req'[r].op = op
  /\ req'[r].cmd = req[r].cmd
  /\ \A s \in Requests : s # r => req'[s] = req[s]

\* A position alone changes.
LEMMA GotoFacts ==
  ASSUME KeyTypes, NEW r \in Requests, NEW pc \in Positions, Goto(r, pc)
  PROVE  Moved(r, pc, req[r].op)
<1>1. req[r] \in RequestState
  BY DEF KeyTypes
<1> DEFINE x == [req[r] EXCEPT !.pc = pc]
<1>2. /\ x \in RequestState /\ x.pc = pc /\ x.key = req[r].key /\ x.op = req[r].op
      /\ x.cmd = req[r].cmd
  BY <1>1 DEF RequestState
<1>3. req' = [req EXCEPT ![r] = x]
  BY DEF Goto
<1> HIDE DEF x
<1> QED BY <1>2, <1>3 DEF KeyTypes, Moved

\* Position and answer change.
LEMMA AnswerFacts ==
  ASSUME KeyTypes, NEW r \in Requests, NEW pc \in Positions, NEW op \in OpOrNone,
         req' = [req EXCEPT ![r].pc = pc, ![r].op = op]
  PROVE  Moved(r, pc, op)
<1>1. req[r] \in RequestState
  BY DEF KeyTypes
<1> DEFINE y == [req[r] EXCEPT !.pc = pc]
           x == [y EXCEPT !.op = op]
           f == [req EXCEPT ![r] = y]
<1>2. y \in RequestState /\ y.pc = pc /\ y.key = req[r].key /\ y.cmd = req[r].cmd
  BY <1>1 DEF RequestState
<1> HIDE DEF y
<1>3. /\ x \in RequestState /\ x.pc = pc /\ x.key = req[r].key /\ x.op = op
      /\ x.cmd = req[r].cmd
  BY <1>2 DEF RequestState
<1>4. f \in [Requests -> RequestState] /\ f[r] = y /\ \A s \in Requests : s # r => f[s] = req[s]
  BY <1>2 DEF KeyTypes
<1>5. req' = [f EXCEPT ![r] = [f[r] EXCEPT !.op = op]]
  BY DEF f, y
<1> HIDE DEF f, x
<1>6. req' = [f EXCEPT ![r] = x]
  BY <1>4, <1>5 DEF x
<1> QED BY <1>3, <1>4, <1>6 DEF Moved

\* A step of request r that changes no key and runs nothing new.
LEMMA KeyMoved ==
  ASSUME KeyInv, NEW r \in Requests, NEW pc \in Positions, NEW op, Moved(r, pc, op),
         UNCHANGED <<seen, gate, ran>>,
         pc \in {"reserved", "rollback", "attached", "queued", "window"} => Owner(r),
         r \in ran => pc \in {"queued", "window", "accepted"},
         pc = "attached" => op \in ran,
         InFlight(r) /\ pc \notin {"reserved", "rollback", "attached"} =>
           \A k \in IdemKeys : seen[k] # r
  PROVE  KeyInv'
<1>1. KeyTypes'
  BY DEF KeyInv, KeyTypes, Moved
<1>2. ASSUME NEW s \in Requests
      PROVE  /\ Owner(s)' /\ req'[s].key # None => seen'[req'[s].key] = s
             /\ s \in ran' => req'[s].pc \in {"queued", "window", "accepted"}
             /\ req'[s].pc = "attached" => req'[s].op \in ran'
  <2>1. CASE s = r
    BY <2>1 DEF KeyInv, Owner, Moved
  <2>2. CASE s # r
    BY <2>2 DEF KeyInv, Owner, Moved
  <2> QED BY <2>1, <2>2
<1>3. ASSUME NEW k \in IdemKeys, seen'[k] # None
      PROVE  seen'[k] \in ran' \/ (InFlight(seen[k]) /\ req[seen[k]].key = k)'
  <2>1. seen'[k] = seen[k] /\ seen[k] \in Requests
    BY <1>3 DEF KeyInv, KeyTypes, OpOrNone, Ops
  <2>2. CASE seen[k] = r
    BY <2>1, <2>2, <1>3 DEF KeyInv, InFlight, Moved
  <2>3. CASE seen[k] # r
    BY <2>1, <2>3, <1>3 DEF KeyInv, InFlight, Moved
  <2> QED BY <2>2, <2>3
<1>4. gate' # None => gate' \in ran'
  BY DEF KeyInv
<1> QED BY <1>1, <1>2, <1>3, <1>4 DEF KeyInv

\* A step of request r that was reserved and now runs (Submit, BeginScan).
LEMMA KeyRuns ==
  ASSUME KeyInv, NEW r \in Requests, NEW pc \in {"queued", "window"}, NEW op, Moved(r, pc, op),
         req[r].pc = "reserved", seen' = seen, gate' \in {gate, r}, ran' = ran \cup {r}
  PROVE  KeyInv'
<1>1. KeyTypes' /\ r \in ran'
  BY DEF KeyInv, KeyTypes, Moved, OpOrNone, Ops
<1>2. ASSUME NEW s \in Requests
      PROVE  /\ Owner(s)' /\ req'[s].key # None => seen'[req'[s].key] = s
             /\ s \in ran' => req'[s].pc \in {"queued", "window", "accepted"}
             /\ req'[s].pc = "attached" => req'[s].op \in ran'
  <2>1. CASE s = r
    BY <2>1 DEF KeyInv, Owner, Moved
  <2>2. CASE s # r
    BY <2>2 DEF KeyInv, Owner, Moved
  <2> QED BY <2>1, <2>2
<1>3. ASSUME NEW k \in IdemKeys, seen'[k] # None
      PROVE  seen'[k] \in ran' \/ (InFlight(seen[k]) /\ req[seen[k]].key = k)'
  <2>1. seen'[k] = seen[k] /\ seen[k] \in Requests
    BY <1>3 DEF KeyInv, KeyTypes, OpOrNone, Ops
  <2>2. CASE seen[k] = r
    BY <2>1, <2>2, <1>1
  <2>3. CASE seen[k] # r
    BY <2>1, <2>3, <1>3 DEF KeyInv, InFlight, Moved
  <2> QED BY <2>2, <2>3
<1>4. gate' # None => gate' \in ran'
  BY DEF KeyInv
<1> QED BY <1>1, <1>2, <1>3, <1>4 DEF KeyInv

\* A step of request r, which did not run, that gives its key back or hands it
\* to an operation that ran (Rollback, Rebind).
LEMMA KeyGiven ==
  ASSUME KeyInv, NEW r \in Requests, NEW pc \in {"rejected", "accepted"}, NEW op, Moved(r, pc, op),
         req[r].pc \in {"rollback", "attached"}, NEW to \in ran \cup {None},
         seen' = [k \in IdemKeys |-> IF k = req[r].key /\ seen[k] = r THEN to ELSE seen[k]],
         UNCHANGED <<gate, ran>>
  PROVE  KeyInv'
<1>0. r \notin ran /\ NoneAssumption
  BY NoneAssumption DEF KeyInv, NoneAssumption
<1>1. KeyTypes'
  BY DEF KeyInv, KeyTypes, Moved, OpOrNone, Ops
<1>2. ASSUME NEW s \in Requests
      PROVE  /\ Owner(s)' /\ req'[s].key # None => seen'[req'[s].key] = s
             /\ s \in ran' => req'[s].pc \in {"queued", "window", "accepted"}
             /\ req'[s].pc = "attached" => req'[s].op \in ran'
  <2>1. CASE s = r
    BY <2>1, <1>0 DEF KeyInv, Owner, Moved
  <2>2. CASE s # r
    <3>1. req'[s] = req[s]
      BY <2>2 DEF Moved
    <3>2. req[s].key # None => req[s].key \in IdemKeys
      BY DEF KeyInv, KeyTypes, RequestState
    <3> QED BY <2>2, <3>1, <3>2 DEF KeyInv, Owner
  <2> QED BY <2>1, <2>2
<1>3. ASSUME NEW k \in IdemKeys, seen'[k] # None
      PROVE  seen'[k] \in ran' \/ (InFlight(seen[k]) /\ req[seen[k]].key = k)'
  <2>1. CASE k = req[r].key /\ seen[k] = r
    BY <2>1, <1>3
  <2>2. CASE ~(k = req[r].key /\ seen[k] = r)
    <3>1. seen'[k] = seen[k] /\ seen[k] \in Requests
      BY <2>2, <1>3 DEF KeyInv, KeyTypes, OpOrNone, Ops
    <3>2. CASE seen[k] \in ran
      BY <3>1, <3>2
    <3>3. CASE seen[k] \notin ran
      <4>1. InFlight(seen[k]) /\ req[seen[k]].key = k
        BY <3>1, <3>3, <1>3 DEF KeyInv
      <4>2. seen[k] # r
        BY <4>1, <2>2
      <4> QED BY <3>1, <4>1, <4>2 DEF InFlight, Moved
    <3> QED BY <3>2, <3>3
  <2> QED BY <2>1, <2>2
<1>4. gate' # None => gate' \in ran'
  BY DEF KeyInv
<1> QED BY <1>1, <1>2, <1>3, <1>4 DEF KeyInv

\* A request arrives: it reserves a free key, or replays (reserve).
LEMMA KeyReserve ==
  ASSUME KeyInv, NEW r \in Requests, NEW k \in IdemKeys \cup {None}, NEW cmd \in Commands,
         Reserve(r, k, cmd)
  PROVE  KeyInv'
<1>0. /\ KeyTypes /\ req[r].pc = "new" /\ UNCHANGED <<gate, ran>> /\ r \notin ran
      /\ \A j \in IdemKeys : seen[j] # r
  BY NoneAssumption DEF KeyInv, Reserve, InFlight
<1>1. CASE k = None \/ seen[k] = None
  <2>1. /\ Arrives(r, k, cmd, "reserved", None)
        /\ seen' = IF k = None THEN seen ELSE [seen EXCEPT ![k] = r]
    BY <1>1 DEF Reserve
  <2>2. /\ req' \in [Requests -> RequestState]
        /\ req'[r].pc = "reserved" /\ req'[r].key = k
        /\ \A s \in Requests : s # r => req'[s] = req[s]
    BY <1>0, <2>1, ArrivesFacts DEF Positions, OpOrNone
  <2>3. KeyTypes' /\ (k # None => seen'[k] = r)
        /\ \A j \in IdemKeys : j # k => seen'[j] = seen[j]
    BY <1>0, <2>1, <2>2 DEF KeyTypes, OpOrNone, Ops
  <2>4. ASSUME NEW s \in Requests
        PROVE  /\ Owner(s)' /\ req'[s].key # None => seen'[req'[s].key] = s
               /\ s \in ran' => req'[s].pc \in {"queued", "window", "accepted"}
               /\ req'[s].pc = "attached" => req'[s].op \in ran'
    <3>1. CASE s = r
      BY <3>1, <1>0, <2>2, <2>3
    <3>2. CASE s # r
      <4>1. req'[s] = req[s] /\ (req[s].key # None => req[s].key \in IdemKeys)
        BY <3>2, <1>0, <2>2 DEF KeyTypes, RequestState
      <4>2. Owner(s) /\ req[s].key # None => req[s].key # k
        BY <3>2, <1>1, <4>1, NoneAssumption DEF KeyInv
      <4> QED BY <1>0, <2>3, <4>1, <4>2 DEF KeyInv, Owner
    <3> QED BY <3>1, <3>2
  <2>5. ASSUME NEW j \in IdemKeys, seen'[j] # None
        PROVE  seen'[j] \in ran' \/ (InFlight(seen[j]) /\ req[seen[j]].key = j)'
    <3>1. CASE j = k
      BY <3>1, <2>2, <2>3, NoneAssumption DEF InFlight
    <3>2. CASE j # k
      <4>1. seen'[j] = seen[j] /\ seen[j] \in Requests /\ seen[j] # r
        BY <3>2, <1>0, <2>3, <2>5 DEF KeyTypes, OpOrNone, Ops
      <4> QED BY <4>1, <1>0, <2>2, <2>5 DEF KeyInv, InFlight
    <3> QED BY <3>1, <3>2
  <2> QED BY <1>0, <2>3, <2>4, <2>5 DEF KeyInv
<1>2. CASE ~(k = None \/ seen[k] = None)
  <2>1. Arrives(r, k, cmd, "accepted", seen[k]) /\ seen' = seen
    BY <1>2 DEF Reserve
  <2>2. seen[k] \in OpOrNone
    BY <1>0, <1>2 DEF KeyTypes
  <2>3. /\ req' \in [Requests -> RequestState]
        /\ req'[r].pc = "accepted" /\ req'[r].key = k
        /\ \A s \in Requests : s # r => req'[s] = req[s]
    BY <1>0, <2>1, <2>2, ArrivesFacts DEF Positions
  <2>4. KeyTypes'
    BY <1>0, <2>1, <2>3 DEF KeyTypes
  <2>5. ASSUME NEW s \in Requests
        PROVE  /\ Owner(s)' /\ req'[s].key # None => seen'[req'[s].key] = s
               /\ s \in ran' => req'[s].pc \in {"queued", "window", "accepted"}
               /\ req'[s].pc = "attached" => req'[s].op \in ran'
    <3>1. CASE s = r
      BY <3>1, <1>0, <2>3 DEF Owner
    <3>2. CASE s # r
      BY <3>2, <1>0, <2>1, <2>3 DEF KeyInv, Owner
    <3> QED BY <3>1, <3>2
  <2>6. ASSUME NEW j \in IdemKeys, seen'[j] # None
        PROVE  seen'[j] \in ran' \/ (InFlight(seen[j]) /\ req[seen[j]].key = j)'
    <3>1. seen'[j] = seen[j] /\ seen[j] \in Requests /\ seen[j] # r
      BY <1>0, <2>1, <2>6 DEF KeyTypes, OpOrNone, Ops
    <3> QED BY <3>1, <1>0, <2>3, <2>6 DEF KeyInv, InFlight
  <2> QED BY <1>0, <2>4, <2>5, <2>6 DEF KeyInv
<1> QED BY <1>1, <1>2

\* A step that leaves the requests and their keys alone.
LEMMA KeyKept ==
  ASSUME KeyInv, UNCHANGED <<req, seen, ran>>, gate' \in {gate, None}
  PROVE  KeyInv'
<1>1. KeyTypes'
  BY DEF KeyInv, KeyTypes, OpOrNone
<1> QED BY <1>1 DEF KeyInv, Owner, InFlight

LEMMA KeyInit == Init => KeyInv
BY NoneAssumption
   DEF Init, KeyInv, KeyTypes, RequestState, NoRequest, Positions, Commands, Keyed, Scan,
       OpOrNone, Ops, Owner

\* Every step keeps the invariant of the keys, request by request.
LEMMA KeyStep == KeyInv /\ [Next]_vars => KeyInv'
<1> SUFFICES ASSUME KeyInv, [Next]_vars PROVE KeyInv'
  OBVIOUS
<1> USE DEF Positions
<1>0. /\ KeyTypes
      /\ \A r \in Requests : r \in OpOrNone /\ req[r].op \in OpOrNone
      /\ \A k \in IdemKeys, r \in Requests : seen[k] = r => r \in ran \/ InFlight(r)
  BY NoneAssumption DEF KeyInv, KeyTypes, RequestState, OpOrNone, Ops
<1>1. CASE UNCHANGED vars
  BY <1>1, KeyKept DEF vars, requestVars
<1>2. CASE \E r \in Requests, k \in IdemKeys \cup {None}, cmd \in Commands : Reserve(r, k, cmd)
  BY <1>2, KeyReserve
<1>3. ASSUME NEW r \in Requests, BuildRefused(r) PROVE KeyInv'
  <2>1. Moved(r, "rollback", req[r].op)
    BY <1>0, <1>3, GotoFacts DEF BuildRefused
  <2>2. UNCHANGED <<seen, gate, ran>> /\ req[r].pc = "reserved" /\ r \notin ran
    BY <1>3 DEF BuildRefused, KeyInv
  <2> QED BY <2>1, <2>2, KeyMoved DEF Owner
<1>4. ASSUME NEW r \in Requests, Submit(r) PROVE KeyInv'
  <2>1. req[r].pc = "reserved" /\ UNCHANGED <<seen, gate>> /\ r \notin ran
    BY <1>4 DEF Submit, KeyInv
  <2>2. CASE Len(bus) < BusCapacity
    <3>1. Goto(r, "queued") /\ ran' = ran \cup {r}
      BY <1>4, <2>2 DEF Submit
    <3>2. Moved(r, "queued", req[r].op)
      BY <1>0, <3>1, GotoFacts
    <3> QED BY <2>1, <3>1, <3>2, KeyRuns
  <2>3. CASE ~(Len(bus) < BusCapacity)
    <3>1. Goto(r, "rollback") /\ ran' = ran
      BY <1>4, <2>3 DEF Submit
    <3>2. Moved(r, "rollback", req[r].op)
      BY <1>0, <3>1, GotoFacts
    <3> QED BY <2>1, <3>1, <3>2, KeyMoved DEF Owner
  <2> QED BY <2>2, <2>3
<1>5. ASSUME NEW r \in Requests, Rollback(r) PROVE KeyInv'
  <2>1. Moved(r, "rejected", req[r].op)
    BY <1>0, <1>5, GotoFacts DEF Rollback, Rejected
  <2>2. /\ req[r].pc = "rollback" /\ UNCHANGED <<gate, ran>>
        /\ seen' = [k \in IdemKeys |-> IF k = req[r].key /\ seen[k] = r THEN None ELSE seen[k]]
    BY <1>5 DEF Rollback, Rejected
  <2> QED BY <2>1, <2>2, KeyGiven
<1>6. ASSUME NEW r \in Requests, RecordCorr(r) PROVE KeyInv'
  <2>1. Moved(r, "accepted", r)
    BY <1>0, <1>6, AnswerFacts DEF RecordCorr, Answer
  <2>2. UNCHANGED <<seen, gate, ran>> /\ req[r].pc = "queued"
    BY <1>6 DEF RecordCorr
  <2> QED BY <2>1, <2>2, KeyMoved DEF InFlight
<1>7. ASSUME NEW r \in Requests, BeginScan(r) PROVE KeyInv'
  <2>1. req[r].pc = "reserved" /\ seen' = seen /\ r \notin ran
    BY <1>7 DEF BeginScan, KeyInv
  <2>2. CASE gate = None
    <3>1. Goto(r, "window") /\ gate' = r /\ ran' = ran \cup {r}
      BY <1>7, <2>2 DEF BeginScan
    <3>2. Moved(r, "window", req[r].op)
      BY <1>0, <3>1, GotoFacts
    <3> QED BY <2>1, <3>1, <3>2, KeyRuns
  <2>3. CASE gate # None
    <3>1. req' = [req EXCEPT ![r].pc = "attached", ![r].op = gate] /\ UNCHANGED <<gate, ran>>
      BY <1>7, <2>3 DEF BeginScan
    <3>2. gate \in OpOrNone /\ gate \in ran
      BY <2>3 DEF KeyInv, KeyTypes
    <3>3. Moved(r, "attached", gate)
      BY <1>0, <3>1, <3>2, AnswerFacts
    <3> QED BY <2>1, <3>1, <3>2, <3>3, KeyMoved DEF Owner
  <2> QED BY <2>2, <2>3
<1>8. ASSUME NEW r \in Requests, Rebind(r) PROVE KeyInv'
  <2>1. Moved(r, "accepted", req[r].op)
    BY <1>0, <1>8, GotoFacts DEF Rebind, Attached
  <2>2. /\ req[r].pc = "attached" /\ UNCHANGED <<gate, ran>>
        /\ seen' = [k \in IdemKeys |->
                      IF k = req[r].key /\ seen[k] = r THEN req[r].op ELSE seen[k]]
    BY <1>8 DEF Rebind, Attached
  <2>3. req[r].op \in ran
    BY <2>2 DEF KeyInv
  <2> QED BY <2>1, <2>2, <2>3, KeyGiven
<1>9. ASSUME NEW r \in Requests, OpenWindow(r) PROVE KeyInv'
  <2>1. Moved(r, "accepted", r)
    BY <1>0, <1>9, AnswerFacts DEF OpenWindow, Answer
  <2>2. UNCHANGED <<seen, gate, ran>> /\ req[r].pc = "window"
    BY <1>9 DEF OpenWindow
  <2> QED BY <2>1, <2>2, KeyMoved DEF InFlight
<1>10. CASE PublishRow \/ EndScan
  BY <1>10, KeyKept DEF PublishRow, EndScan
<1>11. CASE Drain \/ Apply
  BY <1>11, KeyKept DEF Drain, Apply, requestVars
<1>12. ASSUME NEW c \in Clients, Connect(c) \/ Skip(c) \/ Project(c) PROVE KeyInv'
  BY <1>12, KeyKept DEF Connect, Skip, Project, Advance, requestVars
<1> QED BY <1>1, <1>2, <1>3, <1>4, <1>5, <1>6, <1>7, <1>8, <1>9, <1>10, <1>11, <1>12 DEF Next

LEMMA KeyImplies == KeyInv => KeysRunOnce
<1> SUFFICES ASSUME KeyInv PROVE KeysRunOnce
  OBVIOUS
<1>1. RunsOncePerKey
  BY DEF RunsOncePerKey, KeyInv, KeyTypes, Owner
<1>2. RecordedKeyRan
  BY DEF RecordedKeyRan, KeyInv
<1> QED BY <1>1, <1>2 DEF KeysRunOnce

\* Requests with one idempotency key run one operation between them, and a
\* recorded key names an operation that ran or is being decided (reserve,
\* release and rebind).
THEOREM OneRunPerKey == Spec => []KeysRunOnce
<1>1. Init => KeyInv
  BY KeyInit
<1>2. KeyInv /\ [Next]_vars => KeyInv'
  BY KeyStep
<1>3. KeyInv => KeysRunOnce
  BY KeyImplies
<1> QED BY <1>1, <1>2, <1>3, PTL DEF Spec
-----------------------------------------------------------------------------
(* The discovery window *)

Event == [key : Keyed, cause : Ops]
QueueTypes == bus \in Seq(Ops) /\ batch \in Seq(Ops) /\ events \in Seq(Event)

\* The slot is held from the start of a scan to its end, and the window is open
\* for the scan in the slot by the time it can publish.
GateInv ==
  /\ gate # None => /\ req[gate].pc \in {"window", "accepted"}
                    /\ req[gate].pc = "accepted" => corr.window.op = gate
  /\ \A r \in Requests : req[r].pc = "window" => gate = r

\* An operation a Scan event may be stamped with.
Names(i, op) == events[i].key = Scan => op = events[i].cause

Registry(reg) ==
  /\ reg = [pending |-> reg.pending, order |-> reg.order,
            window |-> reg.window, resolved |-> reg.resolved]
  /\ reg.window.from \in Nat
  /\ reg.window.op # None =>
       \A i \in 1 .. Len(events) : i > reg.window.from => Names(i, reg.window.op)
  /\ \E S : /\ reg.resolved \in Seq(S)
            /\ \A m \in S : m.seq \in 1 .. Len(events) /\ Names(m.seq, m.op)

StampInv ==
  /\ stamps = [c \in Clients |-> stamps[c]]
  /\ \A c \in Clients : \A i \in DOMAIN stamps[c] :
       /\ i \in 1 .. Len(events)
       /\ stamps[c][i] # None => Names(i, stamps[c][i])

\* Recording and evicting pending operations keeps the window and the memo.
LEMMA RecordedKeeps ==
  ASSUME Registry(corr), NEW k, NEW op
  PROVE  Registry(Recorded(corr, k, op)) /\ Recorded(corr, k, op).window = corr.window
<1> DEFINE Reg(p, o) == [pending |-> p, order |-> o,
                         window |-> corr.window, resolved |-> corr.resolved]
           Same(reg) == \E p, o : reg = Reg(p, o)
           full == [corr EXCEPT !.pending[k] = Append(@, op), !.order = Append(@, k)]
<1>1. corr = Reg(corr.pending, corr.order)
  BY DEF Registry
<1>2. \A p, o, x, y : [Reg(p, o) EXCEPT !.pending = x, !.order = y] = Reg(x, y)
  <2> TAKE p, o, x, y
  <2> DEFINE one == Reg(p, o)
             two == [one EXCEPT !.pending = x]
  <2>1. two = Reg(x, o)
    OBVIOUS
  <2> HIDE DEF two
  <2>2. [two EXCEPT !.order = y] = Reg(x, y)
    BY <2>1
  <2>3. [one EXCEPT !.pending = x, !.order = y] = [two EXCEPT !.order = y]
    BY DEF two
  <2> QED BY <2>2, <2>3
<1>3. Same(full)
  <2> DEFINE pend == [corr.pending EXCEPT ![k] = Append(@, op)]
             ord == Append(corr.order, k)
  <2>1. full = [corr EXCEPT !.pending = pend, !.order = ord]
    BY <1>1
  <2> HIDE DEF pend, ord, full
  <2> QED BY <2>1, <1>1, <1>2
<1> HIDE DEF full
<1>4. Same(DropOldest(full))
  <2>1. PICK p, o : full = Reg(p, o)
    BY <1>3
  <2> DEFINE h == Head(full.order)
             pend == [p EXCEPT ![h] = Tail(@)]
             ord == Tail(full.order)
  <2>2. DropOldest(full) = [full EXCEPT !.order = ord, !.pending[h] = Tail(@)]
    BY DEF DropOldest
  <2> HIDE DEF h, ord
  <2>3. DropOldest(full) = [Reg(p, o) EXCEPT !.pending = pend, !.order = ord]
    BY <2>1, <2>2
  <2> HIDE DEF pend
  <2> QED BY <2>3, <1>2
<1>5. Same(Recorded(corr, k, op))
  BY <1>3, <1>4 DEF Recorded, full
<1> HIDE DEF Same
<1>6. ASSUME NEW reg, Same(reg) PROVE Registry(reg) /\ reg.window = corr.window
  BY <1>6 DEF Same, Registry
<1> QED BY <1>5, <1>6

\* What resolve answers for a row of a scan names the scan, and the memo it
\* leaves does too.
LEMMA ResolvedKeeps ==
  ASSUME QueueTypes, Registry(corr), NEW i \in 1 .. Len(events)
  PROVE  LET op == ResolvedOp(corr, events[i].key, i)
             reg == Resolved(corr, events[i].key, i)
         IN  /\ op # None => Names(i, op)
             /\ Registry(reg) /\ reg.window = corr.window
<1> DEFINE k == events[i].key
           op == ResolvedOp(corr, k, i)
           reg == Resolved(corr, k, i)
           one == [seq |-> i, op |-> op]
<1>1. PICK S : /\ corr.resolved \in Seq(S)
               /\ \A m \in S : m.seq \in 1 .. Len(events) /\ Names(m.seq, m.op)
  BY DEF Registry
<1>2. \A m \in Memo(corr, i) : m \in S /\ m.seq = i
  BY <1>1 DEF Memo, Range
<1>3. op # None => Names(i, op)
  <2>1. CASE Memo(corr, i) # {}
    <3>1. op = (CHOOSE m \in Memo(corr, i) : TRUE).op
      BY <2>1 DEF ResolvedOp
    <3>2. (CHOOSE m \in Memo(corr, i) : TRUE) \in Memo(corr, i)
      BY <2>1
    <3> QED BY <3>1, <3>2, <1>1, <1>2
  <2>2. CASE Memo(corr, i) = {} /\ k = Scan
    BY <2>2 DEF ResolvedOp, InWindow, Registry
  <2>3. CASE k # Scan
    BY <2>3 DEF Names
  <2> QED BY <2>1, <2>2, <2>3
<1> HIDE DEF op
<1>4. Registry(reg) /\ reg.window = corr.window
  <2>1. CASE reg = corr
    BY <2>1
  <2>2. ASSUME NEW r0, op # None, r0 = [pending |-> r0.pending, order |-> r0.order,
                                        window |-> corr.window, resolved |-> corr.resolved],
               reg = Memoized(r0, i, op)
        PROVE  Registry(reg) /\ reg.window = corr.window
    <3> DEFINE all == Append(corr.resolved, one)
               T == S \cup {one}
               res == IF Len(all) > CorrCapacity THEN Tail(all) ELSE all
    <3>1. all \in Seq(T) /\ all # <<>>
      <4>1. corr.resolved \in Seq(T) /\ one \in T
        BY <1>1
      <4> HIDE DEF T, one
      <4> QED BY <4>1
    <3>2. res \in Seq(T)
      BY <3>1
    <3>3. \A m \in T : m.seq \in 1 .. Len(events) /\ Names(m.seq, m.op)
      BY <1>1, <1>3, <2>2
    <3>4. reg = [pending |-> r0.pending, order |-> r0.order,
                 window |-> corr.window, resolved |-> res]
      <4>1. r0.resolved = corr.resolved
        BY <2>2
      <4>2. reg = [r0 EXCEPT !.resolved = res]
        BY <2>2, <4>1 DEF Memoized
      <4> HIDE DEF res, reg
      <4> QED BY <2>2, <4>2
    <3> HIDE DEF res, T
    <3> QED BY <3>2, <3>3, <3>4 DEF Registry
  <2>3. CASE reg # corr
    <3>1. op # None /\ (reg = Memoized(corr, i, op) \/ reg = Memoized(Popped(corr, k), i, op))
      BY <2>3 DEF Resolved, op
    <3>2. corr = [pending |-> corr.pending, order |-> corr.order,
                  window |-> corr.window, resolved |-> corr.resolved]
      BY DEF Registry
    <3> DEFINE r0 == Popped(corr, k)
    <3>3. r0 = [pending |-> r0.pending, order |-> r0.order,
                window |-> corr.window, resolved |-> corr.resolved]
      <4> DEFINE pend == [corr.pending EXCEPT ![k] = Tail(@)]
      <4>1. r0 = [corr EXCEPT !.pending = pend, !.order = RemoveFirst(corr.order, k)]
        BY <3>2 DEF Popped
      <4> HIDE DEF pend, r0
      <4> QED BY <3>2, <4>1
    <3> HIDE DEF r0, reg
    <3> QED BY <3>1, <3>2, <3>3, <2>2 DEF r0
  <2> QED BY <2>1, <2>3
<1> QED BY <1>3, <1>4 DEF op

LEMMA RegistryKept ==
  ASSUME NEW reg, Registry(reg), corr' = reg, events' = events
  PROVE  Registry(corr)'
BY DEF Registry, Names

LEMMA StampsKept ==
  ASSUME StampInv, UNCHANGED <<events, stamps>>
  PROVE  StampInv'
BY DEF StampInv, Names

\* An event of the open scan, or of a keyed command, is published.
LEMMA Published ==
  ASSUME QueueTypes, Registry(corr), StampInv, NEW e \in Event,
         events' = Append(events, e), UNCHANGED <<corr, stamps>>,
         e.key = Scan /\ corr.window.op # None => e.cause = corr.window.op
  PROVE  events' \in Seq(Event) /\ Registry(corr)' /\ StampInv'
<1>1. /\ events' \in Seq(Event) /\ Len(events') = Len(events) + 1 /\ Len(events) \in Nat
      /\ \A i \in 1 .. Len(events) : events'[i] = events[i]
      /\ events'[Len(events) + 1] = e
  BY DEF QueueTypes
<1>2. \A i \in 1 .. Len(events) : i \in 1 .. Len(events') /\ \A op : Names(i, op) => Names(i, op)'
  BY <1>1 DEF Names
<1>3. Registry(corr)'
  <2>1. PICK S : /\ corr.resolved \in Seq(S)
                 /\ \A m \in S : m.seq \in 1 .. Len(events) /\ Names(m.seq, m.op)
    BY DEF Registry
  <2>2. \A m \in S : m.seq \in 1 .. Len(events') /\ Names(m.seq, m.op)'
    BY <2>1, <1>2
  <2>3. ASSUME corr.window.op # None, NEW i \in 1 .. Len(events'), i > corr.window.from
        PROVE  Names(i, corr.window.op)'
    <3>1. CASE i \in 1 .. Len(events)
      BY <3>1, <2>3, <1>2 DEF Registry
    <3>2. CASE i = Len(events) + 1
      BY <3>2, <2>3, <1>1 DEF Names
    <3> QED BY <3>1, <3>2, <1>1
  <2> QED BY <2>1, <2>2, <2>3 DEF Registry
<1>4. StampInv'
  BY <1>2 DEF StampInv
<1> QED BY <1>1, <1>3, <1>4

\* A request that is not the scan in the slot moves.
LEMMA GateMoved ==
  ASSUME GateInv, KeyTypes, NEW r \in Requests, req[r].pc \notin {"window", "accepted"},
         req'[r].pc # "window", \A s \in Requests : s # r => req'[s] = req[s],
         gate' = gate, corr'.window = corr.window
  PROVE  GateInv'
BY DEF GateInv, KeyTypes, OpOrNone, Ops

ScanParts == QueueTypes /\ GateInv /\ Registry(corr) /\ StampInv

LEMMA ScanInit == Init => ScanParts
<1> SUFFICES ASSUME Init PROVE ScanParts
  OBVIOUS
<1>1. QueueTypes
  BY DEF Init, QueueTypes
<1>2. GateInv
  BY DEF Init, GateInv, NoRequest
<1>3. Registry(corr)
  <2> DEFINE pend == [k \in CorrKeys |-> <<>>]
             win == [op |-> None, from |-> 0]
  <2>1. corr = [pending |-> pend, order |-> <<>>, window |-> win, resolved |-> <<>>]
    BY DEF Init, EmptyRegistry
  <2>2. win.op = None /\ win.from = 0 /\ <<>> \in Seq({})
    OBVIOUS
  <2> HIDE DEF pend, win
  <2>3. corr.window = win /\ corr.resolved = <<>>
    BY <2>1
  <2>4. /\ corr = [pending |-> corr.pending, order |-> corr.order,
                   window |-> corr.window, resolved |-> corr.resolved]
        /\ corr.window.from \in Nat /\ corr.window.op = None
    BY <2>1, <2>2
  <2>5. \E S : /\ corr.resolved \in Seq(S)
               /\ \A m \in S : m.seq \in 1 .. Len(events) /\ Names(m.seq, m.op)
    <3>1. \A m \in {} : m.seq \in 1 .. Len(events) /\ Names(m.seq, m.op)
      OBVIOUS
    <3> QED BY <2>2, <2>3, <3>1
  <2> QED BY <2>4, <2>5 DEF Registry
<1>4. StampInv
  BY DEF Init, StampInv
<1> QED BY <1>1, <1>2, <1>3, <1>4 DEF ScanParts

\* Steps of a request keep the discovery window and the slot in agreement.
LEMMA ScanRequestStep ==
  ASSUME KeyInv, ScanParts, NEW r \in Requests, UNCHANGED <<batch, events, stamps>>,
         \/ \E k \in IdemKeys \cup {None}, cmd \in Commands : Reserve(r, k, cmd)
         \/ BuildRefused(r) \/ Submit(r) \/ Rollback(r) \/ RecordCorr(r)
         \/ BeginScan(r) \/ Rebind(r) \/ OpenWindow(r)
  PROVE  ScanParts'
<1> USE DEF Positions
<1>0. /\ KeyTypes /\ QueueTypes /\ GateInv /\ Registry(corr) /\ StampInv'
      /\ r \in OpOrNone /\ req[r].op \in OpOrNone /\ gate \in OpOrNone
      /\ \A k \in IdemKeys : seen[k] \in OpOrNone
  BY StampsKept DEF KeyInv, KeyTypes, RequestState, ScanParts, OpOrNone, Ops
<1>1. CASE \E k \in IdemKeys \cup {None}, cmd \in Commands : Reserve(r, k, cmd)
  <2>1. PICK k \in IdemKeys \cup {None}, cmd \in Commands : Reserve(r, k, cmd)
    BY <1>1
  <2>2. /\ req[r].pc = "new" /\ UNCHANGED <<gate, corr, bus>>
        /\ \/ Arrives(r, k, cmd, "reserved", None)
           \/ seen[k] \in OpOrNone /\ Arrives(r, k, cmd, "accepted", seen[k])
    BY <2>1, <1>0 DEF Reserve
  <2>3. req'[r].pc # "window" /\ \A s \in Requests : s # r => req'[s] = req[s]
    BY <2>2, <1>0, ArrivesFacts, SMTT(30) DEF OpOrNone
  <2>4. GateInv'
    BY <2>2, <2>3, <1>0, GateMoved
  <2> QED BY <2>2, <2>4, <1>0, RegistryKept DEF ScanParts, QueueTypes
<1>2. CASE BuildRefused(r) \/ Submit(r) \/ Rollback(r) \/ Rebind(r)
  <2>1. /\ req[r].pc \in {"reserved", "rollback", "attached"} /\ UNCHANGED <<gate, corr>>
        /\ \E pc \in {"rollback", "queued", "rejected", "accepted"} : Goto(r, pc)
        /\ bus' = bus \/ bus' = Append(bus, r)
    BY <1>2 DEF BuildRefused, Submit, Rollback, Rejected, Rebind, Attached
  <2>2. req'[r].pc # "window" /\ \A s \in Requests : s # r => req'[s] = req[s]
    BY <2>1, <1>0, GotoFacts DEF Moved
  <2>3. GateInv'
    BY <2>1, <2>2, <1>0, GateMoved
  <2> QED BY <2>1, <2>3, <1>0, RegistryKept, SMTT(30) DEF ScanParts, QueueTypes, Ops
<1>3. CASE RecordCorr(r)
  <2>1. /\ req[r].pc = "queued" /\ UNCHANGED <<gate, bus>> /\ Answer(r, r)
        /\ corr' = corr \/ corr' = Recorded(corr, req[r].cmd, r)
    BY <1>3 DEF RecordCorr
  <2>2. req'[r].pc # "window" /\ \A s \in Requests : s # r => req'[s] = req[s]
    BY <2>1, <1>0, AnswerFacts DEF Moved, Answer
  <2>3. Registry(corr)' /\ corr'.window = corr.window
    BY <2>1, <1>0, RecordedKeeps, RegistryKept
  <2>4. GateInv'
    BY <2>1, <2>2, <2>3, <1>0, GateMoved
  <2> QED BY <2>1, <2>3, <2>4, <1>0 DEF ScanParts, QueueTypes
<1>4. CASE BeginScan(r)
  <2>0. req[r].pc = "reserved" /\ UNCHANGED <<corr, bus>>
    BY <1>4 DEF BeginScan
  <2>1. CASE gate = None
    <3>1. gate' = r /\ Goto(r, "window")
      BY <1>4, <2>1 DEF BeginScan
    <3>2. req'[r].pc = "window" /\ \A s \in Requests : s # r => req'[s] = req[s]
      BY <3>1, <1>0, GotoFacts DEF Moved
    <3>3. \A s \in Requests : req[s].pc # "window"
      BY <2>1, <1>0, NoneAssumption DEF GateInv
    <3>4. GateInv'
      BY <3>1, <3>2, <3>3 DEF GateInv
    <3> QED BY <2>0, <3>4, <1>0, RegistryKept DEF ScanParts, QueueTypes
  <2>2. CASE gate # None
    <3>1. gate' = gate /\ req' = [req EXCEPT ![r].pc = "attached", ![r].op = gate]
      BY <1>4, <2>2 DEF BeginScan
    <3>2. req'[r].pc # "window" /\ \A s \in Requests : s # r => req'[s] = req[s]
      BY <3>1, <1>0, AnswerFacts DEF Moved
    <3>3. GateInv'
      BY <2>0, <3>1, <3>2, <1>0, GateMoved
    <3> QED BY <2>0, <3>3, <1>0, RegistryKept DEF ScanParts, QueueTypes
  <2> QED BY <2>1, <2>2
<1>5. CASE OpenWindow(r)
  <2>1. /\ req[r].pc = "window" /\ UNCHANGED <<gate, bus>> /\ Answer(r, r) /\ gate = r
        /\ corr' = [corr EXCEPT !.window = [op |-> r, from |-> Len(events)]]
    BY <1>0, <1>5 DEF OpenWindow, GateInv
  <2>2. req'[r].pc = "accepted" /\ \A s \in Requests : s # r => req'[s] = req[s]
    BY <2>1, <1>0, AnswerFacts DEF Moved, Answer
  <2> DEFINE win == [op |-> r, from |-> Len(events)]
  <2>3. corr' = [pending |-> corr.pending, order |-> corr.order,
                 window |-> win, resolved |-> corr.resolved]
    BY <2>1, <1>0 DEF Registry
  <2>4. win.op = r /\ win.from = Len(events) /\ Len(events) \in Nat
    BY <1>0 DEF QueueTypes
  <2> HIDE DEF win
  <2>5. Registry(corr')
    <3>1. \A i \in 1 .. Len(events) : ~(i > Len(events))
      BY <2>4
    <3> QED BY <2>3, <2>4, <3>1, <1>0 DEF Registry
  <2>6. GateInv'
    BY <2>1, <2>2, <2>3, <2>4, <1>0 DEF GateInv
  <2> QED BY <2>1, <2>5, <2>6, <1>0, RegistryKept DEF ScanParts, QueueTypes
<1> QED BY <1>1, <1>2, <1>3, <1>4, <1>5

\* Every step keeps the invariant of the discovery window.
LEMMA ScanStep == KeyInv /\ ScanParts /\ [Next]_vars => ScanParts'
<1> SUFFICES ASSUME KeyInv, ScanParts, [Next]_vars PROVE ScanParts'
  OBVIOUS
<1>0. KeyTypes /\ QueueTypes /\ GateInv /\ Registry(corr) /\ StampInv
  BY DEF KeyInv, ScanParts
<1>1. CASE UNCHANGED vars
  <2>1. Registry(corr)' /\ StampInv'
    BY <1>0, <1>1, RegistryKept, StampsKept DEF vars
  <2> QED BY <1>0, <1>1, <2>1 DEF ScanParts, QueueTypes, GateInv, vars, requestVars
<1>2. ASSUME NEW r \in Requests,
             \/ \E k \in IdemKeys \cup {None}, cmd \in Commands : Reserve(r, k, cmd)
             \/ BuildRefused(r) \/ Submit(r) \/ Rollback(r) \/ RecordCorr(r)
             \/ BeginScan(r) \/ Rebind(r) \/ OpenWindow(r)
      PROVE  ScanParts'
  <2>1. UNCHANGED <<batch, events, stamps>>
    BY <1>2 DEF Reserve, BuildRefused, Submit, Rollback, Rejected, RecordCorr, BeginScan,
                Rebind, Attached, OpenWindow
  <2> QED BY <1>2, <2>1, ScanRequestStep
<1>3. CASE PublishRow
  <2> DEFINE e == [key |-> Scan, cause |-> gate]
  <2>1. /\ events' = Append(events, e) /\ UNCHANGED <<req, gate, bus, batch, corr, stamps>>
        /\ gate # None /\ req[gate].pc = "accepted"
    BY <1>3 DEF PublishRow, Publish
  <2>2. e \in Event /\ e.cause = gate /\ corr.window.op = gate
    BY <2>1, <1>0 DEF Event, Keyed, KeyTypes, OpOrNone, GateInv
  <2> HIDE DEF e
  <2>3. events' \in Seq(Event) /\ Registry(corr)' /\ StampInv'
    BY <2>1, <2>2, <1>0, Published
  <2> QED BY <1>0, <2>1, <2>3 DEF ScanParts, QueueTypes, GateInv
<1>4. CASE EndScan \/ Drain
  <2>1. Registry(corr)' /\ StampInv' /\ UNCHANGED req
    BY <1>0, <1>4, RegistryKept, StampsKept DEF EndScan, Drain, requestVars
  <2>2. GateInv'
    BY <1>0, <1>4, <2>1 DEF EndScan, Drain, requestVars, GateInv
  <2>3. QueueTypes'
    BY <1>0, <1>4 DEF EndScan, Drain, QueueTypes
  <2> QED BY <2>1, <2>2, <2>3 DEF ScanParts
<1>5. CASE Apply
  <2>1. /\ batch # <<>> /\ batch' = Tail(batch) /\ UNCHANGED <<req, gate, bus, corr, stamps>>
        /\ Head(batch) \in Ops /\ Tail(batch) \in Seq(Ops)
    BY <1>0, <1>5 DEF Apply, requestVars, QueueTypes
  <2>2. CASE UNCHANGED events
    <3>1. Registry(corr)' /\ StampInv'
      BY <1>0, <2>1, <2>2, RegistryKept, StampsKept
    <3> QED BY <1>0, <2>1, <2>2, <3>1 DEF ScanParts, QueueTypes, GateInv
  <2>3. ASSUME NEW k \in CorrKeys, Publish(k, Head(batch)) PROVE ScanParts'
    <3> DEFINE e == [key |-> k, cause |-> Head(batch)]
    <3>1. e \in Event /\ e.key # Scan /\ events' = Append(events, e)
      BY <2>1, <2>3, NoneAssumption DEF Event, Keyed, Publish, Scan, NoneAssumption
    <3> HIDE DEF e
    <3>2. events' \in Seq(Event) /\ Registry(corr)' /\ StampInv'
      BY <2>1, <3>1, <1>0, Published
    <3> QED BY <1>0, <2>1, <3>2 DEF ScanParts, QueueTypes, GateInv
  <2> QED BY <1>5, <2>2, <2>3 DEF Apply
<1>6. ASSUME NEW c \in Clients, Connect(c) \/ Skip(c) PROVE ScanParts'
  <2>1. UNCHANGED <<req, gate, bus, batch, events, corr, stamps>>
    BY <1>6 DEF Connect, Skip, Advance, requestVars
  <2>2. Registry(corr)' /\ StampInv'
    BY <1>0, <2>1, RegistryKept, StampsKept
  <2> QED BY <1>0, <2>1, <2>2 DEF ScanParts, QueueTypes, GateInv
<1>7. ASSUME NEW c \in Clients, Project(c) PROVE ScanParts'
  <2> DEFINE i == client[c]
             op == ResolvedOp(corr, events[i].key, i)
             reg == Resolved(corr, events[i].key, i)
  <2>1. /\ i \in 1 .. Len(events) /\ UNCHANGED <<req, gate, bus, batch, events>>
        /\ stamps' = [stamps EXCEPT ![c] =
                        [j \in DOMAIN @ \cup {i} |-> IF j = i THEN op ELSE @[j]]]
        /\ corr' = reg
    BY <1>7 DEF Project, Advance, requestVars
  <2>2. (op # None => Names(i, op)) /\ Registry(reg) /\ reg.window = corr.window
    BY <2>1, <1>0, ResolvedKeeps
  <2> HIDE DEF op, reg, i
  <2>3. Registry(corr)' /\ GateInv' /\ QueueTypes'
    BY <2>1, <2>2, <1>0, RegistryKept DEF GateInv, QueueTypes
  <2>4. StampInv'
    <3> DEFINE new == [j \in DOMAIN stamps[c] \cup {i} |-> IF j = i THEN op ELSE stamps[c][j]]
    <3>1. stamps' = [stamps EXCEPT ![c] = new]
      BY <2>1
    <3>2. \A j \in DOMAIN new : j \in 1 .. Len(events) /\ (new[j] # None => Names(j, new[j]))
      BY <2>1, <2>2, <1>0 DEF StampInv
    <3> HIDE DEF new
    <3>3. /\ stamps' = [d \in Clients |-> stamps'[d]] /\ stamps'[c] = new
          /\ \A d \in Clients : d # c => stamps'[d] = stamps[d]
      BY <3>1, <1>0 DEF StampInv
    <3> QED BY <3>2, <3>3, <2>1, <1>0 DEF StampInv, Names
  <2> QED BY <2>3, <2>4 DEF ScanParts
<1> QED BY <1>1, <1>2, <1>3, <1>4, <1>5, <1>6, <1>7 DEF Next

\* A row of a discovery scan is stamped with the scan that found it or with
\* nothing, whatever scan the window names by then (record_window, resolve).
THEOREM RowsKeepTheirScan == Spec => []ScanRowsKeepTheirScan
<1>1. Init => KeyInv /\ ScanParts
  BY KeyInit, ScanInit
<1>2. KeyInv /\ ScanParts /\ [Next]_vars => KeyInv' /\ ScanParts'
  BY KeyStep, ScanStep
<1>3. ScanParts => ScanRowsKeepTheirScan
  BY DEF ScanParts, ScanRowsKeepTheirScan, StampInv, Stamps, Stamp, Names
<1> QED BY <1>1, <1>2, <1>3, PTL DEF Spec

-----------------------------------------------------------------------------
(* The pending correlations *)

\* A set of numbers has a least one.
LEMMA LeastOf ==
  ASSUME NEW I, I \subseteq Nat, I # {}
  PROVE  \E x \in I : \A y \in I : x <= y
<1>1. PICK x \in I : \A y \in I : ~(<<y, x>> \in OpToRel(<, Nat))
  BY NatLessThanWellFounded, WFMin, Zenon
<1>2. ASSUME NEW y \in I PROVE x <= y
  <2>1. <<y, x>> \notin OpToRel(<, Nat)
    BY <1>1, Zenon
  <2>2. <<y, x>> \in Nat \X Nat
    OBVIOUS
  <2>3. ~(y < x)
    BY <2>1, <2>2 DEF OpToRel
  <2> QED BY <2>3
<1> QED BY <1>2

\* Removing the first occurrence removes some occurrence (resolve's VecDeque::remove).
LEMMA FirstOccurrence ==
  ASSUME NEW S, NEW s \in Seq(S), NEW e, \E i \in 1 .. Len(s) : s[i] = e
  PROVE  \E j \in 1 .. Len(s) : s[j] = e /\ RemoveFirst(s, e) = RemoveAt(s, j)
<1> DEFINE I == {i \in 1 .. Len(s) : s[i] = e}
           j == SelectInSeq(s, LAMBDA v : v = e)
<1>1. I \subseteq Nat /\ I # {}
  OBVIOUS
<1>2. j = Min(I)
  BY <1>1 DEF SelectInSeq
<1>3. Min(I) \in I
  <2> HIDE DEF I
  <2>1. \E x \in I : \A y \in I : x <= y
    BY <1>1, LeastOf
  <2> QED BY <2>1 DEF Min
<1>4. RemoveFirst(s, e) = RemoveAt(s, j)
  BY DEF RemoveFirst
<1> HIDE DEF j
<1> QED BY <1>2, <1>3, <1>4

\* The positions of k in a sequence of keys.
At(s, k) == {i \in DOMAIN s : s[i] = k}

\* t is s without its j-th element.
Without(t, s, j) ==
  /\ Len(t) = Len(s) - 1
  /\ \A i \in 1 .. Len(t) : t[i] = s[IF i < j THEN i ELSE i + 1]

LEMMA TailWithout ==
  ASSUME NEW S, NEW s \in Seq(S), s # <<>>
  PROVE  Tail(s) \in Seq(S) /\ Without(Tail(s), s, 1)
BY DEF Without

LEMMA RemoveAtWithout ==
  ASSUME NEW S, NEW s \in Seq(S), NEW j \in 1 .. Len(s)
  PROVE  RemoveAt(s, j) \in Seq(S) /\ Without(RemoveAt(s, j), s, j)
<1> DEFINE a == SubSeq(s, 1, j - 1)
           b == SubSeq(s, j + 1, Len(s))
<1>1. a \in Seq(S) /\ Len(a) = j - 1 /\ \A i \in 1 .. j - 1 : a[i] = s[i]
  OBVIOUS
<1>2. b \in Seq(S) /\ Len(b) = Len(s) - j /\ \A i \in 1 .. Len(s) - j : b[i] = s[j + i]
  OBVIOUS
<1>3. RemoveAt(s, j) = a \o b
  BY DEF RemoveAt
<1> HIDE DEF a, b
<1>4. /\ a \o b \in Seq(S) /\ Len(a \o b) = Len(s) - 1
      /\ \A i \in 1 .. Len(s) - 1 : (a \o b)[i] = IF i < j THEN a[i] ELSE b[i - (j - 1)]
  <2>1. /\ a \o b \in Seq(S) /\ Len(a \o b) = Len(a) + Len(b)
        /\ \A i \in 1 .. Len(a) + Len(b) :
             (a \o b)[i] = IF i <= Len(a) THEN a[i] ELSE b[i - Len(a)]
    BY <1>1, <1>2, ConcatProperties
  <2>2. Len(s) \in Nat /\ Len(a) + Len(b) = Len(s) - 1
    BY <1>1, <1>2
  <2>3. \A i \in 1 .. Len(s) - 1 : (i < j <=> i <= Len(a)) /\ Len(a) = j - 1
    BY <1>1, <2>2
  <2> QED BY <2>1, <2>2, <2>3
<1>5. \A i \in 1 .. Len(s) - 1 : (a \o b)[i] = s[IF i < j THEN i ELSE i + 1]
  BY <1>1, <1>2, <1>4
<1> QED BY <1>3, <1>4, <1>5 DEF Without

LEMMA AtFinite ==
  ASSUME NEW S, NEW s \in Seq(S), NEW k
  PROVE  IsFiniteSet(At(s, k)) /\ Cardinality(At(s, k)) \in Nat
<1>1. IsFiniteSet(1 .. Len(s))
  BY FS_Interval
<1>2. At(s, k) \subseteq 1 .. Len(s)
  BY DEF At
<1> QED BY <1>1, <1>2, FS_Subset, FS_CardinalityType

\* Appending a key adds a position of that key alone.
LEMMA CountAppend ==
  ASSUME NEW S, NEW s \in Seq(S), NEW e \in S, NEW k
  PROVE  Cardinality(At(Append(s, e), k)) =
           IF e = k THEN Cardinality(At(s, k)) + 1 ELSE Cardinality(At(s, k))
<1> DEFINE n == Len(s) + 1
           t == Append(s, e)
<1>1. Len(t) = n /\ t[n] = e /\ \A i \in 1 .. Len(s) : t[i] = s[i]
  OBVIOUS
<1>2. DOMAIN t = 1 .. n /\ DOMAIN s = 1 .. Len(s) /\ Len(s) \in Nat
  OBVIOUS
<1> HIDE DEF t
<1>3. n \notin At(s, k)
  BY <1>2 DEF At
<1>4. CASE e = k
  <2>1. At(t, k) = At(s, k) \cup {n}
    BY <1>1, <1>2, <1>4 DEF At
  <2> HIDE DEF n
  <2> QED BY <2>1, <1>3, <1>4, AtFinite, FS_AddElement DEF t
<1>5. CASE e # k
  <2>1. At(t, k) = At(s, k)
    BY <1>1, <1>2, <1>5 DEF At
  <2> QED BY <2>1, <1>5 DEF t
<1> QED BY <1>4, <1>5

\* Removing an element removes a position of that key alone.
LEMMA CountWithout ==
  ASSUME NEW S, NEW s \in Seq(S), NEW t \in Seq(S), NEW j \in 1 .. Len(s), Without(t, s, j), NEW k
  PROVE  Cardinality(At(t, k)) =
           IF s[j] = k THEN Cardinality(At(s, k)) - 1 ELSE Cardinality(At(s, k))
<1> DEFINE A == At(t, k)
           B == At(s, k) \ {j}
           f == [i \in A |-> IF i < j THEN i ELSE i + 1]
<1>1. /\ DOMAIN t = 1 .. Len(t) /\ DOMAIN s = 1 .. Len(s)
      /\ Len(t) = Len(s) - 1 /\ Len(s) \in Nat /\ Len(t) \in Nat
      /\ \A i \in 1 .. Len(t) : t[i] = s[IF i < j THEN i ELSE i + 1]
  BY DEF Without
<1>2. f \in [A -> B]
  BY <1>1 DEF At
<1>3. \A x, y \in A : f[x] = f[y] => x = y
  BY <1>1 DEF At
<1>4. ASSUME NEW z \in B PROVE \E x \in A : f[x] = z
  <2>1. CASE z < j
    <3>1. z \in A
      BY <2>1, <1>1, <1>4 DEF At
    <3> QED BY <3>1, <2>1
  <2>2. CASE ~(z < j)
    <3>1. z > j /\ z \in 1 .. Len(s) /\ s[z] = k
      BY <2>2, <1>1, <1>4 DEF At
    <3>2. z - 1 \in 1 .. Len(t) /\ ~(z - 1 < j) /\ (z - 1) + 1 = z
      BY <3>1, <1>1
    <3>3. z - 1 \in A
      BY <3>1, <3>2, <1>1 DEF At
    <3> QED BY <3>2, <3>3
  <2> QED BY <2>1, <2>2
<1>5. ExistsBijection(A, B)
  <2>1. f \in Injection(A, B)
    BY <1>2, <1>3 DEF Injection, IsInjective
  <2>2. f \in Surjection(A, B)
    BY <1>2, <1>4 DEF Surjection
  <2> QED BY <2>1, <2>2 DEF Bijection, ExistsBijection
<1>6. IsFiniteSet(A) /\ IsFiniteSet(At(s, k))
  BY AtFinite
<1> HIDE DEF f, A
<1>7. Cardinality(A) = Cardinality(B)
  BY <1>5, <1>6, FS_Bijection
<1>8. Cardinality(B) = IF j \in At(s, k) THEN Cardinality(At(s, k)) - 1 ELSE Cardinality(At(s, k))
  BY <1>6, FS_RemoveElement
<1>9. j \in At(s, k) <=> s[j] = k
  BY <1>1 DEF At
<1> QED BY <1>7, <1>8, <1>9 DEF A

\* An operation waits in some queue of pending correlations.
InQueue(p, op) == \E k \in CorrKeys : \E j \in DOMAIN p[k] : p[k][j] = op

\* No operation waits in two places.
Apart(p) ==
  \A k, l \in CorrKeys : \A i \in DOMAIN p[k], j \in DOMAIN p[l] : p[k][i] = p[l][j] => k = l /\ i = j

\* The eviction order names a key as often as operations wait under it.
Queues(p, o) ==
  /\ p \in [CorrKeys -> Seq(Ops)] /\ o \in Seq(CorrKeys)
  /\ \A k \in CorrKeys : Len(p[k]) = Cardinality(At(o, k))

\* One queue changes: it gains an operation at its end, or loses its oldest one.
Longer(q, p, k, op) ==
  /\ q \in [CorrKeys -> Seq(Ops)] /\ q[k] = Append(p[k], op)
  /\ \A l \in CorrKeys : l # k => q[l] = p[l]

Shorter(q, p, k) ==
  /\ q \in [CorrKeys -> Seq(Ops)] /\ q[k] = Tail(p[k])
  /\ \A l \in CorrKeys : l # k => q[l] = p[l]

LEMMA QueuedIsOrdered ==
  ASSUME NEW p, NEW o, Queues(p, o), NEW k \in CorrKeys
  PROVE  p[k] # <<>> <=> \E j \in 1 .. Len(o) : o[j] = k
<1>1. p[k] # <<>> <=> Len(p[k]) # 0
  BY DEF Queues
<1>2. IsFiniteSet(At(o, k))
  BY AtFinite DEF Queues
<1>3. Len(p[k]) # 0 <=> At(o, k) # {}
  BY <1>2, FS_EmptySet DEF Queues
<1> QED BY <1>1, <1>3 DEF At, Queues

\* Queueing a new operation under a key.
LEMMA QueueAppend ==
  ASSUME NEW p, NEW o, Queues(p, o), Apart(p), NEW k \in CorrKeys, NEW op \in Ops, ~InQueue(p, op),
         NEW q, Longer(q, p, k, op)
  PROVE  /\ Queues(q, Append(o, k)) /\ Apart(q)
         /\ \A x : InQueue(q, x) => InQueue(p, x) \/ x = op
<1>1. /\ q \in [CorrKeys -> Seq(Ops)] /\ q[k] = Append(p[k], op) /\ Append(o, k) \in Seq(CorrKeys)
      /\ p[k] \in Seq(Ops)
      /\ \A l \in CorrKeys : l # k => q[l] = p[l]
  BY DEF Queues, Longer
<1>2. /\ DOMAIN q[k] = 1 .. Len(p[k]) + 1 /\ DOMAIN p[k] = 1 .. Len(p[k]) /\ Len(p[k]) \in Nat
      /\ q[k][Len(p[k]) + 1] = op
      /\ \A i \in 1 .. Len(p[k]) : q[k][i] = p[k][i]
  BY <1>1
<1>3. ASSUME NEW l \in CorrKeys PROVE Len(q[l]) = Cardinality(At(Append(o, k), l))
  <2>1. Cardinality(At(Append(o, k), l)) =
          IF k = l THEN Cardinality(At(o, l)) + 1 ELSE Cardinality(At(o, l))
    BY CountAppend DEF Queues
  <2>2. Len(q[l]) = IF k = l THEN Len(p[l]) + 1 ELSE Len(p[l])
    BY <1>1
  <2> QED BY <2>1, <2>2 DEF Queues
<1>4. ASSUME NEW l \in CorrKeys, NEW i \in DOMAIN q[l]
      PROVE  \/ i \in DOMAIN p[l] /\ q[l][i] = p[l][i]
             \/ l = k /\ i = Len(p[k]) + 1 /\ q[l][i] = op
  <2>1. CASE l = k
    BY <2>1, <1>1, <1>2, <1>4
  <2>2. CASE l # k
    BY <2>2, <1>1, <1>4
  <2> QED BY <2>1, <2>2
<1>5. Apart(q)
  BY <1>4 DEF Apart, InQueue
<1>6. \A x : InQueue(q, x) => InQueue(p, x) \/ x = op
  BY <1>4 DEF InQueue
<1> QED BY <1>1, <1>3, <1>5, <1>6 DEF Queues

\* Taking the oldest operation of a key, and the key out of the order.
LEMMA QueueRemove ==
  ASSUME NEW p, NEW o, Queues(p, o), Apart(p), NEW j \in 1 .. Len(o), NEW k \in CorrKeys, o[j] = k,
         NEW t \in Seq(CorrKeys), Without(t, o, j),
         NEW q, Shorter(q, p, k)
  PROVE  /\ Queues(q, t) /\ Apart(q)
         /\ \A x : InQueue(q, x) => InQueue(p, x) /\ x # Head(p[k])
<1>0. p[k] \in Seq(Ops) /\ p[k] # <<>>
  BY QueuedIsOrdered DEF Queues
<1>1. /\ q \in [CorrKeys -> Seq(Ops)] /\ q[k] = Tail(p[k])
      /\ \A l \in CorrKeys : l # k => q[l] = p[l]
  BY <1>0 DEF Shorter
<1>2. /\ DOMAIN q[k] = 1 .. Len(p[k]) - 1 /\ DOMAIN p[k] = 1 .. Len(p[k]) /\ Len(p[k]) \in Nat \ {0}
      /\ Len(q[k]) = Len(p[k]) - 1 /\ p[k][1] = Head(p[k])
      /\ \A i \in 1 .. Len(p[k]) - 1 : q[k][i] = p[k][i + 1]
  BY <1>0, <1>1
<1>3. ASSUME NEW l \in CorrKeys PROVE Len(q[l]) = Cardinality(At(t, l))
  <2>1. Cardinality(At(t, l)) = IF k = l THEN Cardinality(At(o, l)) - 1 ELSE Cardinality(At(o, l))
    BY CountWithout DEF Queues
  <2>2. Len(q[l]) = IF k = l THEN Len(p[l]) - 1 ELSE Len(p[l])
    BY <1>1, <1>2
  <2> QED BY <2>1, <2>2 DEF Queues
<1>4. ASSUME NEW l \in CorrKeys, NEW i \in DOMAIN q[l]
      PROVE  \/ l # k /\ i \in DOMAIN p[l] /\ q[l][i] = p[l][i]
             \/ l = k /\ i + 1 \in DOMAIN p[k] /\ i \in Nat \ {0} /\ q[l][i] = p[k][i + 1]
  <2>1. CASE l = k
    <3>1. i \in DOMAIN q[k]
      BY <2>1, <1>4, Zenon
    <3>2. i \in 1 .. Len(p[k]) - 1 /\ q[k][i] = p[k][i + 1]
      BY <3>1, <1>2, Zenon
    <3>3. i + 1 \in 1 .. Len(p[k]) /\ i \in Nat \ {0}
      BY <3>2, <1>2
    <3> QED BY <2>1, <3>2, <3>3, <1>2
  <2>2. CASE l # k
    BY <2>2, <1>1, <1>4
  <2> QED BY <2>1, <2>2
<1>5. Apart(q)
  <2> SUFFICES ASSUME NEW l \in CorrKeys, NEW m \in CorrKeys, NEW x \in DOMAIN q[l],
                      NEW y \in DOMAIN q[m], q[l][x] = q[m][y]
               PROVE  l = m /\ x = y
    BY DEF Apart
  <2>1. CASE l = k /\ m = k
    <3>1. /\ x + 1 \in DOMAIN p[k] /\ y + 1 \in DOMAIN p[k] /\ p[k][x + 1] = p[k][y + 1]
          /\ x \in Nat /\ y \in Nat
      BY <2>1, <1>4
    <3>2. x + 1 = y + 1
      BY <3>1 DEF Apart
    <3> QED BY <2>1, <3>1, <3>2
  <2>2. CASE ~(l = k /\ m = k)
    BY <2>2, <1>4 DEF Apart
  <2> QED BY <2>1, <2>2
<1>6. ASSUME NEW x, InQueue(q, x) PROVE InQueue(p, x) /\ x # Head(p[k])
  <2>1. PICK l \in CorrKeys : \E i \in DOMAIN q[l] : q[l][i] = x
    BY <1>6 DEF InQueue
  <2>2. PICK i \in DOMAIN q[l] : q[l][i] = x
    BY <2>1
  <2>3. 1 \in DOMAIN p[k]
    BY <1>2
  <2>4. CASE l # k
    BY <2>2, <2>3, <2>4, <1>2, <1>4 DEF InQueue, Apart
  <2>5. CASE l = k
    <3>1. i + 1 \in DOMAIN p[k] /\ i + 1 # 1 /\ p[k][i + 1] = x
      BY <2>2, <2>5, <1>4
    <3> QED BY <3>1, <2>3, <1>2 DEF InQueue, Apart
  <2> QED BY <2>4, <2>5
<1> QED BY <1>1, <1>3, <1>5, <1>6 DEF Queues

Reg(p, o, w, m) == [pending |-> p, order |-> o, window |-> w, resolved |-> m]

LEMMA RegFields ==
  \A p, o, w, m : /\ Reg(p, o, w, m).pending = p /\ Reg(p, o, w, m).order = o
                  /\ Reg(p, o, w, m).window = w /\ Reg(p, o, w, m).resolved = m
BY DEF Reg

\* The pending half of the registry.
Pending(reg) ==
  /\ reg = Reg(reg.pending, reg.order, reg.window, reg.resolved)
  /\ Queues(reg.pending, reg.order) /\ Apart(reg.pending)
  /\ Len(reg.order) <= CorrCapacity

\* record queues the operation and nothing else, whatever it evicts.
LEMMA RecordedPending ==
  ASSUME NEW reg, Pending(reg), NEW k \in CorrKeys, NEW op \in Ops, ~InQueue(reg.pending, op)
  PROVE  LET q == Recorded(reg, k, op)
         IN  /\ Pending(q) /\ q.window = reg.window /\ q.resolved = reg.resolved
             /\ \A x : InQueue(q.pending, x) => InQueue(reg.pending, x) \/ x = op
<1>1. PICK p, o, w, m : /\ reg = Reg(p, o, w, m) /\ Queues(p, o) /\ Apart(p)
                        /\ Len(o) <= CorrCapacity /\ ~InQueue(p, op)
  BY DEF Pending
<1>0. p = reg.pending /\ o = reg.order /\ w = reg.window /\ m = reg.resolved
  BY <1>1, RegFields
<1> DEFINE p1 == [p EXCEPT ![k] = Append(@, op)]
           o1 == Append(o, k)
           full == [reg EXCEPT !.pending[k] = Append(@, op), !.order = Append(@, k)]
           q == Recorded(reg, k, op)
<1>2. full = Reg(p1, o1, w, m)
  <2>1. full = [reg EXCEPT !.pending = p1, !.order = o1]
    BY <1>0
  <2> HIDE DEF p1, o1, full
  <2> QED BY <2>1, <1>1 DEF Reg
<1> HIDE DEF p1, full, q
<1>3. /\ Queues(p1, o1) /\ Apart(p1) /\ \A x : InQueue(p1, x) => InQueue(p, x) \/ x = op
  <2>1. Longer(p1, p, k, op)
    BY <1>1 DEF Queues, Longer, p1
  <2> QED BY <1>1, <2>1, QueueAppend
<1>4. Len(o1) = Len(o) + 1 /\ Len(o) \in Nat /\ o1 \in Seq(CorrKeys)
  BY <1>1 DEF Queues
<1> HIDE DEF o1
<1>5. q = IF Len(o1) > CorrCapacity THEN DropOldest(full) ELSE full
  <2>1. q = IF Len(full.order) > CorrCapacity THEN DropOldest(full) ELSE full
    BY DEF Recorded, q, full
  <2>2. full.order = o1
    BY <1>2, RegFields
  <2> QED BY <2>1, <2>2
<1>6. CASE Len(o1) > CorrCapacity
  <2> DEFINE h == Head(o1)
             p2 == [p1 EXCEPT ![h] = Tail(@)]
             o2 == Tail(o1)
  <2>1. o1 # <<>> /\ h \in CorrKeys /\ 1 \in 1 .. Len(o1) /\ o1[1] = h
    BY <1>4
  <2>2. o2 \in Seq(CorrKeys) /\ Without(o2, o1, 1)
    BY <1>4, <2>1, TailWithout
  <2>3. q = Reg(p2, o2, w, m)
    <3>1. full.pending = p1 /\ full.order = o1
      BY <1>2, RegFields
    <3>2. q = [full EXCEPT !.order = o2, !.pending[h] = Tail(@)]
      BY <1>5, <1>6, <3>1 DEF DropOldest
    <3> HIDE DEF h, o2
    <3>3. q = [full EXCEPT !.order = o2, !.pending = p2]
      BY <3>1, <3>2
    <3> HIDE DEF p2
    <3> QED BY <3>3, <1>2 DEF Reg
  <2>4. Len(o2) <= CorrCapacity
    BY <2>1, <1>1, <1>4
  <2> HIDE DEF h, o2, p2
  <2>5. Queues(p2, o2) /\ Apart(p2) /\ \A x : InQueue(p2, x) => InQueue(p1, x)
    <3>1. p1 \in [CorrKeys -> Seq(Ops)] /\ p1[h] # <<>>
      BY <2>1, <1>3, QueuedIsOrdered DEF Queues
    <3>2. Shorter(p2, p1, h)
      BY <2>1, <3>1 DEF Shorter, p2
    <3> QED BY <2>1, <2>2, <3>2, <1>3, QueueRemove
  <2> QED BY <2>3, <2>4, <2>5, <1>0, <1>3, RegFields DEF Pending, q
<1>7. CASE ~(Len(o1) > CorrCapacity)
  <2>1. q = Reg(p1, o1, w, m)
    BY <1>2, <1>5, <1>7
  <2>2. Len(o1) <= CorrCapacity
    BY <1>4, <1>7, CapacityAssumption
  <2> QED BY <2>1, <2>2, <1>0, <1>3, RegFields DEF Pending, q
<1> QED BY <1>6, <1>7

\* resolve takes the oldest operation of the key out of both structures.
LEMMA PoppedPending ==
  ASSUME NEW reg, Pending(reg), NEW k \in CorrKeys, reg.pending[k] # <<>>
  PROVE  LET q == Popped(reg, k)
         IN  /\ Pending(q) /\ q.window = reg.window /\ q.resolved = reg.resolved
             /\ Head(reg.pending[k]) \in Ops /\ InQueue(reg.pending, Head(reg.pending[k]))
             /\ \A x : InQueue(q.pending, x) => InQueue(reg.pending, x) /\ x # Head(reg.pending[k])
<1>1. PICK p, o, w, m : /\ reg = Reg(p, o, w, m) /\ Queues(p, o) /\ Apart(p)
                        /\ Len(o) <= CorrCapacity /\ p[k] # <<>>
  BY DEF Pending
<1>0. p = reg.pending /\ o = reg.order /\ w = reg.window /\ m = reg.resolved
  BY <1>1, RegFields
<1> DEFINE p1 == [p EXCEPT ![k] = Tail(@)]
           o1 == RemoveFirst(o, k)
           q == Popped(reg, k)
<1>2. q = Reg(p1, o1, w, m)
  <2>1. q = [reg EXCEPT !.pending = p1, !.order = o1]
    BY <1>0 DEF Popped
  <2> HIDE DEF p1, o1, q
  <2> QED BY <2>1, <1>1 DEF Reg
<1> HIDE DEF p1, o1, q
<1>3. o \in Seq(CorrKeys) /\ Len(o) \in Nat
  BY <1>1 DEF Queues
<1>4. \E i \in 1 .. Len(o) : o[i] = k
  BY <1>1, QueuedIsOrdered
<1>5. PICK j \in 1 .. Len(o) : o[j] = k /\ o1 = RemoveAt(o, j)
  BY <1>3, <1>4, FirstOccurrence DEF o1
<1>6. o1 \in Seq(CorrKeys) /\ Without(o1, o, j)
  BY <1>3, <1>5, RemoveAtWithout
<1>7. Queues(p1, o1) /\ Apart(p1) /\ \A x : InQueue(p1, x) => InQueue(p, x) /\ x # Head(p[k])
  <2>1. Shorter(p1, p, k)
    BY <1>1 DEF Queues, Shorter, p1
  <2> QED BY <1>1, <1>5, <1>6, <2>1, QueueRemove
<1>8. Len(o1) <= CorrCapacity
  BY <1>1, <1>3, <1>6, CapacityAssumption DEF Without
<1>9. Head(p[k]) \in Ops /\ InQueue(p, Head(p[k]))
  <2>1. p[k] \in Seq(Ops) /\ p[k] # <<>>
    BY <1>1 DEF Queues
  <2>2. 1 \in DOMAIN p[k] /\ Head(p[k]) = p[k][1] /\ Head(p[k]) \in Ops
    BY <2>1
  <2> QED BY <2>2 DEF InQueue
<1> QED BY <1>0, <1>2, <1>7, <1>8, <1>9, RegFields DEF Pending, q

-----------------------------------------------------------------------------
(* The memo, and what consumes an operation *)

MemoEntry == [seq : Nat, op : Ops]

\* The memo is bounded and names one operation per event.
MemoInv(m) ==
  /\ m \in Seq(MemoEntry) /\ Len(m) <= CorrCapacity
  /\ \A e, f \in Range(m) : e.seq = f.seq => e = f

\* The memo once an entry is appended (Memoized).
Remembered(m, e) == LET all == Append(m, e) IN IF Len(all) > CorrCapacity THEN Tail(all) ELSE all

\* A new entry may push the oldest one out, and then the memo is full.
LEMMA MemoAppend ==
  ASSUME NEW m, MemoInv(m), NEW e \in MemoEntry, \A f \in Range(m) : f.seq # e.seq
  PROVE  /\ MemoInv(Remembered(m, e))
         /\ \A f \in Range(Remembered(m, e)) : f \in Range(m) \/ f = e
         /\ Len(Remembered(m, e)) < CorrCapacity =>
              /\ Len(m) < CorrCapacity
              /\ Range(m) \subseteq Range(Remembered(m, e)) /\ e \in Range(Remembered(m, e))
<1> DEFINE all == Append(m, e)
           n == Remembered(m, e)
<1>0. n = IF Len(all) > CorrCapacity THEN Tail(all) ELSE all
  BY DEF Remembered
<1> HIDE DEF n
<1>1. m \in Seq(MemoEntry) /\ Len(m) <= CorrCapacity /\ Len(m) \in Nat
  BY DEF MemoInv
<1>2. CorrCapacity \in Nat \ {0}
  BY CapacityAssumption
<1>3. /\ all \in Seq(MemoEntry) /\ Len(all) = Len(m) + 1 /\ all # <<>>
      /\ all[Len(m) + 1] = e
      /\ \A i \in 1 .. Len(m) : all[i] = m[i]
  BY <1>1
<1>4. Range(all) = Range(m) \cup {e}
  <2>1. DOMAIN all = 1 .. Len(m) + 1 /\ DOMAIN m = 1 .. Len(m)
    BY <1>1, <1>3
  <2> QED BY <2>1, <1>1, <1>3 DEF Range
<1>5. \A f, g \in Range(all) : f.seq = g.seq => f = g
  BY <1>4 DEF MemoInv
<1>6. CASE Len(all) > CorrCapacity
  <2>1. /\ n = Tail(all) /\ n \in Seq(MemoEntry) /\ Len(n) = Len(m) /\ Len(n) = CorrCapacity
        /\ \A i \in 1 .. Len(n) : n[i] = all[i + 1]
    BY <1>0, <1>1, <1>2, <1>3, <1>6
  <2>2. Range(n) \subseteq Range(all)
    <3>1. DOMAIN all = 1 .. Len(m) + 1 /\ DOMAIN n = 1 .. Len(m)
      BY <1>3, <2>1
    <3> QED BY <3>1, <2>1, <1>1 DEF Range
  <2>3. ~(Len(n) < CorrCapacity) /\ Len(n) <= CorrCapacity
    BY <2>1, <1>2
  <2>4. MemoInv(n)
    BY <2>1, <2>2, <2>3, <1>5 DEF MemoInv
  <2>5. \A f \in Range(n) : f \in Range(m) \/ f = e
    BY <2>2, <1>4
  <2> QED BY <2>3, <2>4, <2>5 DEF n
<1>7. CASE ~(Len(all) > CorrCapacity)
  <2>1. n = all /\ Len(n) <= CorrCapacity /\ Len(m) < CorrCapacity
    BY <1>0, <1>1, <1>2, <1>3, <1>7
  <2> QED BY <2>1, <1>3, <1>4, <1>5 DEF MemoInv, n
<1> QED BY <1>6, <1>7

\* Memo n is memo m with the entry <<i, op>>, and entries went only if n is full.
Gains(n, m, i, op) ==
  /\ \A f \in Range(n) : f \in Range(m) \/ (f.seq = i /\ f.op = op)
  /\ Len(n) < CorrCapacity => /\ Len(m) < CorrCapacity /\ Range(m) \subseteq Range(n)
                              /\ \E f \in Range(n) : f.seq = i /\ f.op = op

\* Remembering an answer leaves the pending correlations and the window alone.
LEMMA MemoizedMemo ==
  ASSUME NEW reg, Pending(reg), MemoInv(reg.resolved), NEW i \in Nat, NEW op \in Ops,
         Memo(reg, i) = {}
  PROVE  LET q == Memoized(reg, i, op)
         IN  /\ Pending(q) /\ q.pending = reg.pending /\ q.window = reg.window
             /\ MemoInv(q.resolved) /\ Gains(q.resolved, reg.resolved, i, op)
<1> DEFINE e == [seq |-> i, op |-> op]
           n == Remembered(reg.resolved, e)
           q == Memoized(reg, i, op)
<1>1. PICK p, o, w, m : reg = Reg(p, o, w, m)
  BY DEF Pending
<1>2. reg.pending = p /\ reg.order = o /\ reg.window = w /\ reg.resolved = m
  BY <1>1, RegFields
<1>3. q = Reg(p, o, w, n)
  <2>1. q = [reg EXCEPT !.resolved = n]
    BY <1>2 DEF Memoized, Remembered
  <2> HIDE DEF q, n
  <2> QED BY <2>1, <1>1 DEF Reg
<1>4. e \in MemoEntry /\ e.seq = i /\ e.op = op
  BY DEF MemoEntry
<1>5. \A f \in Range(m) : f.seq # e.seq
  BY <1>2, <1>4 DEF Memo
<1> HIDE DEF e, q
<1>6. /\ MemoInv(n)
      /\ \A f \in Range(n) : f \in Range(m) \/ f = e
      /\ Len(n) < CorrCapacity => /\ Len(m) < CorrCapacity
                                  /\ Range(m) \subseteq Range(n) /\ e \in Range(n)
  <2>1. MemoInv(m) /\ n = Remembered(m, e)
    BY <1>2
  <2> HIDE DEF n
  <2> QED BY <1>4, <1>5, <2>1, MemoAppend
<1> HIDE DEF n
<1>7. q.pending = p /\ q.order = o /\ q.window = w /\ q.resolved = n
  BY <1>3, RegFields
<1>8. Pending(q)
  BY <1>2, <1>3, <1>7 DEF Pending
<1>9. Gains(n, m, i, op)
  BY <1>4, <1>6 DEF Gains
<1> QED BY <1>2, <1>6, <1>7, <1>8, <1>9 DEF q

\* Event i took operation op: the memo says so, or a client stamped it.
Consumed(m, st, i, op) ==
  \/ \E e \in Range(m) : e.seq = i /\ e.op = op
  \/ \E c \in Clients : i \in DOMAIN st[c] /\ st[c][i] = op

\* An operation is in one stage: not recorded yet, waiting, or consumed, and a
\* command's by one event.
OneStage(r) ==
  /\ req[r].pc = "queued" => req[r].cmd # Scan
  /\ req[r].pc = "window" => req[r].cmd = Scan
  /\ InQueue(corr.pending, r) => req[r].pc = "accepted" /\ req[r].cmd # Scan
  /\ \A i : Consumed(corr.resolved, stamps, i, r) =>
       req[r].pc = "accepted" /\ ~InQueue(corr.pending, r)
  /\ \A i, j : /\ req[r].cmd # Scan
               /\ Consumed(corr.resolved, stamps, i, r) /\ Consumed(corr.resolved, stamps, j, r)
               => i = j

\* The window is a scan's.
WindowIsScan(w) ==
  w.op # None => w.op \in Requests /\ req[w.op].pc = "accepted" /\ req[w.op].cmd = Scan

\* Until an entry is evicted, the memo holds every stamp.
AllRemembered(m, st) ==
  Len(m) < CorrCapacity =>
    \A c \in Clients : \A i \in DOMAIN st[c] :
      st[c][i] # None => \E e \in Range(m) : e.seq = i /\ e.op = st[c][i]

OnceInv ==
  /\ Pending(corr) /\ MemoInv(corr.resolved)
  /\ \A c \in Clients : \A i \in DOMAIN stamps[c] : stamps[c][i] \in OpOrNone
  /\ \A r \in Requests : OneStage(r)
  /\ WindowIsScan(corr.window)
  /\ AllRemembered(corr.resolved, stamps)

\* What resolve answers is consumed by this event alone, and it leaves a
\* registry in which the answer no longer waits.
LEMMA ResolvedOnce ==
  ASSUME OnceInv, NEW i \in Nat, NEW k \in Keyed
  PROVE  LET op == ResolvedOp(corr, k, i)
             reg == Resolved(corr, k, i)
         IN  /\ op \in OpOrNone
             /\ Pending(reg) /\ MemoInv(reg.resolved) /\ reg.window = corr.window
             /\ op # None => /\ req[op].pc = "accepted" /\ ~InQueue(reg.pending, op)
                             /\ req[op].cmd # Scan =>
                                  \A j : Consumed(corr.resolved, stamps, j, op) => j = i
             /\ \A x : InQueue(reg.pending, x) => InQueue(corr.pending, x)
             /\ op = None => reg.resolved = corr.resolved
             /\ op # None => Gains(reg.resolved, corr.resolved, i, op)
<1> DEFINE op == ResolvedOp(corr, k, i)
           reg == Resolved(corr, k, i)
<1>0. /\ Pending(corr) /\ MemoInv(corr.resolved) /\ WindowIsScan(corr.window)
      /\ \A r \in Requests : OneStage(r)
      /\ None \notin Ops /\ Ops = Requests
  BY NoneAssumption DEF OnceInv, Ops
<1>1. reg = IF Memo(corr, i) # {} \/ op = None THEN corr
            ELSE IF k = Scan THEN Memoized(corr, i, op)
            ELSE Memoized(Popped(corr, k), i, op)
  BY DEF Resolved
<1>2. op = IF Memo(corr, i) # {} THEN (CHOOSE m \in Memo(corr, i) : TRUE).op
           ELSE IF k = Scan THEN IF InWindow(corr, i) THEN corr.window.op ELSE None
           ELSE IF corr.pending[k] # <<>> THEN Head(corr.pending[k]) ELSE None
  BY DEF ResolvedOp
<1> HIDE DEF op, reg
<1>3. CASE Memo(corr, i) # {}
  <2>1. PICK e \in Range(corr.resolved) : e.seq = i /\ e.op = op
    BY <1>2, <1>3 DEF Memo
  <2>2. op \in Ops
    <3>1. e \in MemoEntry
      BY <1>0 DEF MemoInv, Range
    <3> QED BY <2>1, <3>1 DEF MemoEntry
  <2>3. Consumed(corr.resolved, stamps, i, op)
    BY <2>1 DEF Consumed
  <2>4. reg = corr
    BY <1>1, <1>3
  <2>5. /\ req[op].pc = "accepted" /\ ~InQueue(corr.pending, op)
        /\ req[op].cmd # Scan => \A j : Consumed(corr.resolved, stamps, j, op) => j = i
    BY <1>0, <2>2, <2>3 DEF OneStage
  <2>6. Gains(corr.resolved, corr.resolved, i, op)
    BY <2>1 DEF Gains
  <2> QED BY <1>0, <2>2, <2>4, <2>5, <2>6 DEF op, reg, OpOrNone
<1>4. CASE Memo(corr, i) = {} /\ op = None
  <2>1. reg = corr
    BY <1>1, <1>4
  <2> QED BY <1>0, <1>4, <2>1 DEF op, reg, OpOrNone
<1>5. CASE Memo(corr, i) = {} /\ op # None /\ k = Scan
  <2>1. op = corr.window.op /\ reg = Memoized(corr, i, op)
    BY <1>1, <1>2, <1>5
  <2>2. op \in Ops /\ req[op].pc = "accepted" /\ req[op].cmd = Scan
    BY <1>0, <1>5, <2>1 DEF WindowIsScan
  <2>3. ~InQueue(corr.pending, op)
    BY <1>0, <2>2 DEF OneStage
  <2>4. /\ Pending(reg) /\ reg.pending = corr.pending /\ reg.window = corr.window
        /\ MemoInv(reg.resolved) /\ Gains(reg.resolved, corr.resolved, i, op)
    BY <1>0, <1>5, <2>1, <2>2, MemoizedMemo
  <2> QED BY <1>5, <2>2, <2>3, <2>4 DEF op, reg, OpOrNone
<1>6. CASE Memo(corr, i) = {} /\ op # None /\ k # Scan
  <2> DEFINE r0 == Popped(corr, k)
  <2>1. k \in CorrKeys /\ corr.pending[k] # <<>> /\ op = Head(corr.pending[k])
    BY <1>2, <1>6 DEF Keyed
  <2>2. /\ Pending(r0) /\ r0.window = corr.window /\ r0.resolved = corr.resolved
        /\ op \in Ops /\ InQueue(corr.pending, op)
        /\ \A x : InQueue(r0.pending, x) => InQueue(corr.pending, x) /\ x # op
    BY <1>0, <2>1, PoppedPending
  <2>3. reg = Memoized(r0, i, op)
    BY <1>1, <1>6
  <2> HIDE DEF r0
  <2>4. Memo(r0, i) = {} /\ MemoInv(r0.resolved)
    BY <1>0, <1>6, <2>2 DEF Memo
  <2>5. /\ Pending(reg) /\ reg.pending = r0.pending /\ reg.window = r0.window
        /\ MemoInv(reg.resolved) /\ Gains(reg.resolved, r0.resolved, i, op)
    <3>1. Pending(r0) /\ op \in Ops
      BY <2>2
    <3> QED BY <3>1, <2>3, <2>4, MemoizedMemo
  <2>6. req[op].pc = "accepted" /\ \A j : ~Consumed(corr.resolved, stamps, j, op)
    BY <1>0, <2>2 DEF OneStage
  <2> QED BY <1>6, <2>2, <2>5, <2>6 DEF op, reg, OpOrNone
<1> QED BY <1>3, <1>4, <1>5, <1>6

\* A step that leaves the registry, the stamps and the answered requests alone.
LEMMA OnceKept ==
  ASSUME OnceInv, UNCHANGED <<corr, stamps>>,
         \A s \in Requests :
           /\ req[s].pc = "accepted" => req'[s].pc = "accepted" /\ req'[s].cmd = req[s].cmd
           /\ req'[s].pc = "queued" => req'[s].cmd # Scan
           /\ req'[s].pc = "window" => req'[s].cmd = Scan
  PROVE  OnceInv'
<1>1. ASSUME NEW r \in Requests PROVE OneStage(r)'
  <2>1. OneStage(r)
    BY DEF OnceInv
  <2>2. InQueue(corr.pending, r)' <=> InQueue(corr.pending, r)
    OBVIOUS
  <2>3. \A i : Consumed(corr.resolved, stamps, i, r)' <=> Consumed(corr.resolved, stamps, i, r)
    BY DEF Consumed
  <2> QED BY <2>1, <2>2, <2>3 DEF OneStage
<1>2. WindowIsScan(corr.window)'
  BY DEF OnceInv, WindowIsScan
<1>3. AllRemembered(corr.resolved, stamps)'
  BY DEF OnceInv, AllRemembered
<1>4. Pending(corr)' /\ MemoInv(corr.resolved)'
  BY DEF OnceInv
<1>5. (\A c \in Clients : \A i \in DOMAIN stamps[c] : stamps[c][i] \in OpOrNone)'
  BY DEF OnceInv
<1> QED BY <1>1, <1>2, <1>3, <1>4, <1>5 DEF OnceInv

\* A request that was not answered moves on.
LEMMA OnceMoved ==
  ASSUME OnceInv, UNCHANGED <<corr, stamps>>, NEW r \in Requests, req[r].pc # "accepted",
         req'[r].pc = "queued" => req'[r].cmd # Scan,
         req'[r].pc = "window" => req'[r].cmd = Scan,
         \A s \in Requests : s # r => req'[s] = req[s]
  PROVE  OnceInv'
<1>1. ASSUME NEW s \in Requests
      PROVE  /\ req[s].pc = "accepted" => req'[s].pc = "accepted" /\ req'[s].cmd = req[s].cmd
             /\ req'[s].pc = "queued" => req'[s].cmd # Scan
             /\ req'[s].pc = "window" => req'[s].cmd = Scan
  BY DEF OnceInv, OneStage
<1> QED BY <1>1, OnceKept

\* A keyed command's operation starts to wait as its request is answered.
LEMMA OnceRecorded ==
  ASSUME OnceInv, NEW r \in Requests, Moved(r, "accepted", r), req[r].pc = "queued",
         req[r].cmd \in CorrKeys, corr' = Recorded(corr, req[r].cmd, r), stamps' = stamps
  PROVE  OnceInv'
<1> DEFINE k == req[r].cmd
<1>1. /\ Pending(corr) /\ MemoInv(corr.resolved) /\ ~InQueue(corr.pending, r)
      /\ \A i : ~Consumed(corr.resolved, stamps, i, r)
      /\ k # Scan
  BY DEF OnceInv, OneStage
<1>2. /\ Pending(corr') /\ corr'.window = corr.window /\ corr'.resolved = corr.resolved
      /\ \A x : InQueue(corr'.pending, x) => InQueue(corr.pending, x) \/ x = r
  BY <1>1, RecordedPending DEF Ops
<1>3. ASSUME NEW s \in Requests PROVE OneStage(s)'
  <2>1. \A i : Consumed(corr.resolved, stamps, i, s)' <=> Consumed(corr.resolved, stamps, i, s)
    BY <1>2 DEF Consumed
  <2>2. InQueue(corr.pending, s)' => InQueue(corr.pending, s) \/ s = r
    BY <1>2
  <2>3. CASE s = r
    BY <2>1, <2>3, <1>1 DEF OneStage, Moved
  <2>4. CASE s # r
    <3>1. OneStage(s) /\ req'[s] = req[s]
      BY <2>4 DEF OnceInv, Moved
    <3> QED BY <2>1, <2>2, <2>4, <3>1 DEF OneStage
  <2> QED BY <2>3, <2>4
<1>4. WindowIsScan(corr.window)'
  BY <1>1, <1>2 DEF OnceInv, WindowIsScan, Moved
<1>5. AllRemembered(corr.resolved, stamps)'
  BY <1>2 DEF OnceInv, AllRemembered
<1>6. Pending(corr)' /\ MemoInv(corr.resolved)'
  BY <1>1, <1>2
<1>7. (\A c \in Clients : \A i \in DOMAIN stamps[c] : stamps[c][i] \in OpOrNone)'
  BY DEF OnceInv
<1> QED BY <1>3, <1>4, <1>5, <1>6, <1>7 DEF OnceInv

\* A scan's window replaces the one before it.
LEMMA OnceOpened ==
  ASSUME OnceInv, NEW r \in Requests, Moved(r, "accepted", r), req[r].pc = "window",
         NEW from, corr' = [corr EXCEPT !.window = [op |-> r, from |-> from]], stamps' = stamps
  PROVE  OnceInv'
<1> DEFINE win == [op |-> r, from |-> from]
<1>1. PICK p, o, w, m : corr = Reg(p, o, w, m)
  BY DEF OnceInv, Pending
<1>2. corr.pending = p /\ corr.order = o /\ corr.window = w /\ corr.resolved = m
  BY <1>1, RegFields
<1>3. win.op = r
  OBVIOUS
<1>4. corr' = Reg(p, o, win, m)
  <2> HIDE DEF win
  <2>1. corr' = [corr EXCEPT !.window = win]
    BY DEF win
  <2> QED BY <2>1, <1>1 DEF Reg
<1> HIDE DEF win
<1>5. corr'.pending = p /\ corr'.order = o /\ corr'.window = win /\ corr'.resolved = m
  BY ONLY <1>4, RegFields
<1>6. Pending(corr)' /\ MemoInv(corr.resolved)'
  BY <1>2, <1>4, <1>5 DEF OnceInv, Pending
<1>7. ASSUME NEW s \in Requests PROVE OneStage(s)'
  <2>1. \A i : Consumed(corr.resolved, stamps, i, s)' <=> Consumed(corr.resolved, stamps, i, s)
    BY <1>2, <1>5 DEF Consumed
  <2>2. InQueue(corr.pending, s)' <=> InQueue(corr.pending, s)
    BY <1>2, <1>5
  <2>3. OneStage(s)
    BY DEF OnceInv
  <2>4. CASE s = r
    BY <2>1, <2>2, <2>3, <2>4 DEF OneStage, Moved
  <2>5. CASE s # r
    BY <2>1, <2>2, <2>3, <2>5 DEF OneStage, Moved
  <2> QED BY <2>4, <2>5
<1>8. WindowIsScan(corr.window)'
  <2>1. req[r].cmd = Scan
    BY DEF OnceInv, OneStage
  <2> QED BY <2>1, <1>3, <1>5 DEF WindowIsScan, Moved
<1>9. AllRemembered(corr.resolved, stamps)'
  BY <1>2, <1>5 DEF OnceInv, AllRemembered
<1>10. (\A c \in Clients : \A i \in DOMAIN stamps[c] : stamps[c][i] \in OpOrNone)'
  BY DEF OnceInv
<1> QED BY <1>6, <1>7, <1>8, <1>9, <1>10 DEF OnceInv

\* A client stamps an event with what resolve answers.
LEMMA OnceProjected ==
  ASSUME OnceInv, ScanParts, NEW c \in Clients, Project(c)
  PROVE  OnceInv'
<1> DEFINE i == client[c]
           k == events[i].key
           op == ResolvedOp(corr, k, i)
           reg == Resolved(corr, k, i)
           new == [j \in DOMAIN stamps[c] \cup {i} |-> IF j = i THEN op ELSE stamps[c][j]]
<1>1. /\ i \in 1 .. Len(events) /\ req' = req
      /\ stamps' = [stamps EXCEPT ![c] = new] /\ corr' = reg
  BY DEF Project, Advance, requestVars
<1>2. i \in Nat /\ k \in Keyed
  <2>1. events \in Seq(Event) /\ i \in 1 .. Len(events)
    BY <1>1 DEF ScanParts, QueueTypes
  <2>2. events[i] \in Event /\ i \in Nat
    BY <2>1
  <2> QED BY <2>2 DEF Event
<1>3. /\ op \in OpOrNone
      /\ Pending(reg) /\ MemoInv(reg.resolved) /\ reg.window = corr.window
      /\ op # None => /\ req[op].pc = "accepted" /\ ~InQueue(reg.pending, op)
                      /\ req[op].cmd # Scan =>
                           \A j : Consumed(corr.resolved, stamps, j, op) => j = i
      /\ \A x : InQueue(reg.pending, x) => InQueue(corr.pending, x)
      /\ op = None => reg.resolved = corr.resolved
      /\ op # None => Gains(reg.resolved, corr.resolved, i, op)
  BY <1>2, ResolvedOnce
<1>4. /\ stamps'[c] = new /\ \A d \in Clients : d # c => stamps'[d] = stamps[d]
  BY <1>1 DEF ScanParts, StampInv
<1> HIDE DEF i, k, op, reg
<1>5. DOMAIN new = DOMAIN stamps[c] \cup {i} /\ \A j \in DOMAIN new : new[j] = IF j = i THEN op ELSE stamps[c][j]
  OBVIOUS
<1> HIDE DEF new
<1>6. ASSUME NEW x \in Requests, NEW j, Consumed(corr.resolved, stamps, j, x)'
      PROVE  Consumed(corr.resolved, stamps, j, x) \/ (j = i /\ x = op /\ op # None)
  <2>1. ASSUME NEW e \in Range(corr'.resolved), e.seq = j, e.op = x
        PROVE  Consumed(corr.resolved, stamps, j, x) \/ (j = i /\ x = op /\ op # None)
    BY <1>1, <1>3, <2>1 DEF Consumed, Gains
  <2>2. ASSUME NEW d \in Clients, j \in DOMAIN stamps'[d], stamps'[d][j] = x
        PROVE  Consumed(corr.resolved, stamps, j, x) \/ (j = i /\ x = op /\ op # None)
    <3>1. CASE d # c
      BY <3>1, <1>4, <2>2 DEF Consumed
    <3>2. CASE d = c /\ j # i
      BY <3>2, <1>4, <1>5, <2>2 DEF Consumed
    <3>3. CASE d = c /\ j = i
      BY <3>3, <1>4, <1>5, <2>2, NoneAssumption DEF NoneAssumption
    <3> QED BY <3>1, <3>2, <3>3
  <2> QED BY <1>6, <2>1, <2>2 DEF Consumed
<1>7. ASSUME NEW r \in Requests PROVE OneStage(r)'
  <2>1. OneStage(r) /\ req'[r] = req[r]
    BY <1>1 DEF OnceInv
  <2>2. InQueue(corr.pending, r)' => InQueue(corr.pending, r)
    BY <1>1, <1>3
  <2>3. ASSUME NEW j, Consumed(corr.resolved, stamps, j, r)'
        PROVE  req[r].pc = "accepted" /\ ~InQueue(corr.pending, r)'
    <3>1. CASE Consumed(corr.resolved, stamps, j, r)
      BY <3>1, <2>1, <2>2 DEF OneStage
    <3>2. CASE r = op /\ op # None
      BY <3>2, <1>1, <1>3
    <3> QED BY <1>6, <2>3, <3>1, <3>2
  <2>4. ASSUME NEW j, NEW l, req[r].cmd # Scan,
               Consumed(corr.resolved, stamps, j, r)', Consumed(corr.resolved, stamps, l, r)'
        PROVE  j = l
    <3>1. CASE r = op /\ op # None
      <4>1. \A n : Consumed(corr.resolved, stamps, n, r) => n = i
        BY <3>1, <2>4, <1>3
      <4>2. j = i /\ l = i
        BY <4>1, <2>4, <1>6
      <4> QED BY <4>2
    <3>2. CASE ~(r = op /\ op # None)
      <4>1. Consumed(corr.resolved, stamps, j, r) /\ Consumed(corr.resolved, stamps, l, r)
        BY <3>2, <2>4, <1>6
      <4> QED BY <4>1, <2>1, <2>4 DEF OneStage
    <3> QED BY <3>1, <3>2
  <2> QED BY <2>1, <2>2, <2>3, <2>4 DEF OneStage
<1>8. WindowIsScan(corr.window)'
  BY <1>1, <1>3 DEF OnceInv, WindowIsScan
<1>9. AllRemembered(corr.resolved, stamps)'
  <2> SUFFICES ASSUME Len(reg.resolved) < CorrCapacity, NEW d \in Clients, NEW j \in DOMAIN stamps'[d],
                      stamps'[d][j] # None
               PROVE  \E e \in Range(reg.resolved) : e.seq = j /\ e.op = stamps'[d][j]
    BY <1>1 DEF AllRemembered
  <2>1. \A a \in Clients : \A n \in DOMAIN stamps[a] :
          stamps[a][n] # None => \E e \in Range(reg.resolved) : e.seq = n /\ e.op = stamps[a][n]
    BY <1>3 DEF OnceInv, AllRemembered, Gains
  <2>2. CASE d # c
    BY <2>1, <2>2, <1>4
  <2>3. CASE d = c /\ j # i
    BY <2>1, <2>3, <1>4, <1>5
  <2>4. CASE d = c /\ j = i
    <3>1. stamps'[d][j] = op
      BY <2>4, <1>4, <1>5
    <3> QED BY <3>1, <2>4, <1>3 DEF Gains
  <2> QED BY <2>2, <2>3, <2>4
<1>10. (\A d \in Clients : \A j \in DOMAIN stamps[d] : stamps[d][j] \in OpOrNone)'
  <2> SUFFICES ASSUME NEW d \in Clients, NEW j \in DOMAIN stamps'[d]
               PROVE  stamps'[d][j] \in OpOrNone
    BY DEF OpOrNone
  <2>1. CASE d # c
    BY <2>1, <1>4 DEF OnceInv
  <2>2. CASE d = c
    BY <2>2, <1>3, <1>4, <1>5 DEF OnceInv
  <2> QED BY <2>1, <2>2
<1>11. Pending(corr)' /\ MemoInv(corr.resolved)'
  BY <1>1, <1>3
<1> QED BY <1>7, <1>8, <1>9, <1>10, <1>11 DEF OnceInv

LEMMA OnceInit == Init => OnceInv
<1> SUFFICES ASSUME Init PROVE OnceInv
  OBVIOUS
<1> DEFINE pend == [k \in CorrKeys |-> <<>>]
           win == [op |-> None, from |-> 0]
<1>1. corr = Reg(pend, <<>>, win, <<>>)
  BY DEF Init, EmptyRegistry, Reg
<1>2. win.op = None /\ pend \in [CorrKeys -> Seq(Ops)] /\ \A k \in CorrKeys : pend[k] = <<>>
  OBVIOUS
<1> HIDE DEF pend, win
<1>3. corr.pending = pend /\ corr.order = <<>> /\ corr.window = win /\ corr.resolved = <<>>
  BY <1>1, RegFields
<1>4. \A op : ~InQueue(pend, op)
  BY <1>2 DEF InQueue
<1>5. Queues(pend, <<>>) /\ Apart(pend)
  <2>1. ASSUME NEW k \in CorrKeys PROVE Len(pend[k]) = Cardinality(At(<<>>, k))
    <3>1. At(<<>>, k) = {}
      BY DEF At
    <3>2. Cardinality(At(<<>>, k)) = 0
      BY <3>1, FS_EmptySet
    <3>3. Len(pend[k]) = 0
      BY <1>2
    <3> QED BY <3>2, <3>3
  <2> QED BY <2>1, <1>2 DEF Queues, Apart
<1>6. Pending(corr)
  BY <1>1, <1>3, <1>5, CapacityAssumption DEF Pending
<1>7. MemoInv(corr.resolved) /\ Range(corr.resolved) = {}
  <2>1. Range(<<>>) = {} /\ <<>> \in Seq(MemoEntry) /\ Len(<<>>) = 0
    BY DEF Range
  <2> QED BY <2>1, <1>3, CapacityAssumption DEF MemoInv
<1>8. \A c \in Clients : DOMAIN stamps[c] = {}
  BY DEF Init
<1>9. \A r \in Requests : OneStage(r)
  <2>1. \A r \in Requests : req[r].pc = "new"
    BY DEF Init, NoRequest
  <2>2. \A i, op : ~Consumed(corr.resolved, stamps, i, op)
    BY <1>7, <1>8 DEF Consumed
  <2> QED BY <2>1, <2>2, <1>3, <1>4 DEF OneStage
<1>10. WindowIsScan(corr.window) /\ AllRemembered(corr.resolved, stamps)
  BY <1>2, <1>3, <1>8 DEF WindowIsScan, AllRemembered
<1> QED BY <1>6, <1>7, <1>8, <1>9, <1>10 DEF OnceInv

\* Every step keeps each operation in one stage.
LEMMA OnceStep == KeyInv /\ ScanParts /\ OnceInv /\ [Next]_vars => OnceInv'
<1> SUFFICES ASSUME KeyInv, ScanParts, OnceInv, [Next]_vars PROVE OnceInv'
  OBVIOUS
<1> USE DEF Positions
<1>0. /\ KeyTypes /\ \A r \in Requests : r \in OpOrNone /\ req[r].op \in OpOrNone
      /\ gate \in OpOrNone /\ \A k \in IdemKeys : seen[k] \in OpOrNone
      /\ \A r \in Requests : OneStage(r)
  BY DEF KeyInv, KeyTypes, RequestState, OpOrNone, Ops, OnceInv
<1>1. CASE UNCHANGED vars
  BY <1>1, <1>0, OnceKept DEF vars, requestVars, OneStage
<1>2. ASSUME NEW r \in Requests, NEW k \in IdemKeys \cup {None}, NEW cmd \in Commands,
             Reserve(r, k, cmd)
      PROVE  OnceInv'
  <2>1. /\ req[r].pc = "new" /\ UNCHANGED <<corr, stamps>>
        /\ \/ Arrives(r, k, cmd, "reserved", None)
           \/ seen[k] \in OpOrNone /\ Arrives(r, k, cmd, "accepted", seen[k])
    BY <1>0, <1>2 DEF Reserve
  <2>2. req'[r].pc \in {"reserved", "accepted"} /\ \A s \in Requests : s # r => req'[s] = req[s]
    BY <2>1, <1>0, ArrivesFacts, SMTT(30) DEF OpOrNone
  <2> QED BY <2>1, <2>2, OnceMoved
<1>3. ASSUME NEW r \in Requests, BuildRefused(r) \/ Submit(r) \/ Rollback(r) \/ Rebind(r)
      PROVE  OnceInv'
  <2>1. /\ req[r].pc \in {"reserved", "rollback", "attached"} /\ UNCHANGED <<corr, stamps>>
        /\ \E pc \in {"rollback", "queued", "rejected", "accepted"} :
             Goto(r, pc) /\ (pc = "queued" => req[r].cmd # Scan)
    BY <1>3 DEF BuildRefused, Submit, Rollback, Rejected, Rebind, Attached
  <2>2. PICK pc \in {"rollback", "queued", "rejected", "accepted"} :
          Goto(r, pc) /\ (pc = "queued" => req[r].cmd # Scan)
    BY <2>1
  <2>3. Moved(r, pc, req[r].op)
    BY <2>2, <1>0, GotoFacts
  <2> QED BY <2>1, <2>2, <2>3, OnceMoved DEF Moved
<1>4. ASSUME NEW r \in Requests, RecordCorr(r) PROVE OnceInv'
  <2>1. /\ req[r].pc = "queued" /\ req[r].cmd # Scan /\ UNCHANGED stamps
        /\ corr' = IF req[r].cmd = None THEN corr ELSE Recorded(corr, req[r].cmd, r)
    BY <1>0, <1>4 DEF RecordCorr, OneStage
  <2>2. Moved(r, "accepted", r)
    BY <1>0, <1>4, AnswerFacts DEF RecordCorr, Answer
  <2>3. CASE req[r].cmd = None
    BY <2>1, <2>2, <2>3, OnceMoved DEF Moved
  <2>4. CASE req[r].cmd # None
    <3>1. req[r].cmd \in CorrKeys
      BY <2>1, <2>4, <1>0 DEF KeyTypes, RequestState, Commands, Keyed
    <3> QED BY <2>1, <2>2, <2>4, <3>1, OnceRecorded
  <2> QED BY <2>3, <2>4
<1>5. ASSUME NEW r \in Requests, BeginScan(r) PROVE OnceInv'
  <2>1. req[r].pc = "reserved" /\ req[r].cmd = Scan /\ UNCHANGED <<corr, stamps>>
    BY <1>5 DEF BeginScan
  <2>2. Moved(r, "window", req[r].op) \/ Moved(r, "attached", gate)
    BY <1>0, <1>5, GotoFacts, AnswerFacts DEF BeginScan
  <2> QED BY <2>1, <2>2, OnceMoved DEF Moved
<1>6. ASSUME NEW r \in Requests, OpenWindow(r) PROVE OnceInv'
  <2>1. /\ req[r].pc = "window" /\ UNCHANGED stamps
        /\ corr' = [corr EXCEPT !.window = [op |-> r, from |-> Len(events)]]
    BY <1>6 DEF OpenWindow
  <2>2. Moved(r, "accepted", r)
    BY <1>0, <1>6, AnswerFacts DEF OpenWindow, Answer
  <2> QED BY <2>1, <2>2, OnceOpened
<1>7. CASE PublishRow \/ EndScan \/ Drain \/ Apply
  <2>1. UNCHANGED <<req, corr, stamps>>
    BY <1>7 DEF PublishRow, EndScan, Drain, Apply, requestVars
  <2> QED BY <2>1, <1>0, OnceKept DEF OneStage
<1>8. ASSUME NEW c \in Clients, Connect(c) \/ Skip(c) PROVE OnceInv'
  <2>1. UNCHANGED <<req, corr, stamps>>
    BY <1>8 DEF Connect, Skip, Advance, requestVars
  <2> QED BY <2>1, <1>0, OnceKept DEF OneStage
<1>9. ASSUME NEW c \in Clients, Project(c) PROVE OnceInv'
  BY <1>9, OnceProjected
<1> QED BY <1>1, <1>2, <1>3, <1>4, <1>5, <1>6, <1>7, <1>8, <1>9 DEF Next

LEMMA OnceImplies == OnceInv => ConsumedOnce
<1> SUFFICES ASSUME OnceInv PROVE ConsumedOnce
  OBVIOUS
<1>1. OrderMatchesPending
  BY DEF OnceInv, OrderMatchesPending, Pending, MemoInv, Queues, At
<1>2. \A x \in Stamps : /\ Stamp(x) \in Requests /\ x[1] \in Clients
                        /\ x[2] \in DOMAIN stamps[x[1]] /\ Stamp(x) # None
                        /\ Consumed(corr.resolved, stamps, x[2], Stamp(x))
  BY DEF OnceInv, Stamps, Stamp, OpOrNone, Ops, Consumed
<1>3. StampedOnce
  <2> SUFFICES ASSUME NEW x \in Stamps, NEW y \in Stamps, Stamp(x) = Stamp(y), req[Stamp(x)].cmd # Scan
               PROVE  x[2] = y[2]
    BY DEF StampedOnce
  <2>1. OneStage(Stamp(x))
    BY <1>2 DEF OnceInv
  <2>2. Consumed(corr.resolved, stamps, x[2], Stamp(x)) /\ Consumed(corr.resolved, stamps, y[2], Stamp(x))
    BY <1>2
  <2> QED BY <2>1, <2>2 DEF OneStage
<1>4. StampsAgree
  <2> SUFFICES ASSUME Len(corr.resolved) < CorrCapacity,
                      NEW x \in Stamps, NEW y \in Stamps, x[2] = y[2]
               PROVE  Stamp(x) = Stamp(y)
    BY DEF StampsAgree
  <2>1. PICK e \in Range(corr.resolved) : e.seq = x[2] /\ e.op = Stamp(x)
    BY <1>2 DEF OnceInv, AllRemembered, Stamp
  <2>2. PICK f \in Range(corr.resolved) : f.seq = y[2] /\ f.op = Stamp(y)
    BY <1>2 DEF OnceInv, AllRemembered, Stamp
  <2>3. e = f
    BY <2>1, <2>2 DEF OnceInv, MemoInv
  <2> QED BY <2>1, <2>2, <2>3
<1> QED BY <1>1, <1>3, <1>4 DEF ConsumedOnce

\* A correlation is consumed by one event: the registry's two structures agree
\* within its capacity, a command's operation is stamped on one event however
\* many clients project it, and clients agree until a memo entry is evicted
\* (CorrRegistry::record and resolve).
THEOREM CorrelationsConsumedOnce == Spec => []ConsumedOnce
<1>1. Init => KeyInv /\ ScanParts /\ OnceInv
  BY KeyInit, ScanInit, OnceInit
<1>2. KeyInv /\ ScanParts /\ OnceInv /\ [Next]_vars => KeyInv' /\ ScanParts' /\ OnceInv'
  BY KeyStep, ScanStep, OnceStep
<1>3. OnceInv => ConsumedOnce
  BY OnceImplies
<1> QED BY <1>1, <1>2, <1>3, PTL DEF Spec
-----------------------------------------------------------------------------
(* Types and bounds *)

\* The bounded queues and counters, and how far the clients have read.
SizeInv ==
  /\ Len(bus) <= BusCapacity /\ Len(batch) <= BusCapacity
  /\ corr.window.from \in 0 .. Len(events) /\ rows \in 0 .. MaxRows
  /\ client \in [Clients -> 0 .. Len(events) + 1]
  /\ \A c \in Clients : DOMAIN stamps[c] \subseteq 1 .. client[c] - 1

\* A step of a request, the engine or the scan, in which no client reads.
LEMMA SizeKept ==
  ASSUME SizeInv, ScanParts, Len(bus') <= BusCapacity, Len(batch') <= BusCapacity,
         rows' \in 0 .. MaxRows, UNCHANGED <<client, stamps>>,
         Len(events') \in {Len(events), Len(events) + 1},
         corr'.window = corr.window \/ corr'.window.from = Len(events)
  PROVE  SizeInv'
<1>1. Len(events) \in Nat
  BY DEF ScanParts, QueueTypes
<1>2. corr'.window.from \in 0 .. Len(events')
  BY <1>1 DEF SizeInv
<1>3. client' \in [Clients -> 0 .. Len(events') + 1]
  BY <1>1 DEF SizeInv
<1> QED BY <1>2, <1>3 DEF SizeInv

LEMMA SizeInit == Init => SizeInv
<1> SUFFICES ASSUME Init PROVE SizeInv
  OBVIOUS
<1>1. corr.window.from = 0
  BY DEF Init, EmptyRegistry
<1> QED BY <1>1, CapacityAssumption DEF Init, SizeInv

\* A client reads the next event.
LEMMA SizeAdvanced ==
  ASSUME SizeInv, ScanParts, NEW c \in Clients, Advance(c), corr'.window = corr.window,
         \A d \in Clients : d # c => stamps'[d] = stamps[d],
         DOMAIN stamps'[c] \subseteq DOMAIN stamps[c] \cup {client[c]}
  PROVE  SizeInv'
<1>1. /\ Len(events) \in Nat /\ client[c] \in 1 .. Len(events) /\ UNCHANGED <<bus, batch, events, rows>>
      /\ client' = [client EXCEPT ![c] = client[c] + 1]
  BY DEF ScanParts, QueueTypes, Advance, requestVars
<1>2. /\ client' \in [Clients -> 0 .. Len(events) + 1] /\ client'[c] = client[c] + 1
      /\ \A d \in Clients : d # c => client'[d] = client[d]
  BY <1>1 DEF SizeInv
<1>3. ASSUME NEW d \in Clients PROVE DOMAIN stamps'[d] \subseteq 1 .. client'[d] - 1
  <2>1. CASE d = c
    <3>1. DOMAIN stamps[c] \subseteq 1 .. client[c] - 1
      BY DEF SizeInv
    <3>2. client'[c] - 1 = client[c] /\ client[c] \in Nat \ {0}
      BY <1>1, <1>2
    <3>3. \A j \in 1 .. client[c] - 1 : j \in 1 .. client[c]
      BY <3>2
    <3> QED BY <2>1, <3>1, <3>2, <3>3
  <2>2. CASE d # c
    BY <2>2, <1>2 DEF SizeInv
  <2> QED BY <2>1, <2>2
<1> QED BY <1>1, <1>2, <1>3 DEF SizeInv

\* Every step keeps the bounds.
LEMMA SizeStep == KeyInv /\ ScanParts /\ SizeInv /\ [Next]_vars => SizeInv'
<1> SUFFICES ASSUME KeyInv, ScanParts, SizeInv, [Next]_vars PROVE SizeInv'
  OBVIOUS
<1>0. /\ QueueTypes /\ Registry(corr) /\ StampInv /\ Len(events) \in Nat
      /\ Len(bus) <= BusCapacity /\ Len(batch) <= BusCapacity /\ rows \in 0 .. MaxRows
      /\ BusCapacity \in Nat \ {0} /\ MaxRows \in Nat
  BY CapacityAssumption DEF ScanParts, QueueTypes, SizeInv
<1>1. CASE UNCHANGED vars
  BY <1>1, <1>0, SizeKept DEF vars, requestVars
<1>2. ASSUME NEW r \in Requests, NEW k \in IdemKeys \cup {None}, NEW cmd \in Commands,
             Reserve(r, k, cmd)
      PROVE  SizeInv'
  <2>1. UNCHANGED <<bus, batch, events, corr, rows, client, stamps>>
    BY <1>2 DEF Reserve
  <2> QED BY <2>1, <1>0, SizeKept
<1>3. ASSUME NEW r \in Requests, BuildRefused(r) \/ Rollback(r) \/ Rebind(r) PROVE SizeInv'
  <2>1. UNCHANGED <<bus, batch, events, corr, rows, client, stamps>>
    BY <1>3 DEF BuildRefused, Rollback, Rejected, Rebind, Attached
  <2> QED BY <2>1, <1>0, SizeKept
<1>4. ASSUME NEW r \in Requests, Submit(r) PROVE SizeInv'
  <2>1. /\ UNCHANGED <<batch, events, corr, rows, client, stamps>>
        /\ bus' = bus \/ (Len(bus) < BusCapacity /\ bus' = Append(bus, r))
    BY <1>4 DEF Submit
  <2>2. Len(bus') <= BusCapacity
    BY <2>1, <1>0 DEF QueueTypes
  <2> QED BY <2>1, <2>2, <1>0, SizeKept
<1>5. ASSUME NEW r \in Requests, RecordCorr(r) PROVE SizeInv'
  <2>1. /\ UNCHANGED <<bus, batch, events, rows, client, stamps>>
        /\ corr' = corr \/ corr' = Recorded(corr, req[r].cmd, r)
    BY <1>5 DEF RecordCorr
  <2>2. corr'.window = corr.window
    BY <2>1, <1>0, RecordedKeeps
  <2> QED BY <2>1, <2>2, <1>0, SizeKept
<1>6. ASSUME NEW r \in Requests, BeginScan(r) PROVE SizeInv'
  <2>1. UNCHANGED <<bus, batch, events, corr, client, stamps>> /\ rows' \in {0, rows}
    BY <1>6 DEF BeginScan
  <2>2. rows' \in 0 .. MaxRows
    BY <2>1, <1>0
  <2> QED BY <2>1, <2>2, <1>0, SizeKept
<1>7. ASSUME NEW r \in Requests, OpenWindow(r) PROVE SizeInv'
  <2> DEFINE win == [op |-> r, from |-> Len(events)]
  <2>1. /\ UNCHANGED <<bus, batch, events, rows, client, stamps>>
        /\ corr' = [corr EXCEPT !.window = win]
    BY <1>7 DEF OpenWindow
  <2>2. win.from = Len(events)
    OBVIOUS
  <2> HIDE DEF win
  <2>3. corr'.window = win
    BY <2>1, <1>0 DEF Registry
  <2>4. corr'.window.from = Len(events)
    BY ONLY <2>2, <2>3
  <2> QED BY <2>1, <2>4, <1>0, SizeKept
<1>8. CASE PublishRow
  <2>1. UNCHANGED <<bus, batch, corr, client, stamps>> /\ rows < MaxRows /\ rows' = rows + 1
    BY <1>8 DEF PublishRow
  <2>2. \E e : events' = Append(events, e)
    BY <1>8 DEF PublishRow, Publish
  <2>3. Len(events') = Len(events) + 1 /\ rows' \in 0 .. MaxRows
    BY <2>1, <2>2, <1>0 DEF QueueTypes
  <2> QED BY <2>1, <2>3, <1>0, SizeKept
<1>9. CASE EndScan
  <2>1. UNCHANGED <<bus, batch, events, corr, rows, client, stamps>>
    BY <1>9 DEF EndScan
  <2> QED BY <2>1, <1>0, SizeKept
<1>10. CASE Drain
  <2>1. UNCHANGED <<events, corr, rows, client, stamps>> /\ bus' = <<>> /\ batch' = bus
    BY <1>10 DEF Drain, requestVars
  <2>2. Len(bus') <= BusCapacity /\ Len(batch') <= BusCapacity
    BY <2>1, <1>0
  <2> QED BY <2>1, <2>2, <1>0, SizeKept
<1>11. CASE Apply
  <2>1. /\ UNCHANGED <<bus, corr, rows, client, stamps>> /\ batch # <<>> /\ batch' = Tail(batch)
        /\ events' = events \/ \E e : events' = Append(events, e)
    BY <1>11 DEF Apply, Publish, requestVars
  <2>2. Len(batch') <= BusCapacity
    BY <2>1, <1>0 DEF QueueTypes
  <2>3. Len(events') \in {Len(events), Len(events) + 1}
    BY <2>1, <1>0 DEF QueueTypes
  <2> QED BY <2>1, <2>2, <2>3, <1>0, SizeKept
<1>12. ASSUME NEW c \in Clients, Connect(c) PROVE SizeInv'
  <2>1. /\ UNCHANGED <<bus, batch, events, corr, rows, stamps>> /\ client[c] = 0
        /\ client' = [client EXCEPT ![c] = Len(events) + 1]
    BY <1>12 DEF Connect, requestVars
  <2>2. client' \in [Clients -> 0 .. Len(events) + 1]
    BY <2>1, <1>0 DEF SizeInv
  <2>3. ASSUME NEW d \in Clients PROVE DOMAIN stamps[d] \subseteq 1 .. client'[d] - 1
    <3>1. DOMAIN stamps[d] \subseteq 1 .. client[d] - 1 /\ client[d] \in Nat
      BY <1>0 DEF SizeInv
    <3>2. client'[d] \in Nat /\ client[d] <= client'[d]
      BY <2>1, <3>1, <1>0 DEF SizeInv
    <3>3. \A j \in 1 .. client[d] - 1 : j \in 1 .. client'[d] - 1
      BY <3>1, <3>2
    <3> QED BY <3>1, <3>3
  <2> QED BY <2>1, <2>2, <2>3 DEF SizeInv
<1>13. ASSUME NEW c \in Clients, Skip(c) PROVE SizeInv'
  BY <1>13, SizeAdvanced DEF Skip
<1>14. ASSUME NEW c \in Clients, Project(c) PROVE SizeInv'
  <2> DEFINE i == client[c]
             new == [j \in DOMAIN stamps[c] \cup {i} |->
                       IF j = i THEN ResolvedOp(corr, events[i].key, i) ELSE stamps[c][j]]
  <2>1. /\ Advance(c) /\ i \in 1 .. Len(events) /\ stamps' = [stamps EXCEPT ![c] = new]
        /\ corr' = Resolved(corr, events[i].key, i)
    BY <1>14 DEF Project, Advance
  <2>2. corr'.window = corr.window
    BY <2>1, <1>0, ResolvedKeeps
  <2>3. DOMAIN new = DOMAIN stamps[c] \cup {i}
    OBVIOUS
  <2> HIDE DEF new
  <2>4. stamps'[c] = new /\ \A d \in Clients : d # c => stamps'[d] = stamps[d]
    BY <2>1, <1>0 DEF StampInv
  <2> QED BY <2>1, <2>2, <2>3, <2>4, SizeAdvanced
<1> QED BY <1>1, <1>2, <1>3, <1>4, <1>5, <1>6, <1>7, <1>8, <1>9, <1>10, <1>11, <1>12, <1>13, <1>14
        DEF Next

\* Every variable has its type and the bus, the batch and the registry keep
\* within their capacities (CommandBus, CorrRegistry).
THEOREM CommandTypeCorrect == Spec => []TypeOK
<1>1. Init => KeyInv /\ ScanParts /\ OnceInv /\ SizeInv
  BY KeyInit, ScanInit, OnceInit, SizeInit
<1>2. /\ KeyInv /\ ScanParts /\ OnceInv /\ SizeInv /\ [Next]_vars
      => KeyInv' /\ ScanParts' /\ OnceInv' /\ SizeInv'
  BY KeyStep, ScanStep, OnceStep, SizeStep
<1>3. KeyInv /\ ScanParts /\ OnceInv /\ SizeInv => TypeOK
  <2> SUFFICES ASSUME KeyInv, ScanParts, OnceInv, SizeInv PROVE TypeOK
    OBVIOUS
  <2>1. corr.window.op \in OpOrNone
    BY DEF OnceInv, WindowIsScan, OpOrNone, Ops
  <2>2. corr.pending \in [CorrKeys -> Seq(Ops)] /\ corr.order \in Seq(CorrKeys)
    BY DEF OnceInv, Pending, Queues
  <2>3. /\ req \in [Requests -> [pc : Positions, key : IdemKeys \cup {None},
                                 cmd : Commands, op : OpOrNone]]
        /\ seen \in [IdemKeys -> OpOrNone] /\ gate \in OpOrNone /\ ran \subseteq Ops
    BY DEF KeyInv, KeyTypes, RequestState, Ops
  <2>4. bus \in Seq(Ops) /\ batch \in Seq(Ops) /\ events \in Seq([key : Keyed, cause : Ops])
    BY DEF ScanParts, QueueTypes, Event
  <2>5. \A c \in Clients : \A i \in DOMAIN stamps[c] : stamps[c][i] \in OpOrNone
    BY DEF OnceInv
  <2> QED BY <2>1, <2>2, <2>3, <2>4, <2>5 DEF SizeInv, TypeOK
<1> QED BY <1>1, <1>2, <1>3, PTL DEF Spec

=============================================================================
