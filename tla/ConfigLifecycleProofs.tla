------------------------ MODULE ConfigLifecycleProofs ------------------------
(***************************************************************************)
(* Proofs about ConfigLifecycle, for every set of sources and documents,   *)
(* every bus capacity and every bound: the adopted snapshot is what the    *)
(* engine runs once the bus is drained, a shutdown leaves it in            *)
(* active.toml if it validates, every variable stays in its type and its   *)
(* bound, and what the server itself writes to the config file is not      *)
(* applied as a change, unless the write landed while a poll held a text   *)
(* it had read before.                                                     *)
(***************************************************************************)
EXTENDS ConfigLifecycle, SequenceTheorems, WellFoundedInduction, TLAPS

-----------------------------------------------------------------------------
(* The adopted snapshot and the bus *)

AdoptedTypes ==
  /\ engine \in Doc /\ adopted \in Doc
  /\ active \in ValidDoc \cup {None}
  /\ \A w \in writes : w.doc \in ValidDoc
  /\ bus \in Seq(Commands)

AdoptedInv == AdoptedTypes /\ AdoptedIsRunning

\* A document that validates is one (MultiviewConfig::validate).
LEMMA ValidIsDoc == ValidDoc \subseteq Doc
  BY DEF ValidDoc

\* A command turns a document into a document (upsert_source, remove_source).
LEMMA EffectIsDoc ==
  ASSUME NEW doc \in Doc, NEW cmd \in Commands
  PROVE  /\ Effect(doc, cmd) \in Doc
         /\ Effect(doc, cmd)[cmd.id] = cmd.body
         /\ \A i \in Ids : i # cmd.id => Effect(doc, cmd)[i] = doc[i]
  BY DEF Effect, Doc, Bodies, Commands

\* What a handler submits is a command (live_apply_upsert).
LEMMA CommandIs ==
  ASSUME NEW i \in Ids, NEW body
  PROVE  Command(i, body) \in Commands /\ Command(i, body).id = i
  BY DEF Command, Commands

\* A submit adopts exactly what it queued (CommandSender::try_submit).
LEMMA SubmitStep ==
  ASSUME AdoptedInv, NEW i \in Ids, NEW body, Submit(i, body),
         UNCHANGED <<engine, active, writes>>
  PROVE  AdoptedInv'
<1> DEFINE cmd == Command(i, body)
<1>0. cmd \in Commands /\ cmd.id = i
  BY CommandIs
<1>1. CASE ~HasRoom
  BY <1>1 DEF AdoptedInv, AdoptedTypes, AdoptedIsRunning, LastFor, Submit
<1>2. CASE HasRoom
  <2> HIDE DEF cmd
  <2>1. bus' = Append(bus, cmd) /\ adopted' = Effect(adopted, cmd)
    BY <1>2 DEF Submit, cmd
  <2>2. /\ bus \in Seq(Commands) /\ adopted \in Doc
    BY DEF AdoptedInv, AdoptedTypes
  <2>3. /\ bus' \in Seq(Commands) /\ Len(bus') = Len(bus) + 1
        /\ \A k \in DOMAIN bus : k \in DOMAIN bus' /\ bus'[k] = bus[k]
        /\ Len(bus') \in DOMAIN bus' /\ bus'[Len(bus')] = cmd
        /\ \A k \in DOMAIN bus' : k = Len(bus') \/ k \in DOMAIN bus
    BY <1>0, <2>1, <2>2
  <2>4. /\ adopted' \in Doc /\ adopted'[i] = cmd.body
        /\ \A j \in Ids : j # i => adopted'[j] = adopted[j]
    BY <1>0, <2>1, <2>2, EffectIsDoc
  <2>5. \A k \in DOMAIN bus' : bus'[k].id \in Ids
    <3>1. ASSUME NEW k \in DOMAIN bus' PROVE bus'[k] \in Commands
      BY <2>3
    <3> QED BY <3>1 DEF Commands
  <2>6. ASSUME NEW k \in DOMAIN bus', LastFor(k)'
        PROVE  adopted'[bus'[k].id] = bus'[k].body
    <3>1. CASE k = Len(bus')
      BY <3>1, <2>3, <2>4, <1>0
    <3>2. CASE k # Len(bus')
      <4>1. k \in DOMAIN bus /\ bus'[k] = bus[k]
        BY <3>2, <2>3
      <4>2. bus[k].id # i
        <5>1. \A l \in DOMAIN bus' : bus'[l].id = bus'[k].id => l <= k
          BY <2>6 DEF LastFor
        <5>2. k < Len(bus')
          BY <4>1, <2>2, <2>3
        <5>3. bus'[Len(bus')].id # bus'[k].id
          BY <5>1, <5>2, <2>2, <2>3
        <5> QED BY <5>3, <4>1, <2>3, <1>0
      <4>3. LastFor(k)
        BY <4>1, <2>3, <2>6 DEF LastFor
      <4>4. adopted[bus[k].id] = bus[k].body
        BY <4>1, <4>3 DEF AdoptedInv, AdoptedIsRunning
      <4>5. adopted'[bus[k].id] = adopted[bus[k].id]
        BY <4>1, <4>2, <2>4, <2>5
      <4> QED BY <4>1, <4>4, <4>5
    <3> QED BY <3>1, <3>2
  <2>7. ASSUME NEW j \in Ids, \A k \in DOMAIN bus' : bus'[k].id # j
        PROVE  adopted'[j] = engine'[j]
    <3>1. j # i
      BY <2>3, <2>7, <1>0
    <3>2. \A k \in DOMAIN bus : bus[k].id # j
      BY <2>3, <2>7
    <3>3. adopted[j] = engine[j]
      BY <3>2 DEF AdoptedInv, AdoptedIsRunning
    <3> QED BY <3>1, <3>3, <2>4
  <2>8. AdoptedIsRunning'
    BY <2>6, <2>7 DEF AdoptedIsRunning
  <2> QED BY <2>3, <2>4, <2>8 DEF AdoptedInv, AdoptedTypes
<1> QED BY <1>1, <1>2

\* The drain of one command brings the engine one step closer to what was
\* adopted.
LEMMA DrainStep ==
  ASSUME AdoptedInv, EngineDrain
  PROVE  AdoptedInv'
<1> DEFINE cmd == Head(bus)
<1>1. /\ bus \in Seq(Commands) /\ bus # <<>> /\ engine \in Doc /\ adopted \in Doc
      /\ bus' = Tail(bus) /\ engine' = Effect(engine, cmd)
      /\ adopted' = adopted /\ active' = active /\ writes' = writes
  BY DEF AdoptedInv, AdoptedTypes, EngineDrain, planeVars, persistVars
<1>2. /\ bus' \in Seq(Commands) /\ Len(bus') = Len(bus) - 1
      /\ \A k \in DOMAIN bus' : k + 1 \in DOMAIN bus /\ bus'[k] = bus[k + 1]
      /\ \A k \in DOMAIN bus : k = 1 \/ k - 1 \in DOMAIN bus'
      /\ 1 \in DOMAIN bus /\ bus[1] = cmd /\ cmd \in Commands
  BY <1>1
<1>3. DOMAIN bus \subseteq Nat /\ DOMAIN bus' \subseteq Nat
  BY <1>1, <1>2
<1> HIDE DEF cmd
<1>4. /\ engine' \in Doc /\ engine'[cmd.id] = cmd.body
      /\ \A j \in Ids : j # cmd.id => engine'[j] = engine[j]
  BY <1>1, <1>2, EffectIsDoc
<1>5. ASSUME NEW k \in DOMAIN bus', LastFor(k)'
      PROVE  adopted'[bus'[k].id] = bus'[k].body
  <2>1. k + 1 \in DOMAIN bus /\ bus'[k] = bus[k + 1]
    BY <1>2
  <2>2. LastFor(k + 1)
    <3> SUFFICES ASSUME NEW l \in DOMAIN bus, bus[l].id = bus[k + 1].id
                 PROVE  l <= k + 1
      BY DEF LastFor
    <3>1. CASE l = 1
      BY <3>1, <1>3
    <3>2. CASE l # 1
      <4>1. l - 1 \in DOMAIN bus' /\ bus'[l - 1] = bus[(l - 1) + 1]
        BY <3>2, <1>2
      <4>2. l - 1 <= k
        BY <4>1, <2>1, <1>3, <1>5 DEF LastFor
      <4> QED BY <4>2, <1>3
    <3> QED BY <3>1, <3>2
  <2>3. adopted[bus[k + 1].id] = bus[k + 1].body
    BY <2>1, <2>2 DEF AdoptedInv, AdoptedIsRunning
  <2> QED BY <2>1, <2>3, <1>1
<1>6. ASSUME NEW j \in Ids, \A k \in DOMAIN bus' : bus'[k].id # j
      PROVE  adopted'[j] = engine'[j]
  <2>1. \A l \in DOMAIN bus : l # 1 => bus[l].id # j
    <3> SUFFICES ASSUME NEW l \in DOMAIN bus, l # 1 PROVE bus[l].id # j
      OBVIOUS
    <3>1. l - 1 \in DOMAIN bus' /\ bus'[l - 1] = bus[(l - 1) + 1]
      BY <1>2
    <3>2. (l - 1) + 1 = l
      BY <1>3
    <3> QED BY <3>1, <3>2, <1>6
  <2>2. CASE cmd.id = j
    <3>1. LastFor(1)
      BY <2>1, <2>2, <1>2, <1>3 DEF LastFor
    <3>2. adopted[j] = cmd.body
      BY <3>1, <2>2, <1>2 DEF AdoptedInv, AdoptedIsRunning
    <3> QED BY <3>2, <2>2, <1>4, <1>1
  <2>3. CASE cmd.id # j
    <3>1. \A l \in DOMAIN bus : bus[l].id # j
      BY <2>1, <2>3, <1>2
    <3>2. adopted[j] = engine[j]
      BY <3>1 DEF AdoptedInv, AdoptedIsRunning
    <3> QED BY <3>2, <2>3, <1>4, <1>1
  <2> QED BY <2>2, <2>3
<1>7. AdoptedIsRunning'
  BY <1>5, <1>6 DEF AdoptedIsRunning
<1> QED BY <1>1, <1>2, <1>4, <1>7 DEF AdoptedInv, AdoptedTypes

\* A run starts with an empty bus and everything in step (resolve_start_config).
LEMMA AdoptedSeed ==
  ASSUME NEW running \in Doc, NEW text, AdoptedTypes, Seed(running, text)
  PROVE  AdoptedInv'
<1>1. /\ engine' = running /\ adopted' = running /\ bus' = <<>> /\ writes' = {}
      /\ active' = active
  BY DEF Seed
<1>2. bus' \in Seq(Commands) /\ DOMAIN bus' = {}
  BY <1>1
<1>3. AdoptedIsRunning'
  BY <1>1, <1>2 DEF AdoptedIsRunning
<1> QED BY <1>1, <1>2, <1>3 DEF AdoptedInv, AdoptedTypes

\* A step that touches neither the bus, the engine nor the snapshot.
LEMMA AdoptedQuiet ==
  ASSUME AdoptedInv, UNCHANGED <<bus, engine, adopted>>,
         active' \in ValidDoc \cup {None}, \A w \in writes' : w.doc \in ValidDoc
  PROVE  AdoptedInv'
  BY DEF AdoptedInv, AdoptedTypes, AdoptedIsRunning, LastFor

\* Every handler keeps the snapshot in step with the engine.
LEMMA AdoptedStep == AdoptedInv /\ [Next]_vars => AdoptedInv'
<1> SUFFICES ASSUME AdoptedInv, [Next]_vars PROVE AdoptedInv'
  OBVIOUS
<1>0. AdoptedTypes
  BY DEF AdoptedInv
<1>1. ASSUME UNCHANGED <<bus, engine, adopted, active, writes>> PROVE AdoptedInv'
  BY <1>0, <1>1, AdoptedQuiet DEF AdoptedTypes
<1>2. CASE \E text \in EditorDocs \cup {Malformed, Unreadable} : OperatorWrites(text)
  BY <1>1, <1>2 DEF OperatorWrites, Edit, planeVars, engineVars, persistVars
<1>3. CASE OperatorSwaps
  BY <1>1, <1>3 DEF OperatorSwaps, Edit, planeVars, engineVars, persistVars
<1>4. CASE Watch
  <2>1. UNCHANGED <<planeVars, engineVars, persistVars>>
    BY <1>4 DEF Watch, PollMissing, PollApplied, PollRejected, PollCandidate, PollUnreadable,
                PollSettled, PollExpected, PollUnexpected, PollObserved, PollChanged, Probe, Poll
  <2> QED BY <1>1, <2>1 DEF planeVars, engineVars, persistVars
<1>5. CASE WatchResync
  BY <1>1, <1>5 DEF WatchResync, engineVars, persistVars
<1>6. CASE WatchBegin
  BY <1>1, <1>6 DEF WatchBegin, engineVars, persistVars
<1>7. CASE WatchEnd
  BY <1>1, <1>7 DEF WatchEnd, engineVars, persistVars
<1>8. CASE \E i \in Ids : ApplyChange(i) \/ RestDelete(i)
  <2>1. PICK i \in Ids : ApplyChange(i) \/ RestDelete(i)
    BY <1>8
  <2>2. UNCHANGED <<engine, active, writes>>
    BY <2>1 DEF ApplyChange, RestDelete, persistVars
  <2>3. (\E body : Submit(i, body)) \/ UNCHANGED <<bus, adopted>>
    BY <2>1 DEF ApplyChange, RestDelete
  <2> QED BY <1>1, <2>2, <2>3, SubmitStep
<1>9. CASE \E i \in Ids, body \in Synthetic \cup Decoded : RestPut(i, body)
  <2>1. PICK i \in Ids, body \in Synthetic \cup Decoded : RestPut(i, body)
    BY <1>9
  <2>2. UNCHANGED <<engine, active, writes>>
    BY <2>1 DEF RestPut, persistVars
  <2>3. Submit(i, body) \/ UNCHANGED <<bus, adopted>>
    BY <2>1 DEF RestPut
  <2> QED BY <1>1, <2>2, <2>3, SubmitStep
<1>10. CASE RevertBegin \/ RevertEnd
  BY <1>1, <1>10 DEF RevertBegin, RevertEnd, engineVars, persistVars
<1>11. CASE PromoteBegin \/ PromoteWrites \/ PromoteFails \/ PromoteEnd
  BY <1>1, <1>11 DEF PromoteBegin, PromoteWrites, PromoteFails, PromoteEnd, engineVars,
                     persistVars
<1>12. CASE PersistWakes
  BY <1>1, <1>12 DEF PersistWakes, planeVars, engineVars
<1>13. CASE PersistComposes
  <2>1. /\ UNCHANGED <<bus, engine, adopted, active>>
        /\ writes' = writes \cup {[doc |-> adopted, ticket |-> Ticket]}
        /\ adopted \in ValidDoc
    BY <1>13 DEF PersistComposes, engineVars
  <2>2. \A w \in writes' : w.doc \in ValidDoc
    BY <2>1, <1>0 DEF AdoptedTypes
  <2> QED BY <2>1, <2>2, <1>0, AdoptedQuiet DEF AdoptedTypes
<1>14. CASE \E w \in writes : WriteLands(w)
  <2>1. PICK w \in writes : WriteLands(w)
    BY <1>14
  <2>2. /\ UNCHANGED <<bus, engine, adopted>> /\ writes' = writes \ {w}
        /\ active' = active \/ active' = w.doc
    BY <2>1 DEF WriteLands, engineVars
  <2> QED BY <2>2, <1>0, AdoptedQuiet DEF AdoptedTypes
<1>15. CASE EngineDrain
  BY <1>15, DrainStep
<1>16. CASE Stop
  BY <1>1, <1>16 DEF Stop, engineVars
<1>17. CASE Crash
  BY <1>0, <1>17, AdoptedSeed, LifecycleAssumption, ValidIsDoc DEF Crash
<1>18. CASE Restart
  <2> DEFINE running == IF Resume /\ active # None THEN active ELSE file.text
  <2>1. running \in Doc /\ Seed(running, file.text)
    BY <1>18, <1>0, ValidIsDoc DEF Restart, AdoptedTypes
  <2> HIDE DEF running
  <2> QED BY <2>1, <1>0, AdoptedSeed
<1>19. CASE PersistRefused
  BY <1>1, <1>19 DEF PersistRefused, planeVars, engineVars
<1>20. CASE UNCHANGED vars
  BY <1>1, <1>20 DEF vars, planeVars, engineVars, persistVars
<1> QED BY <1>2, <1>3, <1>4, <1>5, <1>6, <1>7, <1>8, <1>9, <1>10, <1>11, <1>12, <1>13, <1>14,
           <1>15, <1>16, <1>17, <1>18, <1>19, <1>20 DEF Next

\* A fresh node runs what it booted from (BootModel::new).
LEMMA AdoptedInit == Init => AdoptedInv
<1> SUFFICES ASSUME Init PROVE AdoptedInv
  OBVIOUS
<1>1. bus \in Seq(Commands) /\ DOMAIN bus = {}
  BY DEF Init
<1> QED BY <1>1, LifecycleAssumption, ValidIsDoc
        DEF Init, AdoptedInv, AdoptedTypes, AdoptedIsRunning

\* The adopted snapshot is what the engine runs once it has drained the bus,
\* whatever the watcher, the routes and restarts interleave, and however
\* often a command is shed (AdoptedIsRunning).
THEOREM AdoptedMatchesEngine == Spec => []AdoptedIsRunning
<1>1. AdoptedInv => AdoptedIsRunning
  BY DEF AdoptedInv
<1> QED BY <1>1, AdoptedInit, AdoptedStep, PTL DEF Spec

-----------------------------------------------------------------------------
(* The persister and the shutdown *)

\* The writes under way at each stage of the persister: at most the one it
\* awaits, and at a shutdown the one of the aborted task beside the final,
\* which is not begun when the adopted document does not validate.
Write(d, t) == [doc |-> d, ticket |-> t]

Quiescent == writes = {} /\ written = 0
OneUnderWay == \E d \in Doc : writes = {Write(d, 1)} /\ written = 0
FinalUnderWay ==
  \/ writes = {Write(adopted, 1)} /\ written = 0
  \/ \E d \in Doc : writes = {Write(d, 1), Write(adopted, 2)} /\ written = 0
  \/ writes = {Write(adopted, 2)} /\ written = 1
FinalLanded ==
  /\ active = adopted
  /\ Quiescent \/ \E d \in Doc : writes = {Write(d, 1)} /\ written = 2
FinalRefused == adopted \notin ValidDoc /\ (Quiescent \/ OneUnderWay)

StageInv ==
  /\ persister \in {"due", "idle"} => Quiescent
  /\ persister = "write" => OneUnderWay
  /\ persister = "final" => Quiescent \/ OneUnderWay
  /\ persister = "last"  => FinalUnderWay
  /\ persister = "gone"  => FinalLanded \/ FinalRefused

PhaseInv ==
  /\ phase = "up"       => persister \in {"due", "idle", "write"}
  /\ phase = "stopping" => persister \in {"final", "last"}
  /\ phase = "stopped"  => persister = "gone"
  /\ phase = "down"     => persister = "due"
  /\ phase \in {"up", "stopping", "stopped", "down"}

LockInv ==
  /\ lock = "persist" <=> persister \in {"write", "last"}
  /\ promote.pc \in {"write", "sync"} => lock = "promote"

PersistInv == AdoptedTypes /\ StageInv /\ PhaseInv /\ LockInv

\* A step of another task: it may adopt only while the engine is up, and
\* takes or gives back the lock only when the persister does not hold it.
LEMMA PersistQuiet ==
  ASSUME PersistInv, AdoptedTypes',
         UNCHANGED <<persister, writes, written, active, phase>>,
         phase # "up" => adopted' = adopted,
         lock' # lock => lock # "persist" /\ lock' # "persist",
         promote'.pc \in {"write", "sync"} => lock' = "promote"
  PROVE  PersistInv'
<1>1. StageInv'
  <2>1. persister \in {"last", "gone"} => adopted' = adopted
    BY DEF PersistInv, PhaseInv
  <2> QED BY <2>1 DEF PersistInv, StageInv, Quiescent, OneUnderWay, FinalUnderWay, FinalLanded,
                      FinalRefused, Write
<1>2. PhaseInv' /\ LockInv'
  BY DEF PersistInv, PhaseInv, LockInv
<1> QED BY <1>1, <1>2 DEF PersistInv

\* The ticket of the next write is above what is under way (next_write_ticket).
LEMMA NextTicket ==
  /\ Quiescent => Ticket = 1
  /\ OneUnderWay => Ticket = 2
<1>1. CASE Quiescent
  <2>1. {written} \cup {w.ticket : w \in writes} = {0}
    BY <1>1 DEF Quiescent
  <2>2. Max({0}) = 0
    BY DEF Max
  <2> QED BY <1>1, <2>1, <2>2 DEF Ticket, Quiescent, OneUnderWay
<1>2. CASE OneUnderWay
  <2>1. {written} \cup {w.ticket : w \in writes} = {0, 1}
    BY <1>2 DEF OneUnderWay, Write
  <2>2. Max({0, 1}) = 1
    BY DEF Max
  <2> QED BY <1>2, <2>1, <2>2 DEF Ticket, Quiescent, OneUnderWay
<1> QED BY <1>1, <1>2

\* Composing under the lock: the write carries the snapshot and the highest
\* ticket (persist_running_now).
LEMMA ComposeStep ==
  ASSUME PersistInv, AdoptedTypes', PersistComposes
  PROVE  PersistInv'
<1>1. /\ persister \in {"due", "final"} /\ lock = None /\ lock' = "persist"
      /\ writes' = writes \cup {Write(adopted, Ticket)}
      /\ persister' = IF persister = "due" THEN "write" ELSE "last"
      /\ UNCHANGED <<adopted, written, phase, promote>> /\ adopted \in Doc
      /\ phase # "down"
  BY DEF PersistComposes, Persist, Serving, Write, PersistInv, AdoptedTypes
<1>2. StageInv'
  <2>1. CASE Quiescent
    BY <1>1, <2>1, NextTicket DEF StageInv, Quiescent, OneUnderWay, FinalUnderWay
  <2>2. CASE OneUnderWay
    <3>1. persister = "final"
      BY <1>1, <2>2 DEF PersistInv, StageInv, Quiescent, OneUnderWay
    <3>2. PICK d \in Doc : writes = {Write(d, 1)} /\ written = 0
      BY <2>2 DEF OneUnderWay
    <3>3. writes' = {Write(d, 1), Write(adopted, 2)}
      BY <1>1, <2>2, <3>2, NextTicket
    <3> QED BY <1>1, <3>1, <3>2, <3>3 DEF StageInv, FinalUnderWay
  <2> QED BY <1>1, <2>1, <2>2 DEF PersistInv, StageInv
<1>3. PhaseInv'
  BY <1>1 DEF PersistInv, PhaseInv
<1>4. promote.pc \notin {"write", "sync"}
  BY <1>1, LifecycleAssumption DEF PersistInv, LockInv
<1>5. LockInv'
  BY <1>1, <1>4 DEF LockInv
<1> QED BY <1>2, <1>3, <1>5 DEF PersistInv

\* A document that does not validate is not written, and the last persist of a
\* shutdown ends with that (finish_running_persist).
LEMMA RefuseStep ==
  ASSUME PersistInv, AdoptedTypes', PersistRefused
  PROVE  PersistInv'
<1>1. /\ persister \in {"due", "final"} /\ lock = None /\ phase # "down"
      /\ adopted \notin ValidDoc
      /\ persister' = IF persister = "due" THEN "idle" ELSE "gone"
      /\ phase' = IF persister = "final" THEN "stopped" ELSE phase
      /\ UNCHANGED <<adopted, writes, written, lock, promote>>
  BY DEF PersistRefused, Persist, Serving, planeVars
<1>2. StageInv'
  BY <1>1 DEF PersistInv, StageInv, Quiescent, OneUnderWay, FinalRefused
<1>3. PhaseInv'
  BY <1>1 DEF PersistInv, PhaseInv
<1>4. LockInv'
  BY <1>1, LifecycleAssumption DEF PersistInv, LockInv
<1> QED BY <1>2, <1>3, <1>4 DEF PersistInv

\* A write that lands: the awaited one is the last word, a late one of the
\* aborted task is skipped (write_active_serialized).
LEMMA LandStep ==
  ASSUME PersistInv, AdoptedTypes', NEW w \in writes, WriteLands(w)
  PROVE  PersistInv'
<1>1. /\ writes' = writes \ {w} /\ UNCHANGED <<adopted, promote>> /\ phase # "down"
      /\ active' = IF Superseded(w.ticket) THEN active ELSE w.doc
      /\ written' = IF writes' = {} THEN 0 ELSE IF Superseded(w.ticket) THEN written ELSE w.ticket
      /\ Awaited(w) => /\ lock' = None
                       /\ persister' = IF persister = "write" THEN "idle" ELSE "gone"
                       /\ phase' = IF persister = "last" THEN "stopped" ELSE phase
      /\ ~Awaited(w) => UNCHANGED <<lock, persister, phase>>
  BY DEF WriteLands
<1>2. StageInv /\ PhaseInv /\ LockInv /\ None \notin {"promote", "persist"}
  BY LifecycleAssumption DEF PersistInv
<1>3. CASE persister = "write"
  <2>1. PICK d \in Doc : writes = {Write(d, 1)} /\ written = 0
    BY <1>2, <1>3 DEF StageInv, OneUnderWay
  <2>2. w = Write(d, 1) /\ writes' = {} /\ written' = 0 /\ Awaited(w)
    BY <1>1, <1>2, <1>3, <2>1 DEF Awaited, Write, LockInv
  <2> QED BY <1>1, <1>2, <1>3, <2>2
        DEF PersistInv, StageInv, PhaseInv, LockInv, Quiescent
<1>4. CASE persister = "final"
  <2>1. PICK d \in Doc : writes = {Write(d, 1)} /\ written = 0
    BY <1>2, <1>4 DEF StageInv, Quiescent, OneUnderWay
  <2>2. w = Write(d, 1) /\ writes' = {} /\ written' = 0 /\ ~Awaited(w)
    BY <1>1, <1>2, <1>4, <2>1 DEF Awaited, LockInv
  <2> QED BY <1>1, <1>2, <1>4, <2>2
        DEF PersistInv, StageInv, PhaseInv, LockInv, Quiescent
<1>5. CASE persister = "gone"
  <2>1. ASSUME NEW d \in Doc, writes = {Write(d, 1)}, written = 2, active = adopted
        PROVE  PersistInv'
    <3>1. w = Write(d, 1) /\ writes' = {} /\ written' = 0 /\ ~Awaited(w) /\ active' = active
      BY <1>1, <1>2, <1>5, <2>1 DEF Awaited, LockInv, Superseded, Write
    <3> QED BY <1>1, <1>2, <1>5, <2>1, <3>1
          DEF PersistInv, StageInv, PhaseInv, LockInv, Quiescent, FinalLanded
  <2>2. ASSUME adopted \notin ValidDoc, OneUnderWay
        PROVE  PersistInv'
    <3>1. PICK d \in Doc : writes = {Write(d, 1)} /\ written = 0
      BY <2>2 DEF OneUnderWay
    <3>2. writes' = {} /\ written' = 0 /\ ~Awaited(w)
      BY <1>1, <1>2, <1>5, <3>1 DEF Awaited, LockInv
    <3> QED BY <1>1, <1>2, <1>5, <2>2, <3>2
          DEF PersistInv, StageInv, PhaseInv, LockInv, Quiescent, FinalRefused
  <2>3. writes # {}
    OBVIOUS
  <2> QED BY <1>2, <1>5, <2>1, <2>2, <2>3 DEF StageInv, FinalLanded, FinalRefused, Quiescent
<1>6. CASE persister = "last"
  <2>0. lock = "persist" /\ phase = "stopping"
    BY <1>1, <1>2, <1>6 DEF LockInv, PhaseInv
  <2>1. CASE writes = {Write(adopted, 1)} /\ written = 0
    <3>1. w = Write(adopted, 1) /\ writes' = {} /\ written' = 0 /\ Awaited(w) /\ active' = adopted
      BY <1>1, <2>0, <2>1 DEF Awaited, Superseded, Write
    <3> QED BY <1>1, <1>2, <1>6, <3>1
          DEF PersistInv, StageInv, PhaseInv, LockInv, Quiescent, FinalLanded
  <2>2. CASE writes = {Write(adopted, 2)} /\ written = 1
    <3>1. w = Write(adopted, 2) /\ writes' = {} /\ written' = 0 /\ Awaited(w) /\ active' = adopted
      BY <1>1, <2>0, <2>2 DEF Awaited, Superseded, Write
    <3> QED BY <1>1, <1>2, <1>6, <3>1
          DEF PersistInv, StageInv, PhaseInv, LockInv, Quiescent, FinalLanded
  <2>3. ASSUME NEW d \in Doc, writes = {Write(d, 1), Write(adopted, 2)}, written = 0
        PROVE  PersistInv'
    <3>0. Write(d, 1) # Write(adopted, 2)
      BY DEF Write
    <3>1. CASE w = Write(d, 1)
      <4>1. /\ writes' = {Write(adopted, 2)} /\ written' = 1 /\ ~Awaited(w)
        BY <1>1, <2>3, <3>0, <3>1 DEF Awaited, Superseded, Write
      <4> QED BY <1>1, <1>2, <1>6, <4>1
            DEF PersistInv, StageInv, PhaseInv, LockInv, FinalUnderWay
    <3>2. CASE w = Write(adopted, 2)
      <4>1. /\ writes' = {Write(d, 1)} /\ written' = 2 /\ Awaited(w) /\ active' = adopted
        BY <1>1, <2>0, <2>3, <3>0, <3>2 DEF Awaited, Superseded, Write
      <4> QED BY <1>1, <1>2, <1>6, <2>3, <4>1
            DEF PersistInv, StageInv, PhaseInv, LockInv, FinalLanded
    <3> QED BY <2>3, <3>1, <3>2
  <2> QED BY <1>2, <1>6, <2>1, <2>2, <2>3 DEF StageInv, FinalUnderWay
<1>7. persister \in {"write", "final", "gone", "last"}
  BY <1>1, <1>2 DEF PhaseInv, StageInv, Quiescent
<1> QED BY <1>3, <1>4, <1>5, <1>6, <1>7

\* A shutdown aborts the persister; the write it began goes on
\* (finish_running_persist).
LEMMA StopStep ==
  ASSUME PersistInv, AdoptedTypes', Stop
  PROVE  PersistInv'
<1>1. /\ phase = "up" /\ phase' = "stopping" /\ persister' = "final"
      /\ lock' = IF lock = "persist" THEN None ELSE lock
      /\ UNCHANGED <<adopted, writes, written, promote>>
  BY DEF Stop
<1>2. Quiescent \/ OneUnderWay
  BY <1>1 DEF PersistInv, PhaseInv, StageInv
<1>3. StageInv' /\ PhaseInv'
  BY <1>1, <1>2 DEF StageInv, PhaseInv, Quiescent, OneUnderWay
<1>4. LockInv'
  BY <1>1, LifecycleAssumption DEF PersistInv, LockInv
<1> QED BY <1>3, <1>4 DEF PersistInv

\* A run starts with a persister that is due and nothing under way.
LEMMA PersistSeed ==
  ASSUME AdoptedTypes', NEW running, NEW text, Seed(running, text), phase' \in {"up", "down"}
  PROVE  PersistInv'
<1>1. /\ lock' = None /\ promote' = NoPromote /\ persister' = "due"
      /\ writes' = {} /\ written' = 0
  BY DEF Seed
<1>2. StageInv' /\ PhaseInv'
  BY <1>1 DEF StageInv, PhaseInv, Quiescent
<1>3. LockInv'
  BY <1>1, LifecycleAssumption DEF LockInv, NoPromote
<1> QED BY <1>2, <1>3 DEF PersistInv

\* Every handler keeps the persister's bookkeeping.
LEMMA PersistStep == PersistInv /\ AdoptedTypes' /\ [Next]_vars => PersistInv'
<1> SUFFICES ASSUME PersistInv, AdoptedTypes', [Next]_vars PROVE PersistInv'
  OBVIOUS
<1> DEFINE Still == UNCHANGED <<persister, writes, written, active, phase>>
<1>0. /\ lock = "persist" <=> persister \in {"write", "last"}
      /\ promote.pc \in {"write", "sync"} => lock = "promote"
      /\ None \notin {"watch", "revert", "promote", "persist"}
  BY LifecycleAssumption DEF PersistInv, LockInv
<1>1. ASSUME Still, UNCHANGED <<adopted, lock, promote>> PROVE PersistInv'
  BY <1>0, <1>1, PersistQuiet
<1>2. ASSUME Still, UNCHANGED <<adopted, promote>>, lock # "persist", lock' # "persist",
             lock # "promote"
      PROVE  PersistInv'
  BY <1>0, <1>2, PersistQuiet
<1>3. ASSUME Still, UNCHANGED <<lock, promote>>, phase = "up" \/ adopted' = adopted
      PROVE  PersistInv'
  BY <1>0, <1>3, PersistQuiet
<1>4. CASE \E text \in EditorDocs \cup {Malformed, Unreadable} : OperatorWrites(text)
  BY <1>1, <1>4 DEF OperatorWrites, Edit, planeVars, persistVars
<1>5. CASE OperatorSwaps
  BY <1>1, <1>5 DEF OperatorSwaps, Edit, planeVars, persistVars
<1>6. CASE Watch
  <2>1. UNCHANGED <<planeVars, persistVars, phase>>
    BY <1>6 DEF Watch, PollMissing, PollApplied, PollRejected, PollCandidate, PollUnreadable,
                PollSettled, PollExpected, PollUnexpected, PollObserved, PollChanged, Probe, Poll
  <2> QED BY <1>1, <2>1 DEF planeVars, persistVars
<1>7. CASE WatchResync
  BY <1>1, <1>7 DEF WatchResync, persistVars
<1>8. CASE WatchBegin
  <2>1. Still /\ UNCHANGED <<adopted, promote>> /\ lock = None /\ lock' \in {lock, "watch"}
    BY <1>8 DEF WatchBegin, persistVars
  <2> QED BY <1>0, <1>2, <2>1
<1>9. CASE WatchEnd
  <2>1. Still /\ UNCHANGED <<adopted, promote>> /\ lock = "watch" /\ lock' = None
    BY <1>9 DEF WatchEnd, persistVars
  <2> QED BY <1>0, <1>2, <2>1
<1>10. CASE \E i \in Ids : ApplyChange(i) \/ RestDelete(i)
  <2>1. PICK i \in Ids : ApplyChange(i) \/ RestDelete(i)
    BY <1>10
  <2>2. Still /\ UNCHANGED <<lock, promote>>
    BY <2>1 DEF ApplyChange, RestDelete, persistVars
  <2>3. phase = "up" \/ adopted' = adopted
    BY <2>1 DEF ApplyChange, RestDelete, Submit, HasRoom
  <2> QED BY <1>3, <2>2, <2>3
<1>11. CASE \E i \in Ids, body \in Synthetic \cup Decoded : RestPut(i, body)
  <2>1. PICK i \in Ids, body \in Synthetic \cup Decoded : RestPut(i, body)
    BY <1>11
  <2>2. Still /\ UNCHANGED <<lock, promote>>
    BY <2>1 DEF RestPut, persistVars
  <2>3. phase = "up" \/ adopted' = adopted
    BY <2>1 DEF RestPut, Submit, HasRoom
  <2> QED BY <1>3, <2>2, <2>3
<1>12. CASE RevertBegin
  <2>1. Still /\ UNCHANGED <<adopted, promote>> /\ lock = None /\ lock' = "revert"
    BY <1>12 DEF RevertBegin, Request, persistVars
  <2> QED BY <1>0, <1>2, <2>1
<1>13. CASE RevertEnd
  <2>1. Still /\ UNCHANGED <<adopted, promote>> /\ lock = "revert" /\ lock' = None
    BY <1>13 DEF RevertEnd, persistVars
  <2> QED BY <1>0, <1>2, <2>1
<1>14. CASE PromoteBegin
  <2>1. Still /\ adopted' = adopted /\ lock = None /\ lock' = "promote"
    BY <1>14 DEF PromoteBegin, Request, persistVars
  <2> QED BY <1>0, <2>1, PersistQuiet
<1>15. CASE PromoteWrites
  <2>1. Still /\ UNCHANGED <<adopted, lock>> /\ promote.pc = "write"
    BY <1>15 DEF PromoteWrites, persistVars
  <2> QED BY <1>0, <2>1, PersistQuiet
<1>16. CASE PromoteFails \/ PromoteEnd
  <2>1. /\ Still /\ adopted' = adopted /\ promote.pc \in {"write", "sync"}
        /\ lock' = None /\ promote'.pc = "none"
    BY <1>16 DEF PromoteFails, PromoteEnd, NoPromote, persistVars
  <2> QED BY <1>0, <2>1, PersistQuiet
<1>17. CASE PersistWakes
  <2>1. /\ persister = "idle" /\ persister' = "due" /\ phase = "up"
        /\ UNCHANGED <<adopted, lock, promote, writes, written, active, phase>>
    BY <1>17 DEF PersistWakes, planeVars
  <2> QED BY <1>0, <2>1 DEF PersistInv, StageInv, PhaseInv, LockInv, Quiescent
<1>18. CASE PersistComposes
  BY <1>18, ComposeStep
<1>19. CASE \E w \in writes : WriteLands(w)
  BY <1>19, LandStep
<1>20. CASE EngineDrain
  BY <1>1, <1>20 DEF EngineDrain, planeVars, persistVars
<1>21. CASE Stop
  BY <1>21, StopStep
<1>22. CASE Crash
  BY <1>22, PersistSeed DEF Crash
<1>23. CASE Restart
  BY <1>23, PersistSeed DEF Restart
<1>24. CASE PersistRefused
  BY <1>24, RefuseStep
<1>25. CASE UNCHANGED vars
  BY <1>1, <1>25 DEF vars, planeVars, persistVars
<1> HIDE DEF Still
<1> QED BY <1>4, <1>5, <1>6, <1>7, <1>8, <1>9, <1>10, <1>11, <1>12, <1>13, <1>14, <1>15, <1>16,
           <1>17, <1>18, <1>19, <1>20, <1>21, <1>22, <1>23, <1>24, <1>25 DEF Next

\* A fresh node has a persister that is due and nothing under way.
LEMMA PersistInit == Init => PersistInv
<1> SUFFICES ASSUME Init PROVE PersistInv
  OBVIOUS
<1>1. AdoptedTypes
  BY AdoptedInit DEF AdoptedInv
<1>2. StageInv /\ PhaseInv
  BY DEF Init, StageInv, PhaseInv, Quiescent
<1>3. LockInv
  BY LifecycleAssumption DEF Init, LockInv, NoPromote
<1> QED BY <1>1, <1>2, <1>3 DEF PersistInv

\* After a shutdown active.toml holds the last adopted state, for every order
\* in which the aborted write and the final one land, whenever that state
\* validates; the final persist is refused only when it does not
\* (CleanStopKeepsRunning).
THEOREM ShutdownKeepsAdopted == Spec => []CleanStopKeepsRunning
<1>1. AdoptedInv => AdoptedTypes
  BY DEF AdoptedInv
<1>2. PersistInv => CleanStopKeepsRunning
  BY DEF PersistInv, PhaseInv, StageInv, FinalLanded, FinalRefused, CleanStopKeepsRunning
<1> QED BY <1>1, <1>2, PersistInit, AdoptedInit, AdoptedStep, PersistStep, PTL DEF Spec

-----------------------------------------------------------------------------
(* The bank of tokens *)

\* A set of natural numbers has a least element.
LEMMA LeastOf ==
  ASSUME NEW I, I \subseteq Nat, I # {}
  PROVE  \E x \in I : \A y \in I : x <= y
<1>1. PICK x \in I : \A y \in I : ~(<<y, x>> \in OpToRel(<, Nat))
  BY NatLessThanWellFounded, WFMin, Zenon
<1>2. ASSUME NEW y \in I PROVE x <= y
  <2>1. <<y, x>> \notin OpToRel(<, Nat)
    BY <1>1, Zenon
  <2>2. <<y, x>> \in Nat \X Nat
    OBVIOUS
  <2>3. ~(y < x)
    BY <2>1, <2>2 DEF OpToRel
  <2> QED BY <2>3
<1> QED BY <1>2

\* The oldest token of a text is one of its tokens (the position found by
\* release_write and consume_expected_for).
LEMMA OldestMatch ==
  ASSUME NEW s \in Seq(Token), NEW text, Matches(s, text) # {}
  PROVE  Min(Matches(s, text)) \in 1 .. Len(s)
         /\ s[Min(Matches(s, text))].text = text
<1>1. Matches(s, text) \subseteq Nat
  BY DEF Matches
<1>2. \E x \in Matches(s, text) : \A y \in Matches(s, text) : x <= y
  BY <1>1, LeastOf
<1>3. Min(Matches(s, text)) \in Matches(s, text)
  BY <1>2 DEF Min
<1> QED BY <1>3 DEF Matches

\* One more token, and the oldest dropped when the bank is full.
LEMMA ExpectFacts ==
  ASSUME NEW s \in Seq(Token), Len(s) <= MaxTokens, NEW text \in ValidDoc
  PROVE  /\ expect_write(s, text) \in Seq(Token)
         /\ Len(expect_write(s, text)) <= MaxTokens
         /\ Len(s) < MaxTokens =>
              /\ Len(expect_write(s, text)) = Len(s) + 1
              /\ expect_write(s, text)[Len(s) + 1] = [text |-> text, landed |-> FALSE]
              /\ \A k \in 1 .. Len(s) : expect_write(s, text)[k] = s[k]
         /\ Len(s) = MaxTokens =>
              /\ Len(expect_write(s, text)) = Len(s)
              /\ expect_write(s, text)[Len(s)] = [text |-> text, landed |-> FALSE]
              /\ \A k \in 2 .. Len(s) : expect_write(s, text)[k - 1] = s[k]
<1> DEFINE e == [text |-> text, landed |-> FALSE]
<1>1. e \in Token
  BY DEF Token
<1> HIDE DEF e
<1>2. CASE Len(s) < MaxTokens
  <2>1. expect_write(s, text) = Append(s, e)
    BY <1>2, TokenAssumption DEF expect_write, e
  <2>2. /\ Append(s, e) \in Seq(Token) /\ Len(Append(s, e)) = Len(s) + 1
        /\ Append(s, e)[Len(s) + 1] = e
        /\ \A k \in 1 .. Len(s) : Append(s, e)[k] = s[k]
    BY <1>1, AppendProperties
  <2>3. Len(s) + 1 <= MaxTokens
    BY <1>2, TokenAssumption
  <2> QED BY <2>1, <2>2, <2>3 DEF e
<1>3. CASE ~(Len(s) < MaxTokens)
  <2>1. expect_write(s, text) = Append(Tail(s), e)
    BY <1>3, TokenAssumption DEF expect_write, e
  <2>2. s # <<>>
    BY <1>3, TokenAssumption
  <2>3. Tail(s) \in Seq(Token) /\ Len(Tail(s)) = Len(s) - 1
    BY <2>2
  <2>4. PICK t \in Seq(Token) :
          /\ t = Tail(s) /\ Len(t) = Len(s) - 1
          /\ \A k \in 1 .. Len(t) : t[k] = s[k + 1]
    BY <2>2, <2>3, HeadTailProperties
  <2>5. /\ Append(t, e) \in Seq(Token) /\ Len(Append(t, e)) = Len(t) + 1
        /\ Append(t, e)[Len(t) + 1] = e
        /\ \A k \in 1 .. Len(t) : Append(t, e)[k] = t[k]
    BY <1>1, AppendProperties
  <2>6. Len(t) + 1 = Len(s)
    BY <2>4
  <2>7. ASSUME NEW k \in 2 .. Len(s) PROVE Append(t, e)[k - 1] = s[k]
    <3>1. k - 1 \in 1 .. Len(t) /\ (k - 1) + 1 = k
      BY <2>6
    <3> QED BY <2>4, <2>5, <3>1
  <2>8. expect_write(s, text) = Append(t, e)
    BY <2>1, <2>4
  <2> QED BY <1>3, <2>5, <2>6, <2>7, <2>8 DEF e
<1> QED BY <1>2, <1>3

\* A landed mark changes no text.
LEMMA MarkFacts ==
  ASSUME NEW s \in Seq(Token), NEW text
  PROVE  /\ mark_write_landed(s, text) \in Seq(Token)
         /\ Len(mark_write_landed(s, text)) = Len(s)
         /\ \A k \in 1 .. Len(s) : mark_write_landed(s, text)[k].text = s[k].text
<1> DEFINE m == Max(Matches(s, text))
           r == [k \in 1 .. Len(s) |-> IF k = m THEN [s[k] EXCEPT !.landed = TRUE] ELSE s[k]]
<1>1. CASE Matches(s, text) = {}
  BY <1>1 DEF mark_write_landed
<1>2. CASE Matches(s, text) # {}
  <2> HIDE DEF m
  <2>1. mark_write_landed(s, text) = r
    <3>1. mark_write_landed(s, text) = [s EXCEPT ![m].landed = TRUE]
      BY <1>2 DEF mark_write_landed, m
    <3>2. s = [k \in 1 .. Len(s) |-> s[k]]
      OBVIOUS
    <3> QED BY <3>1, <3>2, Zenon
  <2>2. ASSUME NEW k \in 1 .. Len(s) PROVE r[k] \in Token /\ r[k].text = s[k].text
    <3>1. s[k] \in Token
      OBVIOUS
    <3> QED BY <3>1 DEF Token
  <2>3. r \in Seq(Token) /\ Len(r) = Len(s)
    BY <2>2
  <2> QED BY <2>1, <2>2, <2>3
<1> QED BY <1>1, <1>2

\* s without its j-th element.
LEMMA RemoveAtFacts ==
  ASSUME NEW S, NEW s \in Seq(S), NEW j \in 1 .. Len(s)
  PROVE  /\ RemoveAt(s, j) \in Seq(S) /\ Len(RemoveAt(s, j)) = Len(s) - 1
         /\ \A i \in 1 .. Len(s) - 1 : RemoveAt(s, j)[i] = s[IF i < j THEN i ELSE i + 1]
<1> DEFINE a == SubSeq(s, 1, j - 1)
           b == SubSeq(s, j + 1, Len(s))
<1>1. a \in Seq(S) /\ Len(a) = j - 1 /\ \A i \in 1 .. j - 1 : a[i] = s[i]
  OBVIOUS
<1>2. b \in Seq(S) /\ Len(b) = Len(s) - j /\ \A i \in 1 .. Len(s) - j : b[i] = s[j + i]
  OBVIOUS
<1>3. RemoveAt(s, j) = a \o b
  BY DEF RemoveAt
<1> HIDE DEF a, b
<1>4. /\ a \o b \in Seq(S) /\ Len(a \o b) = Len(s) - 1
      /\ \A i \in 1 .. Len(s) - 1 : (a \o b)[i] = IF i < j THEN a[i] ELSE b[i - (j - 1)]
  <2>1. /\ a \o b \in Seq(S) /\ Len(a \o b) = Len(a) + Len(b)
        /\ \A i \in 1 .. Len(a) + Len(b) :
             (a \o b)[i] = IF i <= Len(a) THEN a[i] ELSE b[i - Len(a)]
    BY <1>1, <1>2, ConcatProperties
  <2>2. Len(s) \in Nat /\ Len(a) + Len(b) = Len(s) - 1
    BY <1>1, <1>2
  <2>3. \A i \in 1 .. Len(s) - 1 : (i < j <=> i <= Len(a)) /\ Len(a) = j - 1
    BY <1>1, <2>2
  <2> QED BY <2>1, <2>2, <2>3
<1>5. \A i \in 1 .. Len(s) - 1 : (a \o b)[i] = s[IF i < j THEN i ELSE i + 1]
  BY <1>1, <1>2, <1>4
<1> QED BY <1>3, <1>4, <1>5

\* A release drops one token of the text and keeps every other.
LEMMA ReleaseFacts ==
  ASSUME NEW s \in Seq(Token), NEW text
  PROVE  /\ release_write(s, text) \in Seq(Token)
         /\ Len(release_write(s, text)) <= Len(s)
         /\ Matches(s, text) # {} => Len(release_write(s, text)) = Len(s) - 1
         /\ \E j \in Nat :
              /\ j \in 1 .. Len(s) => s[j].text = text
              /\ \A k \in 1 .. Len(s) : k # j =>
                   \E m \in 1 .. Len(release_write(s, text)) : release_write(s, text)[m] = s[k]
<1>1. CASE Matches(s, text) = {}
  <2>1. release_write(s, text) = s
    BY <1>1 DEF release_write
  <2>2. 0 \in Nat /\ 0 \notin 1 .. Len(s)
    OBVIOUS
  <2> QED BY <1>1, <2>1, <2>2
<1>2. CASE Matches(s, text) # {}
  <2>1. PICK j \in 1 .. Len(s) : j = Min(Matches(s, text)) /\ s[j].text = text
    BY <1>2, OldestMatch
  <2>2. release_write(s, text) = RemoveAt(s, j)
    BY <1>2, <2>1 DEF release_write
  <2>3. PICK r \in Seq(Token) : r = RemoveAt(s, j)
    BY RemoveAtFacts
  <2>4. /\ Len(r) = Len(s) - 1
        /\ \A i \in 1 .. Len(s) - 1 : r[i] = s[IF i < j THEN i ELSE i + 1]
    BY <2>3, RemoveAtFacts
  <2>5. ASSUME NEW k \in 1 .. Len(s), k # j PROVE \E m \in 1 .. Len(r) : r[m] = s[k]
    <3>1. CASE k < j
      <4>1. k \in 1 .. Len(r) /\ r[k] = s[k]
        BY <2>4, <3>1
      <4> QED BY <4>1
    <3>2. CASE ~(k < j)
      <4>1. k - 1 \in 1 .. Len(s) - 1 /\ ~(k - 1 < j) /\ (k - 1) + 1 = k
        BY <2>5, <3>2
      <4>2. k - 1 \in 1 .. Len(r) /\ r[k - 1] = s[k]
        BY <2>4, <4>1
      <4> QED BY <4>2
    <3> QED BY <3>1, <3>2
  <2>6. release_write(s, text) = r /\ Len(r) = Len(s) - 1 /\ Len(r) <= Len(s) /\ j \in Nat
    BY <2>2, <2>3, <2>4
  <2> QED BY <2>1, <2>5, <2>6
<1> QED BY <1>1, <1>2

\* A matched observation keeps exactly the tokens behind the oldest match.
LEMMA ConsumeFacts ==
  ASSUME NEW s \in Seq(Token), NEW text, Matches(s, text) # {}
  PROVE  \E j \in 1 .. Len(s) :
           /\ s[j].text = text
           /\ consume_expected_for(s, text) \in Seq(Token)
           /\ Len(consume_expected_for(s, text)) = Len(s) - j
           /\ \A i \in 1 .. Len(s) - j : consume_expected_for(s, text)[i] = s[j + i]
<1>1. PICK j \in 1 .. Len(s) : j = Min(Matches(s, text)) /\ s[j].text = text
  BY OldestMatch
<1>2. consume_expected_for(s, text) = SubSeq(s, j + 1, Len(s))
  BY <1>1 DEF consume_expected_for
<1>3. \A i \in j + 1 .. Len(s) : s[i] \in Token
  OBVIOUS
<1>4. /\ SubSeq(s, j + 1, Len(s)) \in Seq(Token)
      /\ Len(SubSeq(s, j + 1, Len(s))) = IF j + 1 <= Len(s) THEN Len(s) - (j + 1) + 1 ELSE 0
      /\ \A i \in 1 .. Len(s) - (j + 1) + 1 : SubSeq(s, j + 1, Len(s))[i] = s[(j + 1) + i - 1]
  BY <1>3, SubSeqProperties
<1>5. /\ Len(s) \in Nat /\ Len(s) - (j + 1) + 1 = Len(s) - j
      /\ j + 1 <= Len(s) \/ Len(s) - j = 0
  OBVIOUS
<1>6. \A i \in 1 .. Len(s) - j : (j + 1) + i - 1 = j + i
  OBVIOUS
<1>7. Len(SubSeq(s, j + 1, Len(s))) = Len(s) - j
  BY <1>4, <1>5
<1>8. \A i \in 1 .. Len(s) - j : SubSeq(s, j + 1, Len(s))[i] = s[j + i]
  BY <1>4, <1>5, <1>6
<1> QED BY <1>1, <1>2, <1>4, <1>7, <1>8

\* One step of the drain: a landed token goes, any other is kept.
KeepOne(kept, t) == IF t.landed THEN kept ELSE Append(kept, t)

\* f drains every prefix of the first n tokens of s.
Drains(f, s, n) ==
  f = [k \in 0 .. n |-> IF k = 0 THEN <<>> ELSE KeepOne(f[k - 1], s[k])]

\* The definition by recursion has a solution (drain_landed).
LEMMA DrainExists ==
  ASSUME NEW s \in Seq(Token), NEW n \in Nat
  PROVE  \E f : Drains(f, s, n)
<1> DEFINE I == {k \in Nat : ~ \E f : Drains(f, s, k)}
<1> SUFFICES ASSUME I # {} PROVE FALSE
  OBVIOUS
<1>1. PICK m \in I : \A k \in I : m <= k
  BY LeastOf
<1>2. CASE m = 0
  <2>1. PICK f : f = [k \in 0 .. 0 |-> <<>>]
    OBVIOUS
  <2>2. Drains(f, s, 0)
    BY <2>1 DEF Drains
  <2> QED BY <1>1, <1>2, <2>2
<1>3. CASE m # 0
  <2>1. m - 1 \in Nat /\ ~(m <= m - 1)
    BY <1>1, <1>3
  <2>2. PICK g : Drains(g, s, m - 1)
    BY <1>1, <2>1
  <2>3. PICK f : f = [k \in 0 .. m |-> IF k = m THEN KeepOne(g[m - 1], s[m]) ELSE g[k]]
    OBVIOUS
  <2>4. ASSUME NEW k \in 0 .. m
        PROVE  f[k] = IF k = 0 THEN <<>> ELSE KeepOne(f[k - 1], s[k])
    <3>1. CASE k = m
      <4>1. f[k] = KeepOne(g[m - 1], s[m]) /\ f[m - 1] = g[m - 1]
        BY <2>1, <2>3, <3>1
      <4> QED BY <4>1, <3>1, <1>3
    <3>2. CASE k # m
      <4>1. f[k] = g[k] /\ k \in 0 .. m - 1
        BY <2>1, <2>3, <3>2
      <4>2. g[k] = IF k = 0 THEN <<>> ELSE KeepOne(g[k - 1], s[k])
        BY <2>2, <4>1 DEF Drains
      <4>3. k # 0 => f[k - 1] = g[k - 1]
        BY <2>1, <2>3, <3>2
      <4> QED BY <4>1, <4>2, <4>3
    <3> QED BY <3>1, <3>2
  <2>5. Drains(f, s, m)
    <3>1. f = [k \in 0 .. m |-> f[k]]
      BY <2>3
    <3> QED BY <2>4, <3>1 DEF Drains
  <2> QED BY <1>1, <2>5
<1> QED BY <1>2, <1>3

\* drain_landed is that solution, at the whole bank.
LEMMA DrainIs ==
  ASSUME NEW s \in Seq(Token)
  PROVE  \E f : Drains(f, s, Len(s)) /\ drain_landed(s) = f[Len(s)]
<1> DEFINE f == CHOOSE f : f = [k \in 0..Len(s) |-> 
        IF k = 0 THEN <<>>
        ELSE IF s[k].landed THEN f[k - 1] ELSE Append(f[k - 1], s[k])]
<1>1. drain_landed(s) = f[Len(s)]
  BY Zenon DEF drain_landed
<1>2. \E g : g = [k \in 0..Len(s) |-> 
        IF k = 0 THEN <<>>
        ELSE IF s[k].landed THEN g[k - 1] ELSE Append(g[k - 1], s[k])]
  <2>1. Len(s) \in Nat
    OBVIOUS
  <2>2. PICK g : Drains(g, s, Len(s))
    BY <2>1, DrainExists
  <2> QED BY <2>2, Zenon DEF Drains, KeepOne
<1>3. Drains(f, s, Len(s))
  BY <1>2, Zenon DEF Drains, KeepOne
<1> QED BY <1>1, <1>3

\* What is kept of a prefix are tokens, and no more than it has.
LEMMA DrainTyped ==
  ASSUME NEW s \in Seq(Token), NEW f, Drains(f, s, Len(s)), NEW n \in 0 .. Len(s)
  PROVE  f[n] \in Seq(Token) /\ Len(f[n]) <= n
<1> DEFINE I == {k \in 0 .. Len(s) : ~(f[k] \in Seq(Token) /\ Len(f[k]) <= k)}
<1> SUFFICES ASSUME I # {} PROVE FALSE
  OBVIOUS
<1>1. PICK m \in I : \A k \in I : m <= k
  <2>1. I \subseteq Nat
    OBVIOUS
  <2> QED BY <2>1, LeastOf
<1>2. m \in 0 .. Len(s) /\ f[m] = IF m = 0 THEN <<>> ELSE KeepOne(f[m - 1], s[m])
  BY <1>1 DEF Drains
<1>3. m # 0
  <2>1. <<>> \in Seq(Token) /\ Len(<<>>) <= 0
    BY EmptySeq
  <2>2. ~(f[m] \in Seq(Token) /\ Len(f[m]) <= m)
    BY <1>1
  <2>3. m = 0 => f[m] = <<>>
    BY <1>2
  <2> QED BY <2>1, <2>2, <2>3, Zenon
<1>4. m - 1 \in 0 .. Len(s) /\ m - 1 \notin I /\ m \in 1 .. Len(s)
  BY <1>1, <1>2, <1>3
<1>5. f[m - 1] \in Seq(Token) /\ Len(f[m - 1]) <= m - 1 /\ s[m] \in Token
  BY <1>4
<1>6. f[m] \in Seq(Token) /\ Len(f[m]) <= m
  <2>1. PICK g \in Seq(Token) : g = f[m - 1]
    BY <1>5
  <2>2. Append(g, s[m]) \in Seq(Token) /\ Len(Append(g, s[m])) = Len(g) + 1
    BY <1>5, AppendProperties
  <2> QED BY <1>2, <1>3, <1>5, <2>1, <2>2 DEF KeepOne
<1> QED BY <1>1, <1>6

\* A drain keeps the newest announcement when it has not landed.
LEMMA DrainFacts ==
  ASSUME NEW s \in Seq(Token)
  PROVE  /\ drain_landed(s) \in Seq(Token)
         /\ Len(drain_landed(s)) <= Len(s)
         /\ s # <<>> /\ ~s[Len(s)].landed =>
              /\ drain_landed(s) # <<>>
              /\ drain_landed(s)[Len(drain_landed(s))] = s[Len(s)]
<1>1. PICK f : Drains(f, s, Len(s)) /\ drain_landed(s) = f[Len(s)]
  BY DrainIs
<1>2. f[Len(s)] \in Seq(Token) /\ Len(f[Len(s)]) <= Len(s)
  BY <1>1, DrainTyped
<1>3. ASSUME s # <<>>, ~s[Len(s)].landed
      PROVE  f[Len(s)] # <<>> /\ f[Len(s)][Len(f[Len(s)])] = s[Len(s)]
  <2>1. Len(s) \in 1 .. Len(s) /\ Len(s) - 1 \in 0 .. Len(s) /\ s[Len(s)] \in Token
    BY <1>3
  <2>2. PICK g \in Seq(Token) : g = f[Len(s) - 1]
    BY <1>1, <2>1, DrainTyped
  <2>3. PICK t : t = f[Len(s)] /\ t = Append(g, s[Len(s)])
    <3>1. f[Len(s)] = KeepOne(f[Len(s) - 1], s[Len(s)])
      <4>1. Len(s) \in 0 .. Len(s) /\ Len(s) # 0
        BY <2>1
      <4> QED BY <1>1, <4>1 DEF Drains
    <3>2. f[Len(s)] = Append(g, s[Len(s)])
      BY <1>3, <2>2, <3>1, Zenon DEF KeepOne
    <3> QED BY <3>2
  <2>4. /\ Append(g, s[Len(s)]) # <<>> /\ Len(Append(g, s[Len(s)])) = Len(g) + 1
        /\ Append(g, s[Len(s)])[Len(g) + 1] = s[Len(s)]
    BY <2>1, AppendProperties
  <2>5. t # <<>> /\ Len(t) = Len(g) + 1 /\ t[Len(g) + 1] = s[Len(s)]
    BY <2>3, <2>4, Zenon
  <2>6. t[Len(t)] = s[Len(s)]
    BY <2>5, Zenon
  <2> QED BY <2>3, <2>5, <2>6, Zenon
<1> QED BY <1>1, <1>2, <1>3

-----------------------------------------------------------------------------
(* Types and bounds *)

\* The bounds of the counts, and the sets watcher and job range over (TypeOK).
Useds == [edits : 0..MaxEdits, requests : 0..MaxRequests, promotes : 0..MaxPromotes,
          stops : 0..MaxStops, overtaken : BOOLEAN]

Watchers ==
  [pc : {"poll", "match", "drain", "resync", "apply", "applying"},
   now : Fingerprints \cup {None}, applied : Fingerprints \cup {None},
   rejected : Fingerprints \cup {None}, candidate : Fingerprints \cup {None},
   missing : 0..MissingPolls, reported : BOOLEAN, invalid : BOOLEAN, incomplete : BOOLEAN,
   observed : ValidDoc, baseline : ValidDoc]

Jobs == [todo : SUBSET Ids, from : ValidDoc, to : ValidDoc, shed : BOOLEAN]

\* A text that was read: at its tokens, or past them.
Read(w) == w.now \in Fingerprints /\ w.now.text # Unreadable

\* The text a poll of watch_loop carries from the read of the file to the end
\* of the apply.
WatchHeld ==
  /\ lock = "watch" => watcher.pc = "applying"
  /\ watcher.pc \in {"match", "drain", "apply"} => Read(watcher)
  /\ watcher.pc = "applying" => watcher.now \in Fingerprints /\ watcher.now.text \in ValidDoc

JobHeld ==
  /\ job = NoJob \/ job \in Jobs
  /\ lock \in {"watch", "revert"} => job \in Jobs

PromoteHeld ==
  /\ promote = NoPromote \/ promote \in [pc : {"write", "sync"}, text : ValidDoc]
  /\ promote.pc = "write" => used.promotes > 0

DiskTypes  == file \in Files /\ spare \in Files \cup {None}
TokenTypes == tokens \in Seq(Token) /\ Len(tokens) <= MaxTokens
PlaneTypes ==
  /\ lock \in {None, "watch", "revert", "promote", "persist"}
  /\ store \in Doc /\ loaded \in ValidDoc /\ Len(bus) <= BusCapacity /\ notified \in BOOLEAN

LifeInv ==
  /\ used \in Useds /\ DiskTypes
  /\ watcher \in Watchers /\ WatchHeld
  /\ TokenTypes /\ PlaneTypes /\ JobHeld /\ PromoteHeld

OperatorActs ==
  OperatorSwaps \/ \E text \in EditorDocs \cup {Malformed, Unreadable} : OperatorWrites(text)
Edits == \E i \in Ids, body \in Synthetic \cup Decoded : RestPut(i, body)
Deletes == \E i \in Ids : RestDelete(i)
Applies == \E i \in Ids : ApplyChange(i)
Lands == \E w \in writes : WriteLands(w)
Reseeds == Crash \/ Restart

\* Which handlers touch what.
LEMMA Touches ==
  ASSUME [Next]_vars
  PROVE  /\ UNCHANGED diskVars \/ OperatorActs \/ PromoteWrites
         /\ UNCHANGED watcher \/ Watch \/ WatchResync \/ WatchBegin \/ WatchEnd \/ Reseeds
         /\ UNCHANGED tokens \/ Watch \/ PromoteBegin \/ PromoteFails \/ PromoteEnd \/ Reseeds
         /\ \/ UNCHANGED <<lock, job>> \/ WatchBegin \/ WatchEnd \/ Applies \/ RevertBegin
            \/ RevertEnd \/ PromoteBegin \/ PromoteFails \/ PromoteEnd \/ PersistComposes
            \/ Lands \/ Stop \/ Reseeds
         /\ \/ UNCHANGED promote \/ PromoteBegin \/ PromoteWrites \/ PromoteFails
            \/ PromoteEnd \/ Reseeds
         /\ UNCHANGED loaded \/ Reseeds
         /\ \/ UNCHANGED store \/ WatchResync \/ WatchBegin \/ WatchEnd \/ Edits \/ Deletes
            \/ RevertEnd \/ Reseeds
         /\ \/ UNCHANGED notified \/ WatchResync \/ WatchBegin \/ WatchEnd \/ Edits
            \/ Deletes \/ RevertEnd \/ PromoteEnd \/ PersistWakes \/ Reseeds
         /\ UNCHANGED bus \/ Applies \/ Edits \/ Deletes \/ EngineDrain \/ Reseeds
         /\ \/ UNCHANGED used \/ Spend("edits", MaxEdits) \/ Spend("requests", MaxRequests)
            \/ Spend("promotes", MaxPromotes) \/ Spend("stops", MaxStops)
            \/ PromoteEnd \/ Restart
<1> USE DEF Next, OperatorActs, Edits, Deletes, Applies, Lands, Reseeds
<1>0. ASSUME Watch PROVE UNCHANGED <<diskVars, planeVars, engineVars, loaded, notified, used>>
  BY <1>0 DEF Watch, PollMissing, PollApplied, PollRejected, PollCandidate, PollUnreadable,
              PollSettled, PollExpected, PollUnexpected, PollObserved, PollChanged, Probe, Poll
<1>1. UNCHANGED diskVars \/ OperatorActs \/ PromoteWrites
  BY <1>0, Zenon DEF vars, WatchResync, WatchBegin, WatchEnd, ApplyChange, RestDelete, RestPut,
     RevertBegin, RevertEnd, PromoteBegin, PromoteFails, PromoteEnd, PersistWakes,
     PersistComposes, PersistRefused, WriteLands, EngineDrain, Stop, Crash, Restart, Seed
<1>2. UNCHANGED watcher \/ Watch \/ WatchResync \/ WatchBegin \/ WatchEnd \/ Reseeds
  BY Zenon DEF vars, OperatorWrites, OperatorSwaps, Edit, ApplyChange, RestDelete, RestPut,
     RevertBegin, RevertEnd, PromoteBegin, PromoteWrites, PromoteFails, PromoteEnd,
     PersistWakes, PersistComposes, PersistRefused, WriteLands, EngineDrain, Stop
<1>3. UNCHANGED tokens \/ Watch \/ PromoteBegin \/ PromoteFails \/ PromoteEnd \/ Reseeds
  BY Zenon DEF vars, OperatorWrites, OperatorSwaps, Edit, WatchResync, WatchBegin, WatchEnd,
     ApplyChange, RestDelete, RestPut, RevertBegin, RevertEnd, PromoteWrites, PersistWakes,
     PersistComposes, PersistRefused, WriteLands, EngineDrain, Stop
<1>4. \/ UNCHANGED <<lock, job>> \/ WatchBegin \/ WatchEnd \/ Applies \/ RevertBegin
      \/ RevertEnd \/ PromoteBegin \/ PromoteFails \/ PromoteEnd \/ PersistComposes
      \/ Lands \/ Stop \/ Reseeds
  BY <1>0, Zenon DEF vars, planeVars, OperatorWrites, OperatorSwaps, Edit, WatchResync, RestDelete,
     RestPut, PromoteWrites, PersistWakes, PersistRefused, EngineDrain
<1>5. \/ UNCHANGED promote \/ PromoteBegin \/ PromoteWrites \/ PromoteFails
      \/ PromoteEnd \/ Reseeds
  BY <1>0, Zenon DEF vars, planeVars, OperatorWrites, OperatorSwaps, Edit, WatchResync, WatchBegin,
     WatchEnd, ApplyChange, RestDelete, RestPut, RevertBegin, RevertEnd, PersistWakes,
     PersistComposes, PersistRefused, WriteLands, EngineDrain, Stop
<1>6. UNCHANGED loaded \/ Reseeds
  BY <1>0, Zenon DEF vars, OperatorWrites, OperatorSwaps, Edit, WatchResync, WatchBegin,
     WatchEnd, ApplyChange, RestDelete, RestPut, RevertBegin, RevertEnd, PromoteBegin,
     PromoteWrites, PromoteFails, PromoteEnd, PersistWakes, PersistComposes, PersistRefused, WriteLands,
     EngineDrain, Stop
<1>7. \/ UNCHANGED store \/ WatchResync \/ WatchBegin \/ WatchEnd \/ Edits \/ Deletes
      \/ RevertEnd \/ Reseeds
  BY <1>0, Zenon DEF vars, planeVars, OperatorWrites, OperatorSwaps, Edit, ApplyChange,
     RevertBegin, PromoteBegin, PromoteWrites, PromoteFails, PromoteEnd, PersistWakes,
     PersistComposes, PersistRefused, WriteLands, EngineDrain, Stop
<1>8. \/ UNCHANGED notified \/ WatchResync \/ WatchBegin \/ WatchEnd \/ Edits
      \/ Deletes \/ RevertEnd \/ PromoteEnd \/ PersistWakes \/ Reseeds
  BY <1>0, Zenon DEF vars, OperatorWrites, OperatorSwaps, Edit, ApplyChange, RevertBegin,
     PromoteBegin, PromoteWrites, PromoteFails, PersistComposes, PersistRefused, WriteLands,
     EngineDrain, Stop
<1>9. UNCHANGED bus \/ Applies \/ Edits \/ Deletes \/ EngineDrain \/ Reseeds
  BY <1>0, Zenon DEF vars, engineVars, OperatorWrites, OperatorSwaps, Edit, WatchResync, WatchBegin,
     WatchEnd, RevertBegin, RevertEnd, PromoteBegin, PromoteWrites, PromoteFails, PromoteEnd,
     PersistWakes, PersistComposes, PersistRefused, WriteLands, Stop
<1>10. \/ UNCHANGED used \/ Spend("edits", MaxEdits) \/ Spend("requests", MaxRequests)
       \/ Spend("promotes", MaxPromotes) \/ Spend("stops", MaxStops)
       \/ PromoteEnd \/ Restart
  BY <1>0, Zenon DEF vars, OperatorWrites, OperatorSwaps, Edit, Touch, Request, WatchResync,
     WatchBegin, WatchEnd, ApplyChange, RestDelete, RestPut, RevertBegin, RevertEnd,
     PromoteBegin, PromoteWrites, PromoteFails, PersistWakes, PersistComposes, PersistRefused,
     WriteLands, EngineDrain, Stop, Crash
<1> QED BY <1>1, <1>2, <1>3, <1>4, <1>5, <1>6, <1>7, <1>8, <1>9, <1>10

\* The counts stay within their bounds, and only grow; what a run was overtaken
\* by is forgotten by the next one only.
LEMMA UsedStep ==
  ASSUME used \in Useds, [Next]_vars
  PROVE  /\ used' \in Useds
         /\ used'.edits >= used.edits /\ used'.promotes >= used.promotes
         /\ ~Restart /\ used.overtaken => used'.overtaken
<1> USE LifecycleAssumption
<1> DEFINE Grows == /\ used' \in Useds
                    /\ used'.edits >= used.edits /\ used'.promotes >= used.promotes
<1>1. ASSUME NEW what \in {"edits", "requests", "promotes", "stops"}, NEW max,
             max = IF what = "edits" THEN MaxEdits ELSE IF what = "requests" THEN MaxRequests
                   ELSE IF what = "promotes" THEN MaxPromotes ELSE MaxStops,
             Spend(what, max)
      PROVE  Grows /\ used'.overtaken = used.overtaken
  BY <1>1 DEF Spend, Useds
<1>2. CASE UNCHANGED used
  BY <1>2 DEF Useds
<1>3. CASE Spend("edits", MaxEdits)
  BY <1>1, <1>3
<1>4. CASE Spend("requests", MaxRequests)
  BY <1>1, <1>4
<1>5. CASE Spend("promotes", MaxPromotes)
  BY <1>1, <1>5
<1>6. CASE Spend("stops", MaxStops)
  BY <1>1, <1>6
<1>7. ASSUME NEW b \in BOOLEAN, used' = [used EXCEPT !.overtaken = b]
      PROVE  Grows /\ used'.overtaken = b
  BY <1>7 DEF Useds
<1>8. CASE PromoteEnd
  <2>1. PICK b \in BOOLEAN : /\ used' = [used EXCEPT !.overtaken = b]
                             /\ used.overtaken => b
    <3> DEFINE b == used.overtaken \/ watcher.pc \in {"match", "drain"}
    <3>1. b \in BOOLEAN /\ used' = [used EXCEPT !.overtaken = b] /\ (used.overtaken => b)
      BY <1>8, Zenon DEF PromoteEnd
    <3> QED BY <3>1, Zenon
  <2> QED BY <1>7, <2>1
<1>9. CASE Restart
  BY <1>7, <1>9 DEF Restart
<1> QED BY <1>2, <1>3, <1>4, <1>5, <1>6, <1>8, <1>9, Touches

\* The file: what an operator or a promote puts there has its stamp in range.
LEMMA DiskStep ==
  ASSUME LifeInv, [Next]_vars
  PROVE  DiskTypes'
<1>0. /\ used \in Useds /\ file \in Files /\ spare \in Files \cup {None}
      /\ used' \in Useds /\ used.edits \in 0 .. MaxEdits /\ used'.edits \in 0 .. MaxEdits
      /\ used.promotes \in 0 .. MaxPromotes
      /\ MaxEdits \in Nat /\ MaxPromotes \in Nat
  BY UsedStep, LifecycleAssumption DEF LifeInv, DiskTypes, Useds
<1>1. CASE UNCHANGED diskVars
  BY <1>0, <1>1 DEF DiskTypes, diskVars
<1>2. ASSUME NEW text \in EditorDocs \cup {Malformed, Unreadable}, OperatorWrites(text)
      PROVE  DiskTypes'
  <2>1. /\ file' = [present |-> TRUE, text |-> text, stamp |-> 2 * used'.edits]
        /\ spare' = spare
    BY <1>2 DEF OperatorWrites
  <2>2. text \in Texts
    BY LifecycleAssumption DEF Texts
  <2>3. 2 * used'.edits \in Stamps
    BY <1>0 DEF Stamps
  <2> QED BY <1>0, <2>1, <2>2, <2>3 DEF DiskTypes, Files
<1>3. CASE OperatorSwaps
  <2>1. /\ \/ file' = [file EXCEPT !.present = FALSE]
           \/ spare # None /\ file' = spare
        /\ spare' \in {file, spare}
    BY <1>3 DEF OperatorSwaps
  <2> QED BY <1>0, <2>1 DEF DiskTypes, Files
<1>4. CASE PromoteWrites
  <2>1. /\ file' = [present |-> TRUE, text |-> promote.text, stamp |-> 2 * used.promotes - 1]
        /\ spare' = spare /\ promote.pc = "write"
    BY <1>4 DEF PromoteWrites
  <2>2. promote.text \in Texts /\ used.promotes > 0
    BY <2>1 DEF LifeInv, PromoteHeld, NoPromote, Texts
  <2>3. 2 * used.promotes - 1 \in Stamps
    BY <1>0, <2>2 DEF Stamps
  <2> QED BY <1>0, <2>1, <2>2, <2>3 DEF DiskTypes, Files
<1> QED BY <1>1, <1>2, <1>3, <1>4, Touches DEF OperatorActs

\* The bank of tokens never exceeds its bound.
LEMMA TokenStep ==
  ASSUME LifeInv, [Next]_vars
  PROVE  TokenTypes'
<1>0. tokens \in Seq(Token) /\ Len(tokens) <= MaxTokens /\ MaxTokens \in Nat /\ store \in Doc
  BY TokenAssumption DEF LifeInv, TokenTypes, PlaneTypes
<1>1. CASE UNCHANGED tokens
  BY <1>0, <1>1 DEF TokenTypes
<1>2. CASE Watch
  <2>1. \/ UNCHANGED tokens
        \/ /\ Matches(tokens, watcher.now.text) # {}
           /\ tokens' = consume_expected_for(tokens, watcher.now.text)
        \/ tokens' = drain_landed(tokens)
    BY <1>2 DEF Watch, PollMissing, PollApplied, PollRejected, PollCandidate, PollUnreadable,
                PollSettled, PollExpected, PollUnexpected, PollObserved, PollChanged, Probe, Poll
  <2>2. CASE /\ Matches(tokens, watcher.now.text) # {}
             /\ tokens' = consume_expected_for(tokens, watcher.now.text)
    BY <1>0, <2>2, ConsumeFacts DEF TokenTypes
  <2>3. CASE tokens' = drain_landed(tokens)
    BY <1>0, <2>3, DrainFacts DEF TokenTypes
  <2> QED BY <1>1, <2>1, <2>2, <2>3
<1>3. CASE PromoteBegin
  <2>1. tokens' = expect_write(tokens, store) /\ store \in ValidDoc
    BY <1>3 DEF PromoteBegin
  <2> QED BY <1>0, <2>1, ExpectFacts DEF TokenTypes
<1>4. CASE PromoteFails
  <2>1. tokens' = release_write(tokens, promote.text)
    BY <1>4 DEF PromoteFails
  <2> QED BY <1>0, <2>1, ReleaseFacts DEF TokenTypes
<1>5. CASE PromoteEnd
  <2>1. tokens' = mark_write_landed(tokens, promote.text)
    BY <1>5 DEF PromoteEnd
  <2> QED BY <1>0, <2>1, MarkFacts DEF TokenTypes
<1>6. CASE Reseeds
  <2>1. tokens' = <<>>
    BY <1>6 DEF Reseeds, Crash, Restart, Seed
  <2> QED BY <1>0, <2>1, EmptySeq DEF TokenTypes
<1> QED BY <1>1, <1>2, <1>3, <1>4, <1>5, <1>6, Touches

\* A promote under way has been counted, and its text is a document.
LEMMA PromoteStep ==
  ASSUME LifeInv, [Next]_vars
  PROVE  PromoteHeld'
<1>0. /\ PromoteHeld /\ store \in Doc /\ used \in Useds /\ used' \in Useds
      /\ used'.promotes >= used.promotes
  BY UsedStep DEF LifeInv, PlaneTypes
<1>1. /\ used.promotes \in Nat /\ used'.promotes \in Nat
  BY <1>0, LifecycleAssumption DEF Useds
<1>2. CASE UNCHANGED promote
  BY <1>0, <1>1, <1>2 DEF PromoteHeld
<1>3. CASE PromoteBegin
  <2>1. /\ promote' = [pc |-> "write", text |-> store] /\ Spend("promotes", MaxPromotes)
        /\ store \in ValidDoc
    BY <1>3 DEF PromoteBegin, Request, Touch
  <2>2. used'.promotes = used.promotes + 1
    BY <1>0, <2>1 DEF Spend, Useds
  <2> QED BY <1>0, <1>1, <2>1, <2>2 DEF PromoteHeld
<1>4. CASE PromoteWrites
  <2>1. promote' = [promote EXCEPT !.pc = "sync"] /\ promote.pc = "write"
    BY <1>4 DEF PromoteWrites
  <2> QED BY <1>0, <2>1 DEF PromoteHeld, NoPromote
<1>5. CASE PromoteFails \/ PromoteEnd \/ Reseeds
  <2>1. promote' = NoPromote
    BY <1>5 DEF PromoteFails, PromoteEnd, Reseeds, Crash, Restart, Seed
  <2> QED BY <2>1 DEF PromoteHeld, NoPromote
<1> QED BY <1>2, <1>3, <1>4, <1>5, Touches

\* The lock, the store, the boot text, the bus and the permit.
LEMMA PlaneStep ==
  ASSUME LifeInv, active \in ValidDoc \cup {None}, bus \in Seq(Commands), [Next]_vars
  PROVE  PlaneTypes'
<1>0. PlaneTypes /\ JobHeld /\ watcher \in Watchers /\ WatchHeld
  BY DEF LifeInv
<1>1. lock' \in {None, "watch", "revert", "promote", "persist"}
  BY <1>0, Touches, Zenon
     DEF PlaneTypes, WatchBegin, WatchEnd, Applies, ApplyChange, RevertBegin, RevertEnd,
         PromoteBegin, PromoteFails, PromoteEnd, PersistComposes, Lands, WriteLands, Stop,
         Reseeds, Crash, Restart, Seed
<1>2. ASSUME Reseeds PROVE store' \in Doc /\ loaded' \in ValidDoc
  <2>1. BootDoc \in ValidDoc
    BY LifecycleAssumption
  <2>2. CASE Crash
    BY <2>1, <2>2, ValidIsDoc DEF Crash, Seed
  <2>3. CASE Restart
    BY <2>3, ValidIsDoc DEF Restart, Seed
  <2> QED BY <1>2, <2>2, <2>3 DEF Reseeds
<1>3. loaded' \in ValidDoc
  BY <1>0, <1>2, Touches DEF PlaneTypes
<1>4. store' \in Doc
  <2>0. store \in Doc
    BY <1>0 DEF PlaneTypes
  <2>1. ASSUME NEW i \in Ids, NEW body \in Bodies, store' = [store EXCEPT ![i] = body]
        PROVE  store' \in Doc
    BY <2>0, <2>1 DEF Doc
  <2>2. CASE Edits
    BY <2>1, <2>2 DEF Edits, RestPut, Bodies
  <2>3. CASE Deletes
    BY <2>1, <2>3 DEF Deletes, RestDelete, Bodies
  <2>4. CASE WatchEnd \/ RevertEnd
    <3>1. job \in Jobs
      BY <1>0, <2>4 DEF JobHeld, WatchEnd, RevertEnd
    <3>2. store' \in {job.from, job.to}
      BY <2>4 DEF WatchEnd, RevertEnd
    <3> QED BY <3>1, <3>2, ValidIsDoc DEF Jobs
  <2>5. CASE WatchResync \/ WatchBegin
    <3>1. store' \in {store, watcher.baseline}
      BY <2>5, Zenon DEF WatchResync, WatchBegin
    <3>2. watcher.baseline \in Doc
      BY <1>0, ValidIsDoc DEF Watchers
    <3> QED BY <2>0, <3>1, <3>2
  <2> QED BY <2>0, <1>2, <2>2, <2>3, <2>4, <2>5, Touches
<1>5. Len(bus') <= BusCapacity
  <2>0. Len(bus) <= BusCapacity /\ BusCapacity \in Nat
    BY <1>0, LifecycleAssumption DEF PlaneTypes
  <2>1. ASSUME NEW i \in Ids, NEW body, Submit(i, body) PROVE Len(bus') <= BusCapacity
    <3>1. bus' = bus \/ (Len(bus) < BusCapacity /\ bus' = Append(bus, Command(i, body)))
      BY <2>1 DEF Submit, HasRoom
    <3>2. Command(i, body) \in Commands
      BY DEF Command, Commands
    <3>3. Len(Append(bus, Command(i, body))) = Len(bus) + 1
      BY <3>2, AppendProperties
    <3> QED BY <2>0, <3>1, <3>3
  <2>2. CASE Applies \/ Edits \/ Deletes
    <3>1. (\E i \in Ids : \E body : Submit(i, body)) \/ bus' = bus
      BY <2>2, Zenon DEF Applies, Edits, Deletes, ApplyChange, RestPut, RestDelete
    <3> QED BY <2>0, <2>1, <3>1
  <2>3. CASE EngineDrain
    <3>1. bus' = Tail(bus) /\ bus # <<>>
      BY <2>3 DEF EngineDrain
    <3> QED BY <2>0, <3>1
  <2>4. CASE Reseeds
    <3>1. bus' = <<>>
      BY <2>4 DEF Reseeds, Crash, Restart, Seed
    <3> QED BY <2>0, <3>1
  <2> QED BY <2>0, <2>2, <2>3, <2>4, Touches
<1>6. notified' \in BOOLEAN
  <2>0. notified \in BOOLEAN
    BY <1>0 DEF PlaneTypes
  <2>1. CASE WatchEnd
    <3>1. notified' = (notified \/ ~job.shed \/ Audited(job.to))
      BY <2>1 DEF WatchEnd
    <3> QED BY <3>1, Zenon
  <2>2. CASE WatchResync \/ WatchBegin \/ Edits \/ Deletes \/ RevertEnd \/ PromoteEnd
             \/ PersistWakes \/ Reseeds
    <3>1. notified' \in {notified, TRUE, FALSE}
      BY <2>2, Zenon DEF WatchResync, WatchBegin, Edits, Deletes, RestPut, RestDelete,
                         RevertEnd, PromoteEnd, PersistWakes, Reseeds, Crash, Restart, Seed
    <3> QED BY <2>0, <3>1
  <2> QED BY <2>0, <2>1, <2>2, Touches
<1> QED BY <1>1, <1>3, <1>4, <1>5, <1>6 DEF PlaneTypes

\* An apply under the lock runs from one document to another.
LEMMA JobStep ==
  ASSUME LifeInv, [Next]_vars
  PROVE  JobHeld'
<1>0. PlaneTypes /\ JobHeld /\ watcher \in Watchers /\ WatchHeld
  BY DEF LifeInv
<1>1. CASE UNCHANGED <<lock, job>>
  BY <1>0, <1>1 DEF JobHeld
<1>2. ASSUME NEW from \in ValidDoc, NEW to \in ValidDoc,
             job' = [todo |-> Changed(from, to), from |-> from, to |-> to, shed |-> FALSE]
      PROVE  JobHeld'
  BY <1>2 DEF JobHeld, Jobs, Changed
<1>3. CASE WatchBegin
  <2>1. \/ lock' = lock /\ job' = job
        \/ /\ watcher.now.text \notin {Malformed, watcher.baseline}
           /\ job' = [todo |-> Changed(watcher.baseline, watcher.now.text),
                   from |-> watcher.baseline, to |-> watcher.now.text, shed |-> FALSE]
    BY <1>3, Zenon DEF WatchBegin
  <2>2. watcher.pc = "apply" /\ watcher.baseline \in ValidDoc
    BY <1>0, <1>3 DEF WatchBegin, Watchers
  <2>3. watcher.now.text # Malformed => watcher.now.text \in ValidDoc
    BY <1>0, <2>2 DEF WatchHeld, Read, Fingerprints, Texts
  <2> QED BY <1>1, <1>2, <2>1, <2>2, <2>3
<1>4. CASE RevertBegin
  <2>1. /\ job' = [todo |-> Changed(store, loaded), from |-> store, to |-> loaded, shed |-> FALSE]
        /\ store \in ValidDoc
    BY <1>4 DEF RevertBegin
  <2> QED BY <1>0, <1>2, <2>1 DEF PlaneTypes
<1>5. CASE WatchEnd \/ RevertEnd \/ Reseeds
  <2>1. lock' = None /\ job' = NoJob
    BY <1>5 DEF WatchEnd, RevertEnd, Reseeds, Crash, Restart, Seed
  <2> QED BY <2>1, LifecycleAssumption DEF JobHeld
<1>6. CASE Applies
  <2>1. PICK i \in Ids, b \in BOOLEAN : /\ i \in job.todo /\ lock' = lock
                     /\ job' = [job EXCEPT !.todo = @ \ {i}, !.shed = b]
    <3>1. PICK i \in Ids : ApplyChange(i)
      BY <1>6 DEF Applies
    <3> DEFINE b == job.shed \/ (NeedsCommand(job.from[i], job.to[i]) /\ ~HasRoom)
    <3>2. /\ i \in job.todo /\ lock' = lock /\ b \in BOOLEAN
          /\ job' = [job EXCEPT !.todo = @ \ {i}, !.shed = b]
      BY <3>1, Zenon DEF ApplyChange
    <3> QED BY <3>2
  <2>2. job \in Jobs
    BY <1>0, <2>1 DEF JobHeld, NoJob
  <2>3. job' \in Jobs
    BY <2>1, <2>2 DEF Jobs
  <2> QED BY <2>3 DEF JobHeld
<1>7. CASE PromoteBegin \/ PromoteFails \/ PromoteEnd \/ PersistComposes \/ Lands \/ Stop
  <2>1. job' = job /\ lock' \in {lock, None, "promote", "persist"}
    BY <1>7 DEF PromoteBegin, PromoteFails, PromoteEnd, PersistComposes, Lands, WriteLands, Stop
  <2> QED BY <1>0, <2>1, LifecycleAssumption DEF JobHeld
<1> QED BY <1>1, <1>3, <1>4, <1>5, <1>6, <1>7, Touches

\* The file that is there has a fingerprint.
LEMMA FingerprintIs ==
  ASSUME DiskTypes
  PROVE  /\ Fingerprint(file) \in Fingerprints
         /\ Fingerprint(file).text = file.text
BY DEF DiskTypes, Files, Fingerprint, Fingerprints

\* An announced text is a document that validates (expect_write is given one).
LEMMA AnnouncedIsDoc ==
  ASSUME NEW s \in Seq(Token), NEW text, Matches(s, text) # {}
  PROVE  text \in ValidDoc
<1>1. PICK k \in DOMAIN s : s[k].text = text
  BY DEF Matches
<1>2. s[k] \in Token
  BY <1>1
<1> QED BY <1>1, <1>2 DEF Token

\* One step of a poll keeps the watcher's locals well formed; what it carries on
\* is a text that was read.
LEMMA PollTypes ==
  ASSUME LifeInv, Watch
  PROVE  /\ watcher' \in Watchers /\ watcher'.pc # "applying"
         /\ watcher'.pc \in {"match", "drain", "apply"} => Read(watcher')
<1>0. /\ watcher \in Watchers /\ WatchHeld /\ DiskTypes /\ TokenTypes
      /\ MissingPolls \in Nat \ {0}
  BY LifecycleAssumption DEF LifeInv
<1>1. PICK print \in Fingerprints : print = Fingerprint(file) /\ print.text = file.text
  BY <1>0, FingerprintIs
<1>2. Seen \in Watchers /\ Seen.pc = watcher.pc
  <2>1. 0 \in 0 .. MissingPolls
    BY <1>0
  <2>2. watcher \in Watchers
    BY <1>0
  <2> QED BY ONLY <2>1, <2>2 DEF Seen, Watchers
<1>3. PICK w \in Watchers : w = Seen /\ w.pc = watcher.pc
  BY <1>2
<1>4. PICK v \in Watchers : v = watcher
  BY <1>0
<1>5. CASE PollMissing
  <2>1. PICK missing \in 0 .. MissingPolls, b \in BOOLEAN, c \in BOOLEAN :
          watcher' = [v EXCEPT !.candidate = None, !.missing = missing, !.reported = b,
                               !.invalid = c]
    <3> DEFINE missing == IF watcher.missing < MissingPolls THEN watcher.missing + 1
                          ELSE MissingPolls
               report  == missing >= MissingPolls /\ ~watcher.reported
               b       == watcher.reported \/ report
               c       == watcher.invalid \/ report
    <3>1. missing \in 0 .. MissingPolls
      BY <1>0 DEF Watchers
    <3>2. b \in BOOLEAN /\ c \in BOOLEAN
      BY Zenon
    <3>3. watcher' = [watcher EXCEPT !.candidate = None, !.missing = missing, !.reported = b,
                                     !.invalid = c]
      BY <1>5, Zenon DEF PollMissing, Probe, Poll
    <3> QED BY <1>4, <3>1, <3>2, <3>3, Zenon
  <2>2. v.pc = "poll"
    BY <1>4, <1>5 DEF PollMissing, Probe
  <2>3. watcher' \in Watchers /\ watcher'.pc = "poll"
    BY ONLY v \in Watchers, <2>1, <2>2 DEF Watchers
  <2> QED BY <2>3
<1>6. CASE PollApplied
  <2>1. PICK pc \in {"poll", "resync"} : watcher' = [w EXCEPT !.invalid = FALSE, !.pc = pc]
    BY <1>3, <1>6 DEF PollApplied, Probe, Poll
  <2> QED BY <2>1 DEF Watchers
<1>7. CASE PollRejected
  BY <1>2, <1>7 DEF PollRejected, Probe, Poll
<1>8. CASE PollCandidate
  <2>1. watcher' = [w EXCEPT !.candidate = print] /\ w.pc = "poll"
    BY <1>1, <1>3, <1>8 DEF PollCandidate, Probe, Poll
  <2> QED BY <1>3, <2>1 DEF Watchers
<1>9. CASE PollUnreadable
  <2>1. watcher' = [w EXCEPT !.rejected = print, !.invalid = TRUE] /\ w.pc = "poll"
    BY <1>1, <1>3, <1>9 DEF PollUnreadable, Probe, Poll
  <2> QED BY <1>3, <2>1 DEF Watchers
<1>10. CASE PollSettled
  <2>1. watcher' = [w EXCEPT !.pc = "match", !.now = print] /\ print.text # Unreadable
    BY <1>1, <1>3, <1>10 DEF PollSettled, Probe, Poll
  <2> QED BY <1>1, <2>1 DEF Watchers, Read
<1>11. CASE PollExpected
  <2>1. Read(watcher) /\ watcher.now.text \in ValidDoc
    BY <1>0, <1>11, AnnouncedIsDoc DEF PollExpected, TokenTypes, WatchHeld
  <2>2. PICK now \in Fingerprints, text \in ValidDoc : now = watcher.now /\ text = watcher.now.text
    BY <2>1 DEF Read
  <2>3. watcher' = [v EXCEPT !.pc = "poll", !.now = None, !.baseline = text, !.applied = now,
                             !.rejected = None, !.observed = text]
    BY <1>4, <1>11, <2>2 DEF PollExpected, Poll
  <2> QED BY <2>3 DEF Watchers
<1>12. CASE PollUnexpected
  <2>1. watcher' = [v EXCEPT !.pc = "drain"] /\ Read(v)
    BY <1>0, <1>4, <1>12 DEF PollUnexpected, Poll, WatchHeld
  <2> QED BY <2>1 DEF Watchers, Read
<1>13. CASE PollObserved
  <2>1. PICK now \in Fingerprints : now = watcher.now
    BY <1>0, <1>13 DEF PollObserved, WatchHeld, Read
  <2>2. PICK pc \in {"poll", "resync"} :
          watcher' = [v EXCEPT !.pc = pc, !.now = None, !.applied = now, !.rejected = None,
                               !.invalid = FALSE]
    BY <1>4, <1>13, <2>1 DEF PollObserved, Poll
  <2> QED BY <2>2 DEF Watchers
<1>14. CASE PollChanged
  <2>1. watcher' = [v EXCEPT !.pc = "apply"] /\ Read(v)
    BY <1>0, <1>4, <1>14 DEF PollChanged, Poll, WatchHeld
  <2> QED BY <2>1 DEF Watchers, Read
<1> QED BY <1>5, <1>6, <1>7, <1>8, <1>9, <1>10, <1>11, <1>12, <1>13, <1>14 DEF Watch

\* A settled apply adopts the text it carried (apply_change).
LEMMA AppliedTypes ==
  ASSUME NEW w \in Watchers, w.now \in Fingerprints, w.now.text \in ValidDoc
  PROVE  Applied(w) \in Watchers /\ Applied(w).pc = "poll"
<1>1. PICK now \in Fingerprints, text \in ValidDoc : now = w.now /\ text = w.now.text
  OBVIOUS
<1> QED BY <1>1 DEF Applied, Watchers

\* Every handler keeps the watcher's locals well formed, and an apply under the
\* lock has a document in hand.
LEMMA WatcherStep ==
  ASSUME LifeInv, active \in ValidDoc \cup {None}, [Next]_vars
  PROVE  watcher' \in Watchers /\ WatchHeld'
<1>0. PlaneTypes /\ watcher \in Watchers /\ WatchHeld
  BY DEF LifeInv
<1>1. CASE Watch
  <2>1. watcher.pc # "applying" /\ lock' = lock
    BY <1>1, Zenon DEF Watch, PollMissing, PollApplied, PollRejected, PollCandidate, PollUnreadable,
       PollSettled, PollExpected, PollUnexpected, PollObserved, PollChanged, Probe, Poll, planeVars
  <2>2. /\ watcher' \in Watchers /\ watcher'.pc # "applying"
        /\ watcher'.pc \in {"match", "drain", "apply"} => Read(watcher')
    BY <1>1, PollTypes
  <2>3. lock' # "watch"
    BY <1>0, <2>1 DEF WatchHeld
  <2> QED BY <2>2, <2>3 DEF WatchHeld, Read
<1>2. CASE WatchResync
  <2>1. /\ watcher' = [watcher EXCEPT !.incomplete = FALSE, !.pc = "poll"]
        /\ lock = None /\ lock' = lock
    BY <1>2 DEF WatchResync
  <2> QED BY <1>0, <2>1, LifecycleAssumption DEF WatchHeld, Watchers
<1>3. CASE WatchBegin
  <2>0. watcher.pc = "apply" /\ lock = None /\ watcher.now \in Fingerprints
        /\ watcher.now.text # Unreadable /\ watcher.baseline \in ValidDoc
    BY <1>0, <1>3 DEF WatchBegin, WatchHeld, Read, Watchers
  <2>1. CASE /\ watcher' = [watcher EXCEPT !.pc = "poll", !.now = None,
                                   !.rejected = watcher.now, !.invalid = TRUE]
             /\ lock' = lock
    <3>1. PICK now \in Fingerprints : now = watcher.now
      BY <2>0
    <3>2. watcher' = [watcher EXCEPT !.pc = "poll", !.now = None, !.rejected = now,
                                     !.invalid = TRUE]
      BY <2>1, <3>1
    <3> QED BY <1>0, <2>0, <2>1, <3>2, LifecycleAssumption DEF WatchHeld, Watchers
  <2>2. CASE watcher.now.text = watcher.baseline /\ watcher' = Applied(watcher) /\ lock' = lock
    <3>1. watcher' \in Watchers /\ watcher'.pc = "poll"
      BY <1>0, <2>0, <2>2, AppliedTypes
    <3> QED BY <2>0, <2>2, <3>1, LifecycleAssumption DEF WatchHeld
  <2>3. CASE /\ watcher.now.text # Malformed /\ lock' = "watch"
             /\ watcher' = [watcher EXCEPT !.pc = "applying"]
    <3>1. watcher.now.text \in ValidDoc
      BY <2>0, <2>3 DEF Fingerprints, Texts
    <3>2. watcher' \in Watchers /\ watcher'.pc = "applying" /\ watcher'.now = watcher.now
      BY <1>0, <2>3 DEF Watchers
    <3> QED BY <2>0, <2>3, <3>1, <3>2 DEF WatchHeld
  <2> QED BY <1>3, <2>1, <2>2, <2>3, Zenon DEF WatchBegin
<1>4. CASE WatchEnd
  <2>1. watcher.now \in Fingerprints /\ watcher.now.text \in ValidDoc /\ lock' = None
    BY <1>0, <1>4 DEF WatchEnd, WatchHeld
  <2>2. \/ watcher' = Applied(watcher)
        \/ watcher' = [watcher EXCEPT !.pc = "poll", !.now = None, !.invalid = FALSE,
                                      !.incomplete = TRUE]
    BY <1>4, Zenon DEF WatchEnd
  <2>3. watcher' \in Watchers /\ watcher'.pc = "poll"
    <3>1. CASE watcher' = Applied(watcher)
      BY <1>0, <2>1, <3>1, AppliedTypes
    <3>2. CASE watcher' = [watcher EXCEPT !.pc = "poll", !.now = None, !.invalid = FALSE,
                                          !.incomplete = TRUE]
      BY <1>0, <3>2 DEF Watchers
    <3> QED BY <2>2, <3>1, <3>2
  <2> QED BY <2>1, <2>3, LifecycleAssumption DEF WatchHeld
<1>5. CASE Reseeds
  <2>1. PICK running \in ValidDoc, text \in ValidDoc : Seed(running, text)
    <3>1. BootDoc \in ValidDoc
      BY LifecycleAssumption
    <3>2. CASE Crash
      BY <3>1, <3>2 DEF Crash
    <3>3. CASE Restart
      <4>1. /\ (IF Resume /\ active # None THEN active ELSE file.text) \in ValidDoc
            /\ file.text \in ValidDoc
        BY <3>3 DEF Restart
      <4> QED BY <3>3, <4>1 DEF Restart
    <3> QED BY <1>5, <3>2, <3>3 DEF Reseeds
  <2>2. watcher' = Watching(running, text) /\ lock' = None
    BY <2>1 DEF Seed
  <2>3. watcher' \in Watchers /\ watcher'.pc = "poll"
    BY <2>2, LifecycleAssumption DEF Watching, Watchers
  <2> QED BY <2>2, <2>3, LifecycleAssumption DEF WatchHeld
<1>6. CASE UNCHANGED watcher /\ ~WatchBegin /\ ~WatchEnd
  <2>1. lock' = "watch" => lock = "watch"
    BY <1>6, Touches, LifecycleAssumption, Zenon
       DEF Applies, ApplyChange, RevertBegin, RevertEnd, PromoteBegin, PromoteFails, PromoteEnd,
           PersistComposes, Lands, WriteLands, Stop, Reseeds, Crash, Restart, Seed
  <2> QED BY <1>0, <1>6, <2>1 DEF WatchHeld
<1> QED BY <1>1, <1>2, <1>3, <1>4, <1>5, <1>6, Touches

\* A fresh node is well typed.
LEMMA LifeInit == Init => LifeInv
<1> SUFFICES ASSUME Init PROVE LifeInv
  OBVIOUS
<1> USE LifecycleAssumption DEF Init
<1>1. used \in Useds /\ DiskTypes
  <2>1. 0 \in Stamps /\ BootDoc \in Texts
    BY DEF Stamps, Texts
  <2> QED BY <2>1 DEF Useds, DiskTypes, Files
<1>2. watcher \in Watchers /\ WatchHeld
  BY DEF Watching, Watchers, WatchHeld
<1>3. TokenTypes
  <2>1. <<>> \in Seq(Token) /\ Len(<<>>) = 0
    BY EmptySeq
  <2> QED BY <2>1, TokenAssumption DEF TokenTypes
<1>4. PlaneTypes
  <2>1. Len(bus) = 0
    OBVIOUS
  <2>2. Len(bus) <= BusCapacity
    BY <2>1
  <2> QED BY <2>2, ValidIsDoc DEF PlaneTypes
<1>5. JobHeld /\ PromoteHeld
  BY DEF JobHeld, PromoteHeld, NoPromote
<1> QED BY <1>1, <1>2, <1>3, <1>4, <1>5 DEF LifeInv

\* Every handler keeps the types and bounds.
LEMMA LifeStep == LifeInv /\ AdoptedTypes /\ [Next]_vars => LifeInv'
<1> SUFFICES ASSUME LifeInv, AdoptedTypes, [Next]_vars PROVE LifeInv'
  OBVIOUS
<1>1. active \in ValidDoc \cup {None} /\ bus \in Seq(Commands) /\ used \in Useds
  BY DEF AdoptedTypes, LifeInv
<1> QED BY <1>1, UsedStep, DiskStep, WatcherStep, TokenStep, PlaneStep, JobStep, PromoteStep
        DEF LifeInv

\* Every variable stays in its type, the bus within its capacity and the bank
\* of tokens within MAX_EXPECTED_TOKENS (TypeOK).
THEOREM LifecycleTypeCorrect == Spec => []TypeOK
<1>1. LifeInv /\ PersistInv => TypeOK
  <2> SUFFICES ASSUME LifeInv, PersistInv PROVE TypeOK
    OBVIOUS
  <2>1. /\ file \in Files /\ spare \in Files \cup {None} /\ watcher \in Watchers
        /\ tokens \in Seq(Token) /\ Len(tokens) <= MaxTokens
        /\ used \in Useds
        /\ job = NoJob \/ job \in Jobs
        /\ promote = NoPromote \/ promote \in [pc : {"write", "sync"}, text : ValidDoc]
    BY DEF LifeInv, DiskTypes, TokenTypes, JobHeld, PromoteHeld
  <2>2. PlaneTypes /\ AdoptedTypes /\ StageInv /\ PhaseInv
    BY DEF LifeInv, PersistInv
  <2>3. /\ persister \in {"due", "idle", "write", "final", "last", "gone"}
        /\ phase \in {"up", "stopping", "stopped", "down"}
    BY <2>2 DEF PhaseInv
  <2>4. written \in Nat /\ \A w \in writes : w.ticket \in Nat
    BY <2>2, <2>3 DEF StageInv, Quiescent, OneUnderWay, FinalUnderWay, FinalLanded, FinalRefused,
                      Write
  <2> QED BY <2>1, <2>2, <2>3, <2>4
          DEF TypeOK, PlaneTypes, AdoptedTypes, Watchers, Jobs, Useds
<1>2. AdoptedInv => AdoptedTypes
  BY DEF AdoptedInv
<1> QED BY <1>1, <1>2, LifeInit, LifeStep, PersistInit, PersistStep, AdoptedInit, AdoptedStep, PTL
        DEF Spec

-----------------------------------------------------------------------------
(* The server's own writes *)

\* The text at the path is one the watcher has taken, or was announced to it,
\* by a token that the next announcement does not push out of the bank.
Recognised ==
  \/ watcher.observed = file.text
  \/ \E k \in Matches(tokens, file.text) : k > 1 \/ Len(tokens) < MaxTokens

\* The newest token is the one of the promote under way, and has not landed.
Newest ==
  tokens # <<>> /\ tokens[Len(tokens)].text = promote.text /\ ~tokens[Len(tokens)].landed

Older(text) == \E k \in Matches(tokens, text) : k < Len(tokens)

\* A promote between its announcement and its rename: what is at the path is
\* known without the newest token.
Announced == Newest /\ (watcher.observed = file.text \/ Older(file.text))

\* The same text was at the path already, and a poll took the token with it.
Consumed == watcher.observed = file.text /\ promote.text = file.text

Known ==
  /\ promote.pc = "none"  => Recognised
  /\ promote.pc = "write" => Announced \/ Consumed
  /\ promote.pc = "sync"  => promote.text = file.text /\ (Newest \/ watcher.observed = file.text)

\* The text a poll has in hand is the one at the path, or the one before a
\* rename whose promote is not done: its tokens, as they were then, are there.
InHand ==
  /\ watcher.pc = "match" =>
       \/ watcher.now.text = file.text
       \/ /\ promote.pc = "sync" /\ Newest
          /\ watcher.observed = watcher.now.text \/ Older(watcher.now.text)
  /\ watcher.pc = "drain" =>
       /\ watcher.observed = watcher.now.text
       /\ watcher.now.text = file.text \/ (promote.pc = "sync" /\ Newest)

SelfInv ==
  used.edits = 0 /\ ~used.overtaken =>
    /\ watcher.pc \notin {"apply", "applying"} /\ lock # "watch"
    /\ phase # "down" => Known /\ InHand

\* A matched observation of another text leaves the newest token in the bank.
LEMMA ConsumeKeepsNewest ==
  ASSUME NEW s \in Seq(Token), NEW text, Matches(s, text) # {}, s[Len(s)].text # text,
         NEW t, t = consume_expected_for(s, text)
  PROVE  t # <<>> /\ t[Len(t)] = s[Len(s)]
<1>1. PICK j \in 1 .. Len(s) :
        /\ s[j].text = text
        /\ t \in Seq(Token) /\ Len(t) = Len(s) - j
        /\ \A i \in 1 .. Len(s) - j : t[i] = s[j + i]
  BY ConsumeFacts
<1>2. j # Len(s)
  BY <1>1
<1>3. Len(t) \in 1 .. Len(s) - j /\ j + Len(t) = Len(s)
  BY <1>1, <1>2
<1>4. t[Len(t)] = s[Len(s)]
  BY <1>1, <1>3
<1>5. t # <<>>
  BY <1>1, <1>3
<1> QED BY <1>4, <1>5

\* What a step of a poll does to the tokens and to what the watcher has seen.
LEMMA PollEffect ==
  ASSUME watcher \in Watchers, DiskTypes, Watch
  PROVE  /\ UNCHANGED <<file, promote>>
         /\ \/ /\ tokens' = tokens /\ watcher'.observed = watcher.observed
               /\ watcher'.pc \in {"poll", "resync"}
            \/ /\ tokens' = tokens /\ watcher'.observed = watcher.observed
               /\ watcher'.pc = "match" /\ watcher'.now.text = file.text
            \/ /\ watcher.pc = "match" /\ Matches(tokens, watcher.now.text) # {}
               /\ tokens' = consume_expected_for(tokens, watcher.now.text)
               /\ watcher'.pc = "poll" /\ watcher'.observed = watcher.now.text
            \/ /\ watcher.pc = "match" /\ Matches(tokens, watcher.now.text) = {}
               /\ tokens' = tokens /\ watcher'.pc = "drain"
               /\ watcher'.now = watcher.now /\ watcher'.observed = watcher.observed
            \/ /\ watcher.pc = "drain" /\ watcher.observed = watcher.now.text
               /\ tokens' = drain_landed(tokens) /\ watcher'.observed = watcher.observed
               /\ watcher'.pc \in {"poll", "resync"}
            \/ watcher.pc = "drain" /\ watcher.observed # watcher.now.text
<1>1. UNCHANGED <<file, promote>>
  BY Zenon DEF Watch, PollMissing, PollApplied, PollRejected, PollCandidate, PollUnreadable,
     PollSettled, PollExpected, PollUnexpected, PollObserved, PollChanged, Probe, Poll, diskVars,
     planeVars
<1>2. PICK w \in Watchers : w = Seen /\ w.observed = watcher.observed /\ w.pc = watcher.pc
  <2>1. 0 \in 0 .. MissingPolls
    BY LifecycleAssumption
  <2>2. watcher \in Watchers
    OBVIOUS
  <2>3. Seen \in Watchers /\ Seen.observed = watcher.observed /\ Seen.pc = watcher.pc
    BY ONLY <2>1, <2>2 DEF Seen, Watchers
  <2> QED BY <2>3, Zenon
<1>3. PICK v \in Watchers : v = watcher
  OBVIOUS
<1>4. CASE PollMissing
  <2>1. /\ \E m, b : watcher' = [watcher EXCEPT !.candidate = None, !.missing = m,
                                   !.reported = @ \/ b, !.invalid = @ \/ b]
        /\ tokens' = tokens /\ watcher.pc = "poll"
    BY <1>4, Zenon DEF PollMissing, Probe, Poll
  <2>2. watcher'.observed = watcher.observed /\ watcher'.pc = watcher.pc
    <3>1. watcher \in Watchers
      OBVIOUS
    <3> QED BY ONLY <2>1, <3>1 DEF Watchers
  <2> QED BY <1>1, <2>1, <2>2
<1>5. CASE PollApplied \/ PollRejected \/ PollCandidate \/ PollUnreadable
  <2>1. /\ tokens' = tokens /\ watcher.pc = "poll"
        /\ \/ \E pc \in {"poll", "resync"} : watcher' = [w EXCEPT !.invalid = FALSE, !.pc = pc]
           \/ watcher' = w
           \/ \E print : watcher' = [w EXCEPT !.candidate = print]
           \/ \E print : watcher' = [w EXCEPT !.rejected = print, !.invalid = TRUE]
    BY <1>2, <1>5 DEF PollApplied, PollRejected, PollCandidate, PollUnreadable, Probe, Poll
  <2>2. watcher'.observed = watcher.observed /\ watcher'.pc \in {"poll", "resync"}
    BY <1>2, <2>1 DEF Watchers
  <2> QED BY <1>1, <2>1, <2>2
<1>6. CASE PollSettled
  <2>1. PICK print \in Fingerprints : print = Fingerprint(file) /\ print.text = file.text
    BY FingerprintIs
  <2>2. watcher' = [w EXCEPT !.pc = "match", !.now = print] /\ tokens' = tokens
    BY <1>2, <1>6, <2>1 DEF PollSettled, Probe, Poll
  <2>3. /\ watcher'.pc = "match" /\ watcher'.now.text = file.text
        /\ watcher'.observed = watcher.observed
    BY <1>2, <2>1, <2>2 DEF Watchers
  <2> QED BY <1>1, <2>2, <2>3
<1>7. CASE PollExpected
  <2>1. PICK text : \E now :
          /\ text = watcher.now.text
          /\ watcher' = [v EXCEPT !.pc = "poll", !.now = None, !.baseline = text,
                                  !.applied = now, !.rejected = None, !.observed = text]
    BY <1>3, <1>7 DEF PollExpected, Poll
  <2>2. watcher'.pc = "poll" /\ watcher'.observed = watcher.now.text
    BY <2>1 DEF Watchers
  <2> QED BY <1>1, <1>7, <2>2 DEF PollExpected
<1>8. CASE PollUnexpected
  <2>1. watcher' = [v EXCEPT !.pc = "drain"]
    BY <1>3, <1>8 DEF PollUnexpected, Poll
  <2>2. /\ watcher'.pc = "drain" /\ watcher'.now = watcher.now
        /\ watcher'.observed = watcher.observed
    BY <1>3, <2>1 DEF Watchers
  <2> QED BY <1>1, <1>8, <2>2 DEF PollUnexpected
<1>9. CASE PollObserved
  <2>1. PICK pc \in {"poll", "resync"} : \E now :
          watcher' = [v EXCEPT !.pc = pc, !.now = None, !.applied = now, !.rejected = None,
                               !.invalid = FALSE]
    BY <1>3, <1>9 DEF PollObserved, Poll
  <2>2. watcher'.pc \in {"poll", "resync"} /\ watcher'.observed = watcher.observed
    BY <1>3, <2>1 DEF Watchers
  <2> QED BY <1>1, <1>9, <2>2 DEF PollObserved
<1>10. CASE PollChanged
  BY <1>1, <1>10 DEF PollChanged
<1> QED BY <1>4, <1>5, <1>6, <1>7, <1>8, <1>9, <1>10 DEF Watch

\* A poll moves on to apply only for a text that differs from the one it has
\* seen, which the text in hand does not; and what it leaves of the tokens still
\* tells what is at the path.
LEMMA PollKnown ==
  ASSUME LifeInv, Known, InHand, Watch
  PROVE  Known' /\ InHand' /\ watcher'.pc \notin {"apply", "applying"}
<1>0. tokens \in Seq(Token) /\ DiskTypes /\ watcher \in Watchers
  BY DEF LifeInv, TokenTypes
<1>1. UNCHANGED <<file, promote>> /\ promote.pc \in {"none", "write", "sync"}
  <2>1. UNCHANGED <<file, promote>>
    BY <1>0, PollEffect
  <2>2. promote.pc \in {"none", "write", "sync"}
    BY DEF LifeInv, PromoteHeld, NoPromote
  <2> QED BY <2>1, <2>2
<1> DEFINE text == watcher.now.text
<1>2. CASE /\ tokens' = tokens /\ watcher'.observed = watcher.observed
           /\ watcher'.pc \in {"poll", "resync"}
  BY <1>1, <1>2 DEF Known, Recognised, Announced, Consumed, Newest, Older, InHand
<1>3. CASE /\ tokens' = tokens /\ watcher'.observed = watcher.observed
           /\ watcher'.pc = "match" /\ watcher'.now.text = file.text
  BY <1>1, <1>3 DEF Known, Recognised, Announced, Consumed, Newest, Older, InHand
<1>4. CASE /\ watcher.pc = "match" /\ Matches(tokens, text) # {}
           /\ tokens' = consume_expected_for(tokens, text)
           /\ watcher'.pc = "poll" /\ watcher'.observed = text
  <2>1. ASSUME Newest, promote.text # text PROVE Newest'
    BY <1>0, <1>1, <1>4, <2>1, ConsumeKeepsNewest DEF Newest
  <2>2. CASE text = file.text
    <3>1. promote.pc = "write" => Announced' \/ Consumed'
      BY <1>1, <1>4, <2>1, <2>2 DEF Known, Announced, Consumed
    <3> QED BY <1>1, <1>4, <2>2, <3>1 DEF Known, Recognised, InHand
  <2>3. CASE text # file.text
    <3>1. promote.pc = "sync" /\ Newest /\ promote.text = file.text
      BY <1>4, <2>3 DEF InHand, Known
    <3>2. Newest'
      BY <2>1, <2>3, <3>1
    <3> QED BY <1>1, <1>4, <3>1, <3>2 DEF Known, InHand
  <2> QED BY <2>2, <2>3
<1>5. CASE /\ watcher.pc = "match" /\ Matches(tokens, text) = {}
           /\ tokens' = tokens /\ watcher'.pc = "drain"
           /\ watcher'.now = watcher.now /\ watcher'.observed = watcher.observed
  <2>1. Known'
    BY <1>1, <1>5 DEF Known, Recognised, Announced, Consumed, Newest, Older
  <2>2. Newest => Len(tokens) \in Matches(tokens, promote.text)
    BY <1>0 DEF Newest, Matches
  <2>3. watcher.observed = text
    BY <1>1, <1>5, <2>2 DEF InHand, Known, Recognised, Announced, Consumed, Older
  <2>4. text = file.text \/ (promote.pc = "sync" /\ Newest)
    BY <1>5 DEF InHand
  <2>5. InHand'
    BY <1>1, <1>5, <2>3, <2>4 DEF InHand, Newest
  <2> QED BY <1>5, <2>1, <2>5
<1>6. CASE /\ watcher.pc = "drain" /\ watcher.observed = text
           /\ tokens' = drain_landed(tokens) /\ watcher'.observed = watcher.observed
           /\ watcher'.pc \in {"poll", "resync"}
  <2>1. ASSUME Newest PROVE Newest'
    BY <1>0, <1>1, <1>6, <2>1, DrainFacts DEF Newest
  <2>2. text = file.text \/ (promote.pc = "sync" /\ Newest)
    BY <1>6 DEF InHand
  <2>3. Known'
    BY <1>1, <1>6, <2>1, <2>2 DEF Known, Recognised, Announced, Consumed
  <2> QED BY <1>6, <2>3 DEF InHand
<1>7. CASE watcher.pc = "drain" /\ watcher.observed # text
  BY <1>7 DEF InHand
<1> HIDE DEF text
<1> QED BY <1>0, <1>2, <1>3, <1>4, <1>5, <1>6, <1>7, PollEffect DEF text

\* The bank after an announcement (expect_write).
LEMMA AnnounceStep ==
  ASSUME NEW s \in Seq(Token), Len(s) <= MaxTokens, NEW text \in ValidDoc, MaxTokens \in Nat \ {0},
         NEW t, t = expect_write(s, text)
  PROVE  /\ t \in Seq(Token) /\ t # <<>>
         /\ t[Len(t)] = [text |-> text, landed |-> FALSE]
         /\ Len(s) < MaxTokens => /\ Len(t) = Len(s) + 1
                                 /\ \A k \in 1 .. Len(s) : t[k] = s[k]
         /\ Len(s) = MaxTokens => /\ Len(t) = Len(s)
                                 /\ \A k \in 2 .. Len(s) : t[k - 1] = s[k]
<1>1. /\ t \in Seq(Token)
      /\ Len(s) < MaxTokens => /\ Len(t) = Len(s) + 1
                              /\ t[Len(s) + 1] = [text |-> text, landed |-> FALSE]
                              /\ \A k \in 1 .. Len(s) : t[k] = s[k]
      /\ Len(s) = MaxTokens => /\ Len(t) = Len(s)
                              /\ t[Len(s)] = [text |-> text, landed |-> FALSE]
                              /\ \A k \in 2 .. Len(s) : t[k - 1] = s[k]
  BY ExpectFacts
<1>2. Len(s) \in Nat /\ (Len(s) < MaxTokens \/ Len(s) = MaxTokens)
  OBVIOUS
<1>3. Len(t) > 0
  BY <1>1, <1>2
<1>4. t[Len(t)] = [text |-> text, landed |-> FALSE]
  BY <1>1, <1>2
<1>5. t # <<>>
  BY <1>1, <1>3
<1> QED BY <1>1, <1>4, <1>5

\* What a promote announces, writes, releases or confirms is known to the
\* watcher at every point between, whatever text a poll has in hand; and once it
\* is done, if a poll has none (promote_to_boot).
LEMMA PromoteKnown ==
  ASSUME LifeInv, LockInv, Known, InHand,
         PromoteBegin \/ PromoteWrites \/ PromoteFails \/ PromoteEnd,
         PromoteEnd => watcher.pc \notin {"match", "drain"},
         MaxTokens > 1
  PROVE  Known' /\ InHand'
<1>0. /\ tokens \in Seq(Token) /\ Len(tokens) <= MaxTokens
      /\ watcher' = watcher
  BY Zenon DEF LifeInv, TokenTypes, PromoteBegin, PromoteWrites, PromoteFails, PromoteEnd
<1>1. CASE PromoteBegin
  <2>1. /\ promote'.pc = "write" /\ promote'.text = store /\ file' = file /\ store \in ValidDoc
        /\ tokens' = expect_write(tokens, store) /\ lock = None
    BY <1>1 DEF PromoteBegin, Request, diskVars
  <2>2. promote.pc = "none"
    BY <2>1, LifecycleAssumption DEF LifeInv, PromoteHeld, NoPromote, LockInv
  <2>3. Recognised
    BY <2>2 DEF Known
  <2>4. /\ tokens' \in Seq(Token) /\ tokens' # <<>>
        /\ tokens'[Len(tokens')] = [text |-> store, landed |-> FALSE]
        /\ Len(tokens) < MaxTokens =>
             /\ Len(tokens') = Len(tokens) + 1
             /\ \A k \in 1 .. Len(tokens) : tokens'[k] = tokens[k]
        /\ Len(tokens) = MaxTokens =>
             /\ Len(tokens') = Len(tokens)
             /\ \A k \in 2 .. Len(tokens) : tokens'[k - 1] = tokens[k]
    BY <1>0, <2>1, TokenAssumption, AnnounceStep
  <2>5. DOMAIN tokens' = 1 .. Len(tokens')
    BY <2>4
  <2>6. ASSUME NEW k \in Matches(tokens, file.text), k > 1 \/ Len(tokens) < MaxTokens
        PROVE  \E l \in Matches(tokens', file.text) : l < Len(tokens')
    <3>1. k \in 1 .. Len(tokens) /\ tokens[k].text = file.text
      BY <1>0 DEF Matches
    <3>2. CASE Len(tokens) < MaxTokens
      <4>1. k \in 1 .. Len(tokens') /\ tokens'[k].text = file.text /\ k < Len(tokens')
        BY <1>0, <2>4, <3>1, <3>2
      <4> QED BY <2>5, <4>1 DEF Matches
    <3>3. CASE Len(tokens) = MaxTokens
      <4>1. k \in 2 .. Len(tokens) /\ k - 1 \in 1 .. Len(tokens') /\ k - 1 < Len(tokens')
        <5>1. k > 1 /\ k \in 1 .. Len(tokens) /\ Len(tokens) \in Nat
          BY <1>0, <2>6, <3>1, <3>3, TokenAssumption
        <5>2. Len(tokens') = Len(tokens)
          BY <2>4, <3>3
        <5> QED BY <5>1, <5>2
      <4>2. tokens'[k - 1].text = file.text
        <5>1. \A m \in 2 .. Len(tokens) : tokens'[m - 1] = tokens[m]
          BY Zenon, <2>4, <3>3
        <5>2. tokens'[k - 1] = tokens[k]
          BY Zenon, <4>1, <5>1
        <5> QED BY <3>1, <5>2
      <4> QED BY <2>5, <4>1, <4>2 DEF Matches
    <3>4. Len(tokens) < MaxTokens \/ Len(tokens) = MaxTokens
      BY <1>0, TokenAssumption
    <3> QED BY Zenon, <3>2, <3>3, <3>4
  <2>7. Announced'
    <3>1. Newest'
      BY <2>1, <2>4 DEF Newest
    <3>2. watcher.observed = file.text \/ Older(file.text)'
      BY <2>1, <2>3, <2>6 DEF Recognised, Older
    <3> QED BY <1>0, <2>1, <3>1, <3>2 DEF Announced
  <2>8. InHand'
    BY <1>0, <2>1, <2>2 DEF InHand
  <2> QED BY <2>1, <2>7, <2>8 DEF Known
<1>2. CASE PromoteWrites
  <2>1. /\ promote.pc = "write" /\ promote'.pc = "sync" /\ tokens' = tokens
        /\ promote'.text = promote.text /\ file'.text = promote.text
    BY <1>2 DEF PromoteWrites, LifeInv, PromoteHeld, NoPromote
  <2>2. Announced \/ Consumed
    BY <2>1 DEF Known
  <2>3. Announced => Newest'
    BY <2>1 DEF Announced, Newest
  <2>4. Consumed => watcher'.observed = file'.text /\ file'.text = file.text
    BY <1>0, <2>1 DEF Consumed
  <2>5. Known'
    BY <2>1, <2>2, <2>3, <2>4 DEF Known
  <2>6. CASE watcher.pc = "match"
    <3>1. watcher.now.text = file.text
      BY <2>1, <2>6 DEF InHand
    <3>2. Announced => watcher.observed = watcher.now.text \/ Older(watcher.now.text)'
      BY <1>0, <2>1, <3>1 DEF Announced, Older
    <3> QED BY <1>0, <2>1, <2>2, <2>3, <2>4, <2>5, <2>6, <3>1, <3>2 DEF InHand, Older
  <2>7. CASE watcher.pc = "drain"
    <3>1. watcher.now.text = file.text /\ watcher.observed = watcher.now.text
      BY <2>1, <2>7 DEF InHand
    <3> QED BY <1>0, <2>1, <2>2, <2>3, <2>4, <2>5, <2>7, <3>1 DEF InHand
  <2>8. CASE watcher.pc \notin {"match", "drain"}
    BY <1>0, <2>5, <2>8 DEF InHand
  <2> QED BY <2>6, <2>7, <2>8
<1>3. CASE PromoteFails
  <2>1. /\ promote.pc = "write" /\ promote'.pc = "none" /\ file' = file
        /\ tokens' = release_write(tokens, promote.text)
    BY <1>3 DEF PromoteFails, NoPromote, diskVars
  <2>0. InHand'
    BY <1>0, <2>1 DEF InHand
  <2>2. CASE watcher.observed = file.text
    BY <1>0, <2>0, <2>1, <2>2 DEF Known, Recognised
  <2>3. CASE watcher.observed # file.text
    <3>1. Announced
      BY <2>1, <2>3 DEF Known, Consumed
    <3>2. PICK k \in Matches(tokens, file.text) : k < Len(tokens)
      BY <2>3, <3>1 DEF Announced, Older
    <3>3. k \in 1 .. Len(tokens) /\ tokens[k].text = file.text
      BY <1>0, <3>2 DEF Matches
    <3>4. PICK j \in Nat :
            /\ j \in 1 .. Len(tokens) => tokens[j].text = promote.text
            /\ \A l \in 1 .. Len(tokens) : l # j =>
                 \E m \in 1 .. Len(tokens') : tokens'[m] = tokens[l]
      <4>1. \E j \in Nat :
              /\ j \in 1 .. Len(tokens) => tokens[j].text = promote.text
              /\ \A l \in 1 .. Len(tokens) : l # j =>
                   \E m \in 1 .. Len(release_write(tokens, promote.text)) :
                      release_write(tokens, promote.text)[m] = tokens[l]
        BY <1>0, ReleaseFacts
      <4> QED BY <2>1, <4>1, Zenon
    <3>5. PICK l \in 1 .. Len(tokens) : l # j /\ tokens[l].text = file.text
      <4>1. CASE k # j
        BY <3>3, <4>1
      <4>2. CASE k = j
        <5>1. Len(tokens) \in 1 .. Len(tokens) /\ Len(tokens) # j
          BY <1>0, <3>2, <3>3, <4>2
        <5>2. tokens[Len(tokens)].text = file.text
          BY <3>1, <3>3, <3>4, <4>2 DEF Announced, Newest
        <5> QED BY <5>1, <5>2
      <4> QED BY <4>1, <4>2
    <3>6. PICK m \in 1 .. Len(tokens') : tokens'[m].text = file.text
      BY <3>4, <3>5
    <3>7. tokens' \in Seq(Token)
      BY <1>0, <2>1, ReleaseFacts
    <3>8. m \in Matches(tokens', file.text)
      BY <3>6, <3>7 DEF Matches
    <3>9. Len(tokens') < MaxTokens
      <4>1. Len(tokens) \in Matches(tokens, promote.text)
        BY <1>0, <3>1 DEF Announced, Newest, Matches
      <4>2. Len(tokens') = Len(tokens) - 1
        BY <1>0, <2>1, <4>1, ReleaseFacts
      <4> QED BY <1>0, <4>2, TokenAssumption
    <3> QED BY <2>0, <2>1, <3>8, <3>9 DEF Known, Recognised
  <2> QED BY <2>2, <2>3
<1>4. CASE PromoteEnd
  <2>1. /\ promote.pc = "sync" /\ promote'.pc = "none" /\ file' = file
        /\ tokens' = mark_write_landed(tokens, promote.text)
    BY <1>4 DEF PromoteEnd, NoPromote, diskVars
  <2>2. Recognised
    <3>1. CASE watcher.observed = file.text
      BY <3>1 DEF Recognised
    <3>2. CASE Newest /\ promote.text = file.text
      <4>1. Len(tokens) \in Matches(tokens, file.text)
        BY <1>0, <3>2 DEF Newest, Matches
      <4>2. Len(tokens) > 1 \/ Len(tokens) < MaxTokens
        BY <1>0, TokenAssumption
      <4> QED BY <4>1, <4>2 DEF Recognised
    <3> QED BY <2>1, <3>1, <3>2 DEF Known
  <2>3. /\ tokens' \in Seq(Token) /\ Len(tokens') = Len(tokens)
        /\ \A k \in 1 .. Len(tokens) : tokens'[k].text = tokens[k].text
    BY <1>0, <2>1, MarkFacts
  <2>4. \A k \in Matches(tokens, file.text) : k \in Matches(tokens', file.text)
    BY <1>0, <2>3 DEF Matches
  <2>5. InHand'
    BY <1>0, <1>4 DEF InHand
  <2> QED BY <1>0, <2>1, <2>2, <2>3, <2>4, <2>5 DEF Known, Recognised
<1> QED BY <1>1, <1>2, <1>3, <1>4

\* Only a crash and a restart enter and leave "down".
LEMMA PhaseTouches ==
  ASSUME [Next]_vars, ~Reseeds, phase' # "down"
  PROVE  phase # "down"
<1>1. ASSUME Watch PROVE phase' = phase
  BY <1>1 DEF Watch, PollMissing, PollApplied, PollRejected, PollCandidate, PollUnreadable,
              PollSettled, PollExpected, PollUnexpected, PollObserved, PollChanged, Probe, Poll
<1>2. "up" # "down"
  OBVIOUS
<1> QED BY <1>1, <1>2, Zenon
     DEF Next, Reseeds, vars, OperatorWrites, OperatorSwaps, Edit, WatchResync, WatchBegin, WatchEnd,
         ApplyChange, RestDelete, RestPut, RevertBegin, RevertEnd, PromoteBegin, PromoteWrites,
         PromoteFails, PromoteEnd, PersistWakes, PersistComposes, PersistRefused, Persist, Serving,
         WriteLands, EngineDrain, Stop

\* While the operator touches nothing, and no promote lands between the read of
\* a poll and its use of the tokens, every handler leaves a known text at the
\* path.
LEMMA SelfStep ==
  ASSUME LifeInv, LockInv, SelfInv, [Next]_vars, MaxTokens > 1
  PROVE  SelfInv'
<1> SUFFICES ASSUME used'.edits = 0, ~used'.overtaken
             PROVE  /\ watcher'.pc \notin {"apply", "applying"} /\ lock' # "watch"
                    /\ phase' # "down" => Known' /\ InHand'
  BY DEF SelfInv
<1>0. /\ used \in Useds /\ used' \in Useds /\ used.edits = 0 /\ watcher \in Watchers
      /\ None \notin {"watch", "revert", "promote", "persist"}
      /\ ~Restart => ~used.overtaken
  <2>1. used \in Useds /\ watcher \in Watchers
    BY DEF LifeInv
  <2>2. /\ used' \in Useds /\ used'.edits >= used.edits
        /\ ~Restart /\ used.overtaken => used'.overtaken
    BY <2>1, UsedStep
  <2> QED BY <2>1, <2>2, LifecycleAssumption DEF Useds
<1>1. CASE Reseeds
  <2>1. watcher'.pc = "poll" /\ lock' = None /\ promote'.pc = "none" /\ file' = file
    BY <1>1 DEF Reseeds, Crash, Restart, Seed, Watching, NoPromote, diskVars
  <2>2. ASSUME phase' # "down" PROVE Known'
    <3>1. Restart
      BY <1>1, <2>2 DEF Reseeds, Crash
    <3>2. watcher'.observed = file.text
      BY <3>1 DEF Restart, Seed, Watching
    <3> QED BY <2>1, <3>2 DEF Known, Recognised
  <2> QED BY <1>0, <2>1, <2>2 DEF InHand
<1>2. CASE ~Reseeds
  <2>1. /\ watcher.pc \notin {"apply", "applying"} /\ lock # "watch"
        /\ phase # "down" => Known /\ InHand
    BY <1>0, <1>2 DEF SelfInv, Reseeds
  <2>2. ~OperatorActs
    <3>1. OperatorActs => Spend("edits", MaxEdits)
      BY Zenon DEF OperatorActs, OperatorSwaps, OperatorWrites, Edit, Touch
    <3>2. Spend("edits", MaxEdits) => used'.edits = used.edits + 1
      BY <1>0 DEF Spend, Useds
    <3> QED BY <1>0, <3>1, <3>2
  <2>3. ~WatchBegin /\ ~WatchEnd
    BY <2>1 DEF WatchBegin, WatchEnd
  <2>4. lock' # "watch"
    BY <1>0, <1>2, <2>1, <2>3, Touches, Zenon
       DEF Applies, ApplyChange, RevertBegin, RevertEnd, PromoteBegin, PromoteFails, PromoteEnd,
           PersistComposes, Lands, WriteLands, Stop
  <2>5. CASE Watch
    <3>1. phase # "down"
      BY <2>5, Zenon DEF Watch, PollMissing, PollApplied, PollRejected, PollCandidate,
         PollUnreadable, PollSettled, PollExpected, PollUnexpected, PollObserved, PollChanged,
         Probe, Poll, Serving
    <3> QED BY <2>1, <2>4, <2>5, <3>1, PollKnown
  <2>6. CASE WatchResync
    <3>1. /\ watcher'.observed = watcher.observed /\ watcher'.pc = "poll"
          /\ UNCHANGED <<file, tokens, promote>> /\ phase # "down"
      BY <1>0, <2>6 DEF WatchResync, Watchers, diskVars, Serving
    <3>2. Known' /\ InHand'
      BY <2>1, <3>1 DEF Known, Recognised, Announced, Consumed, Newest, Older, InHand
    <3> QED BY <2>4, <3>1, <3>2
  <2>7. CASE PromoteBegin \/ PromoteWrites \/ PromoteFails \/ PromoteEnd
    <3>1. watcher' = watcher
      BY <2>7, Zenon DEF PromoteBegin, PromoteWrites, PromoteFails, PromoteEnd
    <3>2. ASSUME PromoteEnd PROVE watcher.pc \notin {"match", "drain"}
      <4>1. used' = [used EXCEPT !.overtaken = @ \/ watcher.pc \in {"match", "drain"}]
        BY <3>2, Zenon DEF PromoteEnd
      <4>2. "overtaken" \in DOMAIN used
        BY <1>0 DEF Useds
      <4>3. used'.overtaken = (used.overtaken \/ watcher.pc \in {"match", "drain"})
        BY <4>1, <4>2, Zenon
      <4> QED BY <4>3, Zenon
    <3>3. phase' # "down" => Known' /\ InHand'
      BY <1>2, <2>1, <2>7, <3>2, PhaseTouches, PromoteKnown
    <3> QED BY <2>1, <2>4, <3>1, <3>3
  <2>8. CASE /\ ~Watch /\ ~WatchResync
             /\ ~(PromoteBegin \/ PromoteWrites \/ PromoteFails \/ PromoteEnd)
    <3>1. UNCHANGED <<diskVars, watcher, tokens, promote>>
      BY <1>2, <2>2, <2>3, <2>8, Touches, Zenon
    <3>2. Known /\ InHand => Known' /\ InHand'
      BY <3>1 DEF diskVars, Known, Recognised, Announced, Consumed, Newest, Older, InHand
    <3> QED BY <1>2, <2>1, <2>4, <3>1, <3>2, PhaseTouches
  <2> QED BY <2>5, <2>6, <2>7, <2>8
<1> QED BY <1>1, <1>2

\* A run boots from what is at the path.
LEMMA SelfInit == Init => SelfInv
<1> SUFFICES ASSUME Init PROVE SelfInv
  OBVIOUS
<1> QED BY LifecycleAssumption
        DEF Init, SelfInv, Watching, Known, Recognised, InHand, NoPromote

\* While no operator touches the path, a document the server wrote to it is
\* never applied as a change, unless a promote landed between the read of a poll
\* and its use of the tokens (SelfWriteNeverReloads).  The bank holds the token
\* of what is there beside the one being announced; MAX_EXPECTED_TOKENS is 8.
THEOREM SelfWritesAreKnown ==
  ASSUME MaxTokens > 1
  PROVE  Spec => []SelfWriteNeverReloads
<1>1. SelfInv => SelfWriteNeverReloads
  BY DEF SelfInv, SelfWriteNeverReloads
<1>2. AdoptedInv => AdoptedTypes
  BY DEF AdoptedInv
<1>3. LifeInv /\ PersistInv /\ SelfInv /\ [Next]_vars => SelfInv'
  BY SelfStep DEF PersistInv
<1> QED BY <1>1, <1>2, <1>3, LifeInit, LifeStep, PersistInit, PersistStep, AdoptedInit,
           AdoptedStep, SelfInit, PTL DEF Spec

=============================================================================
