--------------------------- MODULE SourceRegistry ---------------------------
(***************************************************************************)
(* The process-global source registry of multiview-engine (registry.rs):  *)
(* one decode and one shared frame store per source key, reference counted *)
(* by handles, and a fixed pool of teardown workers behind a bounded       *)
(* queue.  Consumer threads acquire and drop handles; a last release hands *)
(* the decode actor to the pool, or sheds it, without ever blocking.       *)
(*                                                                         *)
(* A critical section of one of the three mutexes is one step; everything  *)
(* the code does between two of them, or through the atomic counter, is a  *)
(* step of its own.  The requested sizes (the supremum metadata) are left  *)
(* out: no decision depends on them.                                       *)
(***************************************************************************)
EXTENDS Naturals, Sequences, FiniteSets

CONSTANTS
    Keys,        \* canonical source identities (SourceKey)
    Threads,     \* consumer threads, each holding at most one handle
    Workers,     \* teardown worker threads (TEARDOWN_WORKERS of them)
    Depth,       \* TEARDOWN_QUEUE_DEPTH
    MaxBuilds,   \* bound: factory calls that succeed
    Pools,       \* which sets of workers construction may have spawned
    MaxWedged    \* bound: decode-thread joins that never return

ASSUME DepthAssumption == Depth \in Nat
ASSUME BoundsAssumption == MaxBuilds \in Nat /\ MaxWedged \in Nat
ASSUME ThreadsFinite == IsFiniteSet(Threads) /\ IsFiniteSet(Workers)
ASSUME PoolsAssumption == Pools \subseteq SUBSET Workers
ASSUME NoKeyAssumption == "none" \notin Keys

(* A build is what one factory call returns: a store and maybe an actor.   *)
Builds  == 1 .. MaxBuilds
NoBuild == 0

(* TEARDOWN_CAPACITY: the queue depth plus the worker count.               *)
Capacity == Depth + Cardinality(Workers)

VARIABLES
    entries,   \* key -> the registered build and its refcount
    thread,    \* consumer thread -> program counter, key, store shared, actor owned, counter read
    queue,     \* the bounded channel: builds whose Teardown is buffered
    worker,    \* teardown worker -> program counter and the build it tears down
    pending,   \* pending_teardowns
    tx,        \* the registry still holds the queue's sender
    life,      \* "up", "joining" and "joined" (shutdown), "dropped"
    actor      \* build -> "unborn", "absent" (store only), "running", "stopping", "stopped"

vars == <<entries, thread, queue, worker, pending, tx, life, actor>>

(* Where a consumer is inside acquire_inner, release and offer_teardown.   *)
ThreadPcs == {"idle", "factory", "insert", "stopLoser", "held",
              "reserve", "cas", "shed", "clone", "send", "drop", "unslot"}
WorkerPcs == {"idle", "run", "join", "wedged", "unslot", "gone"}

NoEntry == [build |-> NoBuild, refs |-> 0]

NoKey == "none"
Idle  == [pc |-> "idle", key |-> NoKey, store |-> NoBuild, own |-> NoBuild, cur |-> 0]

TypeOK ==
    /\ entries \in [Keys -> [build : Builds \cup {NoBuild}, refs : Nat]]
    /\ thread \in [Threads -> [pc : ThreadPcs, key : Keys \cup {NoKey},
                               store : Builds \cup {NoBuild},
                               own : Builds \cup {NoBuild}, cur : Nat]]
    /\ queue \in Seq(Builds)
    /\ worker \in [Workers -> [pc : WorkerPcs, build : Builds \cup {NoBuild}]]
    /\ pending \in Nat
    /\ tx \in BOOLEAN
    /\ life \in {"up", "joining", "joined", "dropped"}
    /\ actor \in [Builds -> {"unborn", "absent", "running", "stopping", "stopped"}]

(* with_spawner and build_teardown_pool: an empty map, an open queue and    *)
(* the workers that could be spawned (a persistent spawn failure leaves a   *)
(* smaller pool, in the worst case none).                                   *)
Init ==
    /\ entries = [k \in Keys |-> NoEntry]
    /\ thread = [t \in Threads |-> Idle]
    /\ queue = <<>>
    /\ \E pool \in Pools :
          worker = [w \in Workers |-> [pc |-> IF w \in pool THEN "idle" ELSE "gone",
                                       build |-> NoBuild]]
    /\ pending = 0
    /\ tx = TRUE
    /\ life = "up"
    /\ actor = [b \in Builds |-> "unborn"]

Registered(k) == entries[k].build # NoBuild
At(t, pc)     == thread[t].pc = pc
Goto(t, pc)   == thread' = [thread EXCEPT ![t].pc = pc]
Return(t)     == thread' = [thread EXCEPT ![t] = Idle]

(* request_stop: the actor's decode is told to end.                         *)
RequestStop(b) == actor' = [actor EXCEPT ![b] = "stopping"]

Bump(k) == entries' = [entries EXCEPT ![k].refs = @ + 1]

-----------------------------------------------------------------------------
(* acquire_inner.                                                           *)

(* The key is registered: bump the refcount and share the store.            *)
AcquireShared(t, k) ==
    /\ At(t, "idle") /\ life # "dropped"
    /\ Registered(k)
    /\ Bump(k)
    /\ thread' = [thread EXCEPT ![t].pc = "held", ![t].key = k, ![t].store = entries[k].build]
    /\ UNCHANGED <<queue, worker, pending, tx, life, actor>>

(* The key is unknown: unlock, and run the factory outside the lock.        *)
AcquireFirst(t, k) ==
    /\ At(t, "idle") /\ life # "dropped"
    /\ ~Registered(k)
    /\ thread' = [thread EXCEPT ![t].pc = "factory", ![t].key = k]
    /\ UNCHANGED <<entries, queue, worker, pending, tx, life, actor>>

(* The factory returns a store, with its actor (acquire) or without one     *)
(* (acquire_store).                                                         *)
FactoryOk(t) ==
    /\ At(t, "factory")
    /\ \E b \in Builds, a \in {"running", "absent"} :
          /\ actor[b] = "unborn"
          /\ \A c \in Builds : c < b => actor[c] # "unborn"
          /\ actor' = [actor EXCEPT ![b] = a]
          /\ thread' = [thread EXCEPT ![t].pc = "insert", ![t].own = b]
    /\ UNCHANGED <<entries, queue, worker, pending, tx, life>>

(* The factory fails: the error propagates and nothing is inserted.         *)
FactoryFails(t) ==
    /\ At(t, "factory")
    /\ Return(t)
    /\ UNCHANGED <<entries, queue, worker, pending, tx, life, actor>>

(* Mutant: insert without the re-check under the lock.                      *)
InsertUnchecked(t) ==
    /\ At(t, "insert")
    /\ entries' = [entries EXCEPT ![thread[t].key] = [build |-> thread[t].own, refs |-> 1]]
    /\ thread' = [thread EXCEPT ![t].pc = "held", ![t].store = thread[t].own, ![t].own = NoBuild]
    /\ UNCHANGED <<queue, worker, pending, tx, life, actor>>

(* Re-locked and still unknown: this build becomes the shared entry.        *)
InsertWins(t) ==
    /\ At(t, "insert") /\ ~Registered(thread[t].key)
    /\ entries' = [entries EXCEPT ![thread[t].key] = [build |-> thread[t].own, refs |-> 1]]
    /\ thread' = [thread EXCEPT ![t].pc = "held", ![t].store = thread[t].own, ![t].own = NoBuild]
    /\ UNCHANGED <<queue, worker, pending, tx, life, actor>>

(* Mutant: the loser shares the store without counting its handle.          *)
LoserUncounted(t) ==
    /\ At(t, "insert") /\ Registered(thread[t].key)
    /\ LET loses == actor[thread[t].own] = "running"
       IN  thread' = [thread EXCEPT ![t].pc = IF loses THEN "stopLoser" ELSE "held",
                                    ![t].own = IF loses THEN @ ELSE NoBuild,
                                    ![t].store = entries[thread[t].key].build]
    /\ UNCHANGED <<entries, queue, worker, pending, tx, life, actor>>

(* Re-locked and another first reference got in: share the winner's store;  *)
(* the own actor, if any, is stopped after the unlock.                      *)
InsertLoses(t) ==
    /\ At(t, "insert") /\ Registered(thread[t].key)
    /\ Bump(thread[t].key)
    /\ LET loses == actor[thread[t].own] = "running"
       IN  thread' = [thread EXCEPT ![t].pc = IF loses THEN "stopLoser" ELSE "held",
                                    ![t].own = IF loses THEN @ ELSE NoBuild,
                                    ![t].store = entries[thread[t].key].build]
    /\ UNCHANGED <<queue, worker, pending, tx, life, actor>>

(* Mutants: the stop reaches the shared decode; a bare drop stops nothing.  *)
StopWinner(t) ==
    /\ At(t, "stopLoser")
    /\ RequestStop(thread[t].store)
    /\ thread' = [thread EXCEPT ![t].pc = "held", ![t].own = NoBuild]
    /\ UNCHANGED <<entries, queue, worker, pending, tx, life>>

DetachLoser(t) ==
    /\ At(t, "stopLoser")
    /\ thread' = [thread EXCEPT ![t].pc = "held", ![t].own = NoBuild]
    /\ UNCHANGED <<entries, queue, worker, pending, tx, life, actor>>

(* signal_and_detach of the loser's own actor; then the handle is returned. *)
StopLoser(t) ==
    /\ At(t, "stopLoser")
    /\ RequestStop(thread[t].own)
    /\ thread' = [thread EXCEPT ![t].pc = "held", ![t].own = NoBuild]
    /\ UNCHANGED <<entries, queue, worker, pending, tx, life>>

-----------------------------------------------------------------------------
(* SourceHandle::drop: release and offer_teardown.                          *)

(* One reference goes; other handles keep the entry.                        *)
ReleaseShared(t) ==
    /\ At(t, "held") /\ entries[thread[t].key].refs > 1
    /\ entries' = [entries EXCEPT ![thread[t].key].refs = @ - 1]
    /\ Return(t)
    /\ UNCHANGED <<queue, worker, pending, tx, life, actor>>

(* The last reference goes: the entry is removed, and its actor, if it has  *)
(* one, is now this thread's to offer.                                      *)
ReleaseLast(t) ==
    /\ At(t, "held") /\ entries[thread[t].key].refs <= 1
    /\ entries' = [entries EXCEPT ![thread[t].key] = NoEntry]
    /\ LET b == entries[thread[t].key].build
           owns == b # NoBuild /\ actor[b] # "absent"
       IN  thread' = [thread EXCEPT ![t] = IF owns THEN [Idle EXCEPT !.pc = "reserve", !.own = b]
                                                   ELSE Idle]
    /\ UNCHANGED <<queue, worker, pending, tx, life, actor>>

(* reserve_slot reads the counter ...                                       *)
LoadPending(t) ==
    /\ At(t, "reserve")
    /\ thread' = [thread EXCEPT ![t].pc = "cas", ![t].cur = pending]
    /\ UNCHANGED <<entries, queue, worker, pending, tx, life, actor>>

(* ... gives up when it read the ceiling ...                                *)
AtCeiling(t) ==
    /\ At(t, "cas") /\ thread[t].cur >= Capacity
    /\ thread' = [thread EXCEPT ![t].pc = "shed", ![t].cur = 0]
    /\ UNCHANGED <<entries, queue, worker, pending, tx, life, actor>>

(* Mutant: check, then increment whatever the counter has become.           *)
CheckThenAdd(t) ==
    /\ At(t, "cas") /\ thread[t].cur < Capacity
    /\ pending' = pending + 1
    /\ thread' = [thread EXCEPT ![t].pc = "clone", ![t].cur = 0]
    /\ UNCHANGED <<entries, queue, worker, tx, life, actor>>

(* ... claims a slot if the counter is still what it read ...               *)
CasOk(t) ==
    /\ At(t, "cas") /\ thread[t].cur < Capacity
    /\ pending = thread[t].cur
    /\ pending' = thread[t].cur + 1
    /\ thread' = [thread EXCEPT ![t].pc = "clone", ![t].cur = 0]
    /\ UNCHANGED <<entries, queue, worker, tx, life, actor>>

(* ... and takes the observed value and goes round again if it moved (a     *)
(* weak compare-exchange may also fail spuriously, which changes nothing).  *)
CasFails(t) ==
    /\ At(t, "cas") /\ thread[t].cur < Capacity
    /\ pending # thread[t].cur
    /\ thread' = [thread EXCEPT ![t].cur = pending]
    /\ UNCHANGED <<entries, queue, worker, pending, tx, life, actor>>

(* At the ceiling the actor is signalled and detached without a slot.       *)
Shed(t) ==
    /\ At(t, "shed")
    /\ RequestStop(thread[t].own)
    /\ Return(t)
    /\ UNCHANGED <<entries, queue, worker, pending, tx, life>>

(* Clone the sender under its lock; a registry shut down meanwhile has none *)
(* and the Teardown is dropped.                                             *)
CloneSender(t) ==
    /\ At(t, "clone")
    /\ Goto(t, IF tx THEN "send" ELSE "drop")
    /\ UNCHANGED <<entries, queue, worker, pending, tx, life, actor>>

(* The receiver lives while a worker thread does.                           *)
ReceiverAlive == \E w \in Workers : worker[w].pc # "gone"

(* try_send: the queue has room and a receiver.                             *)
TrySend(t) ==
    /\ At(t, "send") /\ ReceiverAlive /\ Len(queue) < Depth
    /\ queue' = Append(queue, thread[t].own)
    /\ Return(t)
    /\ UNCHANGED <<entries, worker, pending, tx, life, actor>>

(* Mutant: a refused teardown is shed but its slot is never given back.     *)
RefusedKeepsSlot(t) ==
    /\ At(t, "send") /\ ~(ReceiverAlive /\ Len(queue) < Depth)
    /\ Goto(t, "shed")
    /\ UNCHANGED <<entries, queue, worker, pending, tx, life, actor>>

(* try_send: Full, or Disconnected because no worker was ever spawned.      *)
SendRefused(t) ==
    /\ At(t, "send") /\ ~(ReceiverAlive /\ Len(queue) < Depth)
    /\ Goto(t, "drop")
    /\ UNCHANGED <<entries, queue, worker, pending, tx, life, actor>>

(* Mutant: the drop decrements itself, and so does the SlotGuard.           *)
DropDecrements(t) ==
    /\ At(t, "drop")
    /\ RequestStop(thread[t].own)
    /\ pending' = pending - 1
    /\ Goto(t, "unslot")
    /\ UNCHANGED <<entries, queue, worker, tx, life>>

(* Teardown::drop signals and detaches the actor ...                        *)
DropTeardown(t) ==
    /\ At(t, "drop")
    /\ RequestStop(thread[t].own)
    /\ Goto(t, "unslot")
    /\ UNCHANGED <<entries, queue, worker, pending, tx, life>>

(* ... and then its SlotGuard gives the slot back.                          *)
DropSlot(t) ==
    /\ At(t, "unslot")
    /\ pending' = pending - 1
    /\ Return(t)
    /\ UNCHANGED <<entries, queue, worker, tx, life, actor>>

-----------------------------------------------------------------------------
(* teardown_worker and Teardown::run.                                       *)

WorkerAt(w, pc) == worker[w].pc = pc

(* Every sender is gone: the registry's and the clones in offer_teardown.   *)
Disconnected == ~tx /\ \A t \in Threads : ~At(t, "send")

Receive(w) ==
    /\ WorkerAt(w, "idle") /\ queue # <<>>
    /\ worker' = [worker EXCEPT ![w] = [pc |-> "run", build |-> Head(queue)]]
    /\ queue' = Tail(queue)
    /\ UNCHANGED <<entries, thread, pending, tx, life, actor>>

(* recv returns Err only when the buffer is drained too.                    *)
WorkerExits(w) ==
    /\ WorkerAt(w, "idle") /\ queue = <<>> /\ Disconnected
    /\ worker' = [worker EXCEPT ![w].pc = "gone"]
    /\ UNCHANGED <<entries, thread, queue, pending, tx, life, actor>>

(* Mutant: run goes straight to the join.                                   *)
RunUnsignalled(w) ==
    /\ WorkerAt(w, "run")
    /\ worker' = [worker EXCEPT ![w].pc = "join"]
    /\ UNCHANGED <<entries, thread, queue, pending, tx, life, actor>>

(* run signals first ...                                                    *)
RunStop(w) ==
    /\ WorkerAt(w, "run")
    /\ RequestStop(worker[w].build)
    /\ worker' = [worker EXCEPT ![w].pc = "join"]
    /\ UNCHANGED <<entries, thread, queue, pending, tx, life>>

(* ... then joins the decode thread, or unwinds from a panic: either way    *)
(* the actor is consumed ...                                                *)
Joined(w) ==
    /\ WorkerAt(w, "join")
    /\ actor' = [actor EXCEPT ![worker[w].build] = "stopped"]
    /\ worker' = [worker EXCEPT ![w].pc = "unslot"]
    /\ UNCHANGED <<entries, thread, queue, pending, tx, life>>

(* ... or the join never returns.                                           *)
Wedge(w) ==
    /\ WorkerAt(w, "join")
    /\ Cardinality({v \in Workers : WorkerAt(v, "wedged")}) < MaxWedged
    /\ worker' = [worker EXCEPT ![w].pc = "wedged"]
    /\ UNCHANGED <<entries, thread, queue, pending, tx, life, actor>>

WorkerSlot(w) ==
    /\ WorkerAt(w, "unslot")
    /\ pending' = pending - 1
    /\ worker' = [worker EXCEPT ![w] = [pc |-> "idle", build |-> NoBuild]]
    /\ UNCHANGED <<entries, thread, queue, tx, life, actor>>

-----------------------------------------------------------------------------
(* shutdown disconnects the queue ...                                       *)
Shutdown ==
    /\ life = "up"
    /\ tx' = FALSE /\ life' = "joining"
    /\ UNCHANGED <<entries, thread, queue, worker, pending, actor>>

(* ... and grace_join returns when the workers are gone or the grace period *)
(* is over, whichever is first: stragglers are detached, not waited for.    *)
GraceJoinReturns ==
    /\ life = "joining"
    /\ life' = "joined"
    /\ UNCHANGED <<entries, thread, queue, worker, pending, tx, actor>>

(* The registry's Drop: no handle is left (each holds an Arc on it).        *)
DropRegistry ==
    /\ life \in {"up", "joined"}
    /\ \A t \in Threads : At(t, "idle")
    /\ tx' = FALSE /\ life' = "dropped"
    /\ UNCHANGED <<entries, thread, queue, worker, pending, actor>>

(* What a thread inside acquire or drop does next, without a choice.        *)
ThreadStep(t) ==
    \/ InsertWins(t) \/ InsertLoses(t) \/ StopLoser(t)
    \/ LoadPending(t) \/ AtCeiling(t) \/ CasOk(t) \/ CasFails(t) \/ Shed(t)
    \/ CloneSender(t) \/ TrySend(t) \/ SendRefused(t)
    \/ DropTeardown(t) \/ DropSlot(t)

WorkerStep(w) ==
    \/ Receive(w) \/ WorkerExits(w) \/ RunStop(w) \/ Joined(w) \/ WorkerSlot(w)

Next ==
    \/ \E t \in Threads, k \in Keys : AcquireShared(t, k) \/ AcquireFirst(t, k)
    \/ \E t \in Threads :
          \/ FactoryOk(t) \/ FactoryFails(t)
          \/ ReleaseShared(t) \/ ReleaseLast(t)
          \/ ThreadStep(t)
    \/ \E w \in Workers : WorkerStep(w) \/ Wedge(w)
    \/ Shutdown \/ GraceJoinReturns \/ DropRegistry

Spec == Init /\ [][Next]_vars

(* Threads and workers are operating-system threads: the scheduler runs     *)
(* each of them again.  Nobody has to acquire, release or shut down.        *)
FairSpec ==
    /\ Spec
    /\ \A t \in Threads : WF_vars(ThreadStep(t))
    /\ \A w \in Workers : WF_vars(WorkerStep(w))

-----------------------------------------------------------------------------
(* Properties.                                                              *)

HasHandle(t, k) == thread[t].pc \in {"held", "stopLoser"} /\ thread[t].key = k
Handles(k)      == {t \in Threads : HasHandle(t, k)}

(* Decode once, use many: whatever races on first reference or last release *)
(* happened, a live handle samples the store that is registered for its key *)
(* now, so all handles of a key share one decode (registry.rs, acquire).    *)
SharedStore ==
    \A t \in Threads, k \in Keys :
        HasHandle(t, k) => Registered(k) /\ thread[t].store = entries[k].build

(* The refcount of an entry is the number of its live handles, and there is *)
(* no entry without one: a source is neither torn down under a handle nor   *)
(* kept after the last one (registry.rs, acquire_inner and release).        *)
RefsCountHandles == \A k \in Keys : entries[k].refs = Cardinality(Handles(k))

(* A registered source's decode has not been told to stop: neither the      *)
(* loser of a first-reference race nor a teardown of an earlier incarnation *)
(* of the key ever touches it (registry.rs, signal_and_detach).             *)
HeldSourceRuns ==
    \A k \in Keys : Registered(k) => actor[entries[k].build] \in {"running", "absent"}

(* Decode once, use many: the registered store is the one every handle      *)
(* samples, for exactly as long as there are handles (registry.rs,          *)
(* acquire_inner and release).                                              *)
OneDecodePerKey == SharedStore /\ RefsCountHandles

(* pending_teardowns never exceeds the queue depth plus the worker count,   *)
(* however many last releases contend (registry.rs, reserve_slot).          *)
PendingBounded == pending <= Capacity

SlotOf(b) ==
    \/ \E t \in Threads : thread[t].own = b /\ thread[t].pc \in {"clone", "send", "drop", "unslot"}
    \/ \E i \in 1 .. Len(queue) : queue[i] = b
    \/ \E w \in Workers : worker[w].build = b

(* The counter is exact: it counts the teardowns that hold a slot, on a     *)
(* releasing thread, in the queue or on a worker, so no path leaks a slot   *)
(* or gives one back twice (registry.rs, SlotGuard).                        *)
SlotsCounted == pending = Cardinality({b \in Builds : SlotOf(b)})

(* A decode that has not been told to stop is in the registry, or somebody  *)
(* still holds its actor and will tell it: no interleaving drops an actor   *)
(* that runs on (registry.rs, SourceActor).                                 *)
NoDecodeLeaks ==
    \A b \in Builds :
        actor[b] = "running" =>
            \/ \E k \in Keys : entries[k].build = b
            \/ \E t \in Threads : thread[t].own = b
            \/ \E i \in 1 .. Len(queue) : queue[i] = b
            \/ \E w \in Workers : worker[w].build = b

(* No decode is stopped under a handle and none runs on without an owner    *)
(* (registry.rs, SourceActor and signal_and_detach).                        *)
DecodesAccounted == HeldSourceRuns /\ NoDecodeLeaks

Orphaned(b) == actor[b] = "running" /\ \A k \in Keys : entries[k].build # b

(* A source nobody references any more is told to stop, although one join   *)
(* may wedge for ever: a sibling worker keeps draining the queue            *)
(* (registry.rs, TEARDOWN_WORKERS).                                         *)
OrphanStops == \A b \in Builds : Orphaned(b) ~> ~Orphaned(b)
=============================================================================
