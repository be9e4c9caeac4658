------------------------ MODULE SourceRegistryProofs ------------------------
(***************************************************************************)
(* Proofs about the source registry, for any number of keys, threads,      *)
(* workers and builds: the teardown ceiling, the exactness of the          *)
(* refcounts and of the slot counter, that all handles of a key share one  *)
(* store, and that a decode runs exactly while somebody answers for it.    *)
(***************************************************************************)
EXTENDS SourceRegistry, FiniteSetTheorems, TLAPS, Integers

ThreadRec == [pc : ThreadPcs, key : Keys \cup {NoKey}, store : Builds \cup {NoBuild},
              own : Builds \cup {NoBuild}, cur : Int]
EntryRec  == [build : Builds \cup {NoBuild}, refs : Nat]

(* The part of the type invariant the proofs need.  The counter is only an  *)
(* integer here: that it stays a natural is the slot accounting.            *)
Types ==
    /\ thread \in [Threads -> ThreadRec]
    /\ entries \in [Keys -> EntryRec]
    /\ pending \in Int

(* Inside acquire a thread knows its key, and it inserts a real build.      *)
Acquiring ==
    \A t \in Threads :
        /\ thread[t].pc \in {"factory", "insert", "stopLoser", "held"} => thread[t].key \in Keys
        /\ thread[t].pc = "insert" => thread[t].own # NoBuild

(* An entry is present exactly while it has references.                     *)
PresentIffReferenced == \A k \in Keys : Registered(k) <=> entries[k].refs # 0

RegistryInv == Types /\ Acquiring /\ PresentIffReferenced /\ SharedStore /\ RefsCountHandles

LEMMA CapacityNat == Capacity \in Nat
  BY DepthAssumption, ThreadsFinite, FS_CardinalityType DEF Capacity

LEMMA HandlesFinite == \A k \in Keys : IsFiniteSet(Handles(k)) /\ Cardinality(Handles(k)) \in Nat
<1> SUFFICES ASSUME NEW k \in Keys PROVE IsFiniteSet(Handles(k)) /\ Cardinality(Handles(k)) \in Nat
  OBVIOUS
<1>1. IsFiniteSet(Handles(k))
  BY ThreadsFinite, FS_Subset DEF Handles
<1> QED BY <1>1, FS_CardinalityType

LEMMA InitRegistryInv == Init => RegistryInv
<1> SUFFICES ASSUME Init PROVE RegistryInv
  OBVIOUS
<1>1. Types
  BY DEF Init, Types, ThreadRec, EntryRec, NoEntry, Idle, ThreadPcs
<1>2. Acquiring /\ PresentIffReferenced /\ SharedStore
  BY DEF Init, Acquiring, PresentIffReferenced, SharedStore, NoEntry, Idle, Registered, HasHandle
<1>3. ASSUME NEW k \in Keys PROVE entries[k].refs = Cardinality(Handles(k))
  <2>1. Handles(k) = {}
    BY DEF Init, Idle, Handles, HasHandle
  <2> QED BY <2>1, FS_EmptySet DEF Init, NoEntry
<1> QED BY <1>1, <1>2, <1>3 DEF RegistryInv, RefsCountHandles

(* A step that leaves the entries alone and changes neither who has a       *)
(* handle nor which store it shares.                                        *)
LEMMA NoHandleStep ==
  ASSUME RegistryInv, Types', Acquiring', entries' = entries,
         \A t \in Threads : thread'[t].pc \in {"held", "stopLoser"} <=> thread[t].pc \in {"held", "stopLoser"},
         \A t \in Threads : thread[t].pc \in {"held", "stopLoser"} =>
                               thread'[t].key = thread[t].key /\ thread'[t].store = thread[t].store
  PROVE  RegistryInv'
<1>1. PresentIffReferenced'
  BY DEF RegistryInv, PresentIffReferenced, Registered
<1>2. SharedStore'
  BY DEF RegistryInv, SharedStore, HasHandle, Registered
<1>3. \A k \in Keys : Handles(k)' = Handles(k)
  BY DEF Handles, HasHandle
<1>4. RefsCountHandles'
  BY <1>3 DEF RegistryInv, RefsCountHandles
<1> QED BY <1>1, <1>2, <1>4 DEF RegistryInv

(* A thread gains a handle on k, counted in the entry.                      *)
LEMMA GainHandle ==
  ASSUME RegistryInv, Types', Acquiring',
         NEW t \in Threads, NEW k \in Keys,
         thread[t].pc \notin {"held", "stopLoser"},
         thread'[t].pc \in {"held", "stopLoser"}, thread'[t].key = k,
         \A u \in Threads : u # t => thread'[u] = thread[u],
         \A j \in Keys : j # k => entries'[j] = entries[j],
         entries'[k].refs = entries[k].refs + 1,
         entries'[k].build # NoBuild,
         thread'[t].store = entries'[k].build,
         Registered(k) => entries'[k].build = entries[k].build
  PROVE  RegistryInv'
<1>1. /\ Handles(k)' = Handles(k) \cup {t} /\ t \notin Handles(k)
      /\ \A j \in Keys : j # k => Handles(j)' = Handles(j)
  BY DEF Handles, HasHandle
<1>2. entries[k].refs \in Nat
  BY DEF RegistryInv, Types, EntryRec
<1>3. RefsCountHandles'
  <2> SUFFICES ASSUME NEW j \in Keys PROVE entries'[j].refs = Cardinality(Handles(j)')
    BY DEF RefsCountHandles
  <2>1. CASE j = k
    <3>1. Cardinality(Handles(k)') = Cardinality(Handles(k)) + 1
      <4>1. IsFiniteSet(Handles(k))
        BY HandlesFinite
      <4>2. t \notin Handles(k) => Cardinality(Handles(k) \cup {t}) = Cardinality(Handles(k)) + 1
        BY ONLY <4>1, FS_AddElement
      <4> QED BY ONLY <1>1, <4>2
    <3> QED BY <2>1, <3>1 DEF RegistryInv, RefsCountHandles
  <2>2. CASE j # k
    BY <2>2, <1>1 DEF RegistryInv, RefsCountHandles
  <2> QED BY <2>1, <2>2
<1>4. PresentIffReferenced'
  BY <1>2 DEF RegistryInv, PresentIffReferenced, Registered
<1>5. SharedStore'
  <2> SUFFICES ASSUME NEW u \in Threads, NEW j \in Keys, HasHandle(u, j)'
               PROVE  Registered(j)' /\ thread'[u].store = entries'[j].build
    BY DEF SharedStore
  <2>1. CASE u = t
    BY <2>1 DEF HasHandle, Registered
  <2>2. CASE u # t
    <3>1. HasHandle(u, j)
      BY <2>2 DEF HasHandle
    <3>2. Registered(j) /\ thread[u].store = entries[j].build
      BY <3>1 DEF RegistryInv, SharedStore
    <3> QED BY <2>2, <3>2 DEF Registered
  <2> QED BY <2>1, <2>2
<1> QED BY <1>3, <1>4, <1>5 DEF RegistryInv

(* A thread drops its handle; its key's entry loses one reference, or goes  *)
(* when it had at most one.                                                 *)
LEMMA LoseHandle ==
  ASSUME RegistryInv, Types', Acquiring', NEW t \in Threads, NEW k \in Keys,
         thread[t].pc = "held", thread[t].key = k, thread'[t].pc \notin {"held", "stopLoser"},
         \A u \in Threads : u # t => thread'[u] = thread[u],
         \A j \in Keys : j # k => entries'[j] = entries[j],
         \/ /\ entries[k].refs > 1
            /\ entries'[k].refs = entries[k].refs - 1
            /\ entries'[k].build = entries[k].build
         \/ /\ entries[k].refs <= 1
            /\ entries'[k] = NoEntry
  PROVE  RegistryInv'
<1>2. /\ Handles(k)' = Handles(k) \ {t} /\ t \in Handles(k)
      /\ \A j \in Keys : j # k => Handles(j)' = Handles(j)
  BY DEF Handles, HasHandle
<1>3. /\ entries[k].refs \in Nat /\ entries[k].refs = Cardinality(Handles(k))
      /\ (Registered(k) <=> entries[k].refs # 0)
  BY DEF RegistryInv, Types, EntryRec, RefsCountHandles, PresentIffReferenced
<1>4. Cardinality(Handles(k)') = Cardinality(Handles(k)) - 1
  <2>1. IsFiniteSet(Handles(k))
    BY HandlesFinite
  <2>2. t \in Handles(k) => Cardinality(Handles(k) \ {t}) = Cardinality(Handles(k)) - 1
    BY ONLY <2>1, FS_RemoveElement
  <2> QED BY ONLY <1>2, <2>2
<1>5. entries[k].refs # 0
  <2>1. HasHandle(t, k)
    BY DEF HasHandle
  <2> QED BY <2>1, <1>3 DEF RegistryInv, SharedStore
<1>6. entries'[k].refs = entries[k].refs - 1 /\ (entries'[k].build # NoBuild <=> entries'[k].refs # 0)
  BY <1>3, <1>5 DEF NoEntry, Registered
<1>7. RefsCountHandles'
  <2> SUFFICES ASSUME NEW j \in Keys PROVE entries'[j].refs = Cardinality(Handles(j)')
    BY DEF RefsCountHandles
  <2>1. CASE j = k
    BY <2>1, <1>3, <1>4, <1>6
  <2>2. CASE j # k
    BY <2>2, <1>2 DEF RegistryInv, RefsCountHandles
  <2> QED BY <2>1, <2>2
<1>8. PresentIffReferenced'
  BY <1>6 DEF RegistryInv, PresentIffReferenced, Registered
<1>9. SharedStore'
  <2> SUFFICES ASSUME NEW u \in Threads, NEW j \in Keys, HasHandle(u, j)'
               PROVE  Registered(j)' /\ thread'[u].store = entries'[j].build
    BY DEF SharedStore
  <2>1. u # t /\ HasHandle(u, j)
    BY DEF HasHandle
  <2>2. Registered(j) /\ thread[u].store = entries[j].build
    BY <2>1 DEF RegistryInv, SharedStore
  <2>3. CASE j # k
    BY <2>1, <2>2, <2>3 DEF Registered
  <2>4. CASE j = k
    <3>1. u \in Handles(k)'
      BY <2>4 DEF Handles
    <3>2. Cardinality(Handles(k)') # 0
      <4>1. IsFiniteSet(Handles(k)')
        BY <1>2, HandlesFinite, FS_Subset
      <4> QED BY <3>1, <4>1, FS_EmptySet
    <3>3. entries[k].refs > 1
      BY <3>2, <1>3, <1>4, <1>5
    <3>4. entries'[k].build = entries[k].build
      BY <3>3, <1>3
    <3> QED BY <2>1, <2>2, <2>4, <3>4 DEF Registered
  <2> QED BY <2>3, <2>4
<1> QED BY <1>7, <1>8, <1>9 DEF RegistryInv

LEMMA PcFacts ==
  /\ "idle" \in ThreadPcs /\ "insert" \in ThreadPcs /\ "stopLoser" \in ThreadPcs
  /\ "held" \in ThreadPcs /\ "reserve" \in ThreadPcs /\ "shed" \in ThreadPcs
  /\ "clone" \in ThreadPcs /\ 0 \in Int
<1>1. 0 \in Int
  OBVIOUS
<1> QED BY <1>1 DEF ThreadPcs

(* The actions of a thread keep the types and the facts about acquiring.    *)
LEMMA ThreadTypes ==
  ASSUME RegistryInv, NEW t \in Threads,
         \/ \E k \in Keys : AcquireShared(t, k) \/ AcquireFirst(t, k)
         \/ FactoryOk(t) \/ FactoryFails(t) \/ ReleaseShared(t) \/ ReleaseLast(t) \/ ThreadStep(t)
  PROVE  Types' /\ Acquiring'
<1>a. thread \in [Threads -> ThreadRec]
  BY DEF RegistryInv, Types
<1>b. entries \in [Keys -> EntryRec]
  BY DEF RegistryInv, Types
<1>c. pending \in Int
  BY DEF RegistryInv, Types
<1>d. Acquiring
  BY DEF RegistryInv
<1>1. ASSUME NEW k \in Keys, AcquireShared(t, k) PROVE Types' /\ Acquiring'
  <2>0. entries[k].build \in Builds \cup {NoBuild}
    BY <1>a, <1>b, <1>d, <1>1 DEF AcquireShared, EntryRec, Acquiring, At
  <2>a. thread' = [thread EXCEPT ![t].pc = "held", ![t].key = k, ![t].store = entries[k].build]
    BY <1>1 DEF AcquireShared
  <2>1. thread' \in [Threads -> ThreadRec]
    BY <1>a, <2>0, <2>a, PcFacts, ZenonT(40) DEF ThreadRec
  <2>2. entries' \in [Keys -> EntryRec]
    <3>1. entries[k].refs + 1 \in Nat
      BY <1>b DEF EntryRec
    <3> QED BY <1>b, <1>1, <3>1 DEF AcquireShared, Bump, EntryRec
  <2>3. pending' \in Int
    BY <1>a, <1>c, <1>1 DEF AcquireShared, ThreadRec
  <2>4. Acquiring'
    BY <1>a, <1>d, <1>1, ZenonT(40) DEF AcquireShared, Bump, Acquiring, ThreadRec, At
  <2> QED BY <2>1, <2>2, <2>3, <2>4 DEF Types
<1>2. ASSUME NEW k \in Keys, AcquireFirst(t, k) PROVE Types' /\ Acquiring'
  <2>1. thread' \in [Threads -> ThreadRec]
    BY <1>a, <1>2, ZenonT(40) DEF AcquireFirst, ThreadRec, ThreadPcs
  <2>2. entries' \in [Keys -> EntryRec]
    BY <1>a, <1>b, <1>d, <1>2 DEF AcquireFirst, EntryRec, ThreadRec, Acquiring, At, NoEntry
  <2>3. pending' \in Int
    BY <1>a, <1>c, <1>2 DEF AcquireFirst, ThreadRec
  <2>4. Acquiring'
    BY <1>a, <1>d, <1>2 DEF AcquireFirst, Acquiring, ThreadRec, At
  <2> QED BY <2>1, <2>2, <2>3, <2>4 DEF Types
<1>3. CASE FactoryOk(t)
  <2>a. PICK b \in Builds : thread' = [thread EXCEPT ![t].pc = "insert", ![t].own = b]
    BY <1>3 DEF FactoryOk
  <2>1. thread' \in [Threads -> ThreadRec]
    BY <1>a, <2>a, ZenonT(40) DEF ThreadRec, ThreadPcs
  <2>2. entries' \in [Keys -> EntryRec]
    BY <1>a, <1>b, <1>d, <1>3 DEF FactoryOk, Builds, NoBuild, EntryRec, ThreadRec, Acquiring, At, NoEntry
  <2>3. pending' \in Int
    BY <1>a, <1>c, <1>3 DEF FactoryOk, ThreadRec
  <2>4. Acquiring'
    <3>1. b # NoBuild
      BY DEF Builds, NoBuild
    <3>2. thread[t].key \in Keys
      BY <1>d, <1>3 DEF FactoryOk, At, Acquiring
    <3> QED BY <1>a, <1>d, <2>a, <3>1, <3>2 DEF Acquiring, ThreadRec
  <2> QED BY <2>1, <2>2, <2>3, <2>4 DEF Types
<1>4. CASE ReleaseShared(t)
  <2>1. thread' \in [Threads -> ThreadRec]
    BY <1>a, <1>4 DEF ReleaseShared, ThreadRec, ThreadPcs, Return, Idle
  <2>2. entries' \in [Keys -> EntryRec]
    BY <1>a, <1>b, <1>d, <1>4 DEF ReleaseShared, EntryRec, ThreadRec, Acquiring, At, NoEntry
  <2>3. pending' \in Int
    BY <1>a, <1>c, <1>4 DEF ReleaseShared, ThreadRec
  <2>4. Acquiring'
    BY <1>a, <1>d, <1>4 DEF ReleaseShared, Acquiring, ThreadRec, At, Return, Idle
  <2> QED BY <2>1, <2>2, <2>3, <2>4 DEF Types
<1>5. CASE ReleaseLast(t)
  <2>0. thread[t].key \in Keys /\ entries[thread[t].key].build \in Builds \cup {NoBuild}
    BY <1>a, <1>b, <1>d, <1>5 DEF ReleaseLast, EntryRec, Acquiring, At
  <2>a. \A b \in Builds \cup {NoBuild} : [Idle EXCEPT !.pc = "reserve", !.own = b] \in ThreadRec
    BY PcFacts, Zenon DEF Idle, ThreadRec
  <2>b. Idle \in ThreadRec
    BY DEF Idle, ThreadRec, ThreadPcs
  <2>c. \E x \in ThreadRec : thread' = [thread EXCEPT ![t] = x]
    BY <1>5, <2>0, <2>a, <2>b DEF ReleaseLast
  <2>1. thread' \in [Threads -> ThreadRec]
    BY <1>a, <2>c
  <2>2. entries' \in [Keys -> EntryRec]
    BY <1>a, <1>b, <1>d, <1>5, <2>0 DEF ReleaseLast, EntryRec, ThreadRec, Acquiring, At, NoEntry
  <2>3. pending' \in Int
    BY <1>a, <1>c, <1>5 DEF ReleaseLast, ThreadRec
  <2>4. Acquiring'
    BY <1>a, <1>d, <1>5 DEF ReleaseLast, Acquiring, ThreadRec, At, Idle
  <2> QED BY <2>1, <2>2, <2>3, <2>4 DEF Types
<1>6. CASE InsertWins(t)
  <2>0. thread' = [thread EXCEPT ![t].pc = "held", ![t].store = thread[t].own, ![t].own = NoBuild]
    BY <1>6 DEF InsertWins
  <2>1. thread' \in [Threads -> ThreadRec]
    BY <1>a, <2>0, PcFacts, ZenonT(40) DEF ThreadRec
  <2>2. entries' \in [Keys -> EntryRec]
    BY <1>a, <1>b, <1>d, <1>6 DEF InsertWins, EntryRec, ThreadRec, Acquiring, At, NoEntry
  <2>3. pending' \in Int
    BY <1>a, <1>c, <1>6 DEF InsertWins, ThreadRec
  <2>4. Acquiring'
    BY <1>a, <1>d, <1>6 DEF InsertWins, Acquiring, ThreadRec, At
  <2> QED BY <2>1, <2>2, <2>3, <2>4 DEF Types
<1>7. CASE InsertLoses(t)
  <2>0. thread[t].key \in Keys /\ entries[thread[t].key].build \in Builds \cup {NoBuild}
    BY <1>a, <1>b, <1>d, <1>7 DEF InsertLoses, EntryRec, Acquiring, At
  <2>a. PICK p \in {"stopLoser", "held"}, o \in {thread[t].own, NoBuild} :
           thread' = [thread EXCEPT ![t].pc = p, ![t].own = o,
                                    ![t].store = entries[thread[t].key].build]
    BY <1>a, <1>7 DEF InsertLoses
  <2>b. p \in ThreadPcs /\ o \in Builds \cup {NoBuild}
    BY <1>a, PcFacts DEF ThreadRec
  <2>c. /\ thread[t] \in ThreadRec
        /\ \A q \in Builds \cup {NoBuild} :
              [thread[t] EXCEPT !.pc = p, !.own = o, !.store = q] \in ThreadRec
    BY <1>a, <2>b DEF ThreadRec
  <2>1. thread' \in [Threads -> ThreadRec]
    BY <1>a, <2>0, <2>a, <2>c
  <2>2. entries' \in [Keys -> EntryRec]
    BY <1>a, <1>b, <1>d, <1>7, <2>0 DEF InsertLoses, Bump, EntryRec, ThreadRec, Acquiring, At, NoEntry
  <2>3. pending' \in Int
    BY <1>a, <1>c, <1>7 DEF InsertLoses, ThreadRec
  <2>4. Acquiring'
    BY <1>a, <1>d, <1>7 DEF InsertLoses, Bump, Acquiring, ThreadRec, At
  <2> QED BY <2>1, <2>2, <2>3, <2>4 DEF Types
<1>8. CASE StopLoser(t)
  <2>1. thread' \in [Threads -> ThreadRec]
    BY <1>a, <1>8, ZenonT(40) DEF StopLoser, ThreadRec, ThreadPcs
  <2>2. entries' \in [Keys -> EntryRec]
    BY <1>a, <1>b, <1>d, <1>8 DEF StopLoser, EntryRec, ThreadRec, Acquiring, At, NoEntry
  <2>3. pending' \in Int
    BY <1>a, <1>c, <1>8 DEF StopLoser, ThreadRec
  <2>4. Acquiring'
    BY <1>a, <1>d, <1>8 DEF StopLoser, Acquiring, ThreadRec, At
  <2> QED BY <2>1, <2>2, <2>3, <2>4 DEF Types
<1>9. CASE LoadPending(t)
  <2>1. thread' \in [Threads -> ThreadRec]
    BY <1>a, <1>c, <1>9, ZenonT(40) DEF LoadPending, ThreadRec, ThreadPcs
  <2>2. entries' \in [Keys -> EntryRec]
    BY <1>a, <1>b, <1>d, <1>9 DEF LoadPending, EntryRec, ThreadRec, Acquiring, At, NoEntry
  <2>3. pending' \in Int
    BY <1>a, <1>c, <1>9 DEF LoadPending, ThreadRec
  <2>4. Acquiring'
    BY <1>a, <1>d, <1>9 DEF LoadPending, Acquiring, ThreadRec, At
  <2> QED BY <2>1, <2>2, <2>3, <2>4 DEF Types
<1>10. CASE AtCeiling(t)
  <2>0. thread' = [thread EXCEPT ![t].pc = "shed", ![t].cur = 0]
    BY <1>10 DEF AtCeiling
  <2>1. thread' \in [Threads -> ThreadRec]
    BY <1>a, <2>0, PcFacts DEF ThreadRec
  <2>2. entries' \in [Keys -> EntryRec]
    BY <1>a, <1>b, <1>d, <1>10 DEF AtCeiling, EntryRec, ThreadRec, Acquiring, At, NoEntry
  <2>3. pending' \in Int
    BY <1>a, <1>c, <1>10 DEF AtCeiling, ThreadRec
  <2>4. Acquiring'
    BY <1>a, <1>d, <1>10 DEF AtCeiling, Acquiring, ThreadRec, At
  <2> QED BY <2>1, <2>2, <2>3, <2>4 DEF Types
<1>11. CASE CasOk(t)
  <2>0. thread' = [thread EXCEPT ![t].pc = "clone", ![t].cur = 0]
    BY <1>11 DEF CasOk
  <2>1. thread' \in [Threads -> ThreadRec]
    BY <1>a, <2>0, PcFacts DEF ThreadRec
  <2>2. entries' \in [Keys -> EntryRec]
    BY <1>a, <1>b, <1>d, <1>11 DEF CasOk, EntryRec, ThreadRec, Acquiring, At, NoEntry
  <2>3. pending' \in Int
    BY <1>a, <1>c, <1>11 DEF CasOk, ThreadRec
  <2>4. Acquiring'
    BY <1>a, <1>d, <1>11 DEF CasOk, Acquiring, ThreadRec, At
  <2> QED BY <2>1, <2>2, <2>3, <2>4 DEF Types
<1>12. CASE CasFails(t)
  <2>1. thread' \in [Threads -> ThreadRec]
    BY <1>a, <1>c, <1>12 DEF CasFails, ThreadRec, ThreadPcs
  <2>2. entries' \in [Keys -> EntryRec]
    BY <1>a, <1>b, <1>d, <1>12 DEF CasFails, EntryRec, ThreadRec, Acquiring, At, NoEntry
  <2>3. pending' \in Int
    BY <1>a, <1>c, <1>12 DEF CasFails, ThreadRec
  <2>4. Acquiring'
    BY <1>a, <1>d, <1>12 DEF CasFails, Acquiring, ThreadRec, At
  <2> QED BY <2>1, <2>2, <2>3, <2>4 DEF Types
<1>13. CASE Shed(t)
  <2>1. thread' \in [Threads -> ThreadRec]
    BY <1>a, <1>13 DEF Shed, ThreadRec, ThreadPcs, Return, Idle
  <2>2. entries' \in [Keys -> EntryRec]
    BY <1>a, <1>b, <1>d, <1>13 DEF Shed, EntryRec, ThreadRec, Acquiring, At, NoEntry
  <2>3. pending' \in Int
    BY <1>a, <1>c, <1>13 DEF Shed, ThreadRec
  <2>4. Acquiring'
    BY <1>a, <1>d, <1>13 DEF Shed, Acquiring, ThreadRec, At, Return, Idle
  <2> QED BY <2>1, <2>2, <2>3, <2>4 DEF Types
<1>14. CASE CloneSender(t)
  <2>1. thread' \in [Threads -> ThreadRec]
    BY <1>a, <1>14 DEF CloneSender, ThreadRec, ThreadPcs, Goto
  <2>2. entries' \in [Keys -> EntryRec]
    BY <1>a, <1>b, <1>d, <1>14 DEF CloneSender, EntryRec, ThreadRec, Acquiring, At, NoEntry
  <2>3. pending' \in Int
    BY <1>a, <1>c, <1>14 DEF CloneSender, ThreadRec
  <2>4. Acquiring'
    BY <1>a, <1>d, <1>14 DEF CloneSender, Acquiring, ThreadRec, At, Goto
  <2> QED BY <2>1, <2>2, <2>3, <2>4 DEF Types
<1>15. CASE TrySend(t)
  <2>1. thread' \in [Threads -> ThreadRec]
    BY <1>a, <1>15 DEF TrySend, ThreadRec, ThreadPcs, Return, Idle
  <2>2. entries' \in [Keys -> EntryRec]
    BY <1>a, <1>b, <1>d, <1>15 DEF TrySend, EntryRec, ThreadRec, Acquiring, At, NoEntry
  <2>3. pending' \in Int
    BY <1>a, <1>c, <1>15 DEF TrySend, ThreadRec
  <2>4. Acquiring'
    BY <1>a, <1>d, <1>15 DEF TrySend, Acquiring, ThreadRec, At, Return, Idle
  <2> QED BY <2>1, <2>2, <2>3, <2>4 DEF Types
<1>16. CASE SendRefused(t)
  <2>1. thread' \in [Threads -> ThreadRec]
    BY <1>a, <1>16 DEF SendRefused, ThreadRec, ThreadPcs, Goto
  <2>2. entries' \in [Keys -> EntryRec]
    BY <1>a, <1>b, <1>d, <1>16 DEF SendRefused, EntryRec, ThreadRec, Acquiring, At, NoEntry
  <2>3. pending' \in Int
    BY <1>a, <1>c, <1>16 DEF SendRefused, ThreadRec
  <2>4. Acquiring'
    BY <1>a, <1>d, <1>16 DEF SendRefused, Acquiring, ThreadRec, At, Goto
  <2> QED BY <2>1, <2>2, <2>3, <2>4 DEF Types
<1>17. CASE DropTeardown(t)
  <2>1. thread' \in [Threads -> ThreadRec]
    BY <1>a, <1>17 DEF DropTeardown, ThreadRec, ThreadPcs, Goto
  <2>2. entries' \in [Keys -> EntryRec]
    BY <1>a, <1>b, <1>d, <1>17 DEF DropTeardown, EntryRec, ThreadRec, Acquiring, At, NoEntry
  <2>3. pending' \in Int
    BY <1>a, <1>c, <1>17 DEF DropTeardown, ThreadRec
  <2>4. Acquiring'
    BY <1>a, <1>d, <1>17 DEF DropTeardown, Acquiring, ThreadRec, At, Goto
  <2> QED BY <2>1, <2>2, <2>3, <2>4 DEF Types
<1>18. CASE DropSlot(t)
  <2>1. thread' \in [Threads -> ThreadRec]
    BY <1>a, <1>18 DEF DropSlot, ThreadRec, ThreadPcs, Return, Idle
  <2>2. entries' \in [Keys -> EntryRec]
    BY <1>a, <1>b, <1>d, <1>18 DEF DropSlot, EntryRec, ThreadRec, Acquiring, At, NoEntry
  <2>3. pending' \in Int
    BY <1>a, <1>c, <1>18 DEF DropSlot, ThreadRec
  <2>4. Acquiring'
    BY <1>a, <1>d, <1>18 DEF DropSlot, Acquiring, ThreadRec, At, Return, Idle
  <2> QED BY <2>1, <2>2, <2>3, <2>4 DEF Types
<1>19. CASE FactoryFails(t)
  <2>1. thread' \in [Threads -> ThreadRec]
    BY <1>a, <1>19 DEF FactoryFails, ThreadRec, ThreadPcs, Return, Idle
  <2>2. entries' \in [Keys -> EntryRec]
    BY <1>a, <1>b, <1>d, <1>19 DEF FactoryFails, EntryRec, ThreadRec, Acquiring, At, NoEntry
  <2>3. pending' \in Int
    BY <1>a, <1>c, <1>19 DEF FactoryFails, ThreadRec
  <2>4. Acquiring'
    BY <1>a, <1>d, <1>19 DEF FactoryFails, Acquiring, ThreadRec, At, Return, Idle
  <2> QED BY <2>1, <2>2, <2>3, <2>4 DEF Types
<1> QED BY <1>1, <1>2, <1>3, <1>4, <1>5, <1>6, <1>7, <1>8, <1>9, <1>10, <1>11, <1>12, <1>13, <1>14, <1>15, <1>16, <1>17, <1>18, <1>19 DEF ThreadStep

(* Every step keeps the invariant.                                          *)
LEMMA StepRegistryInv == RegistryInv /\ [Next]_vars => RegistryInv'
<1> SUFFICES ASSUME RegistryInv, [Next]_vars PROVE RegistryInv'
  OBVIOUS
<1>0. Types /\ Acquiring
  BY DEF RegistryInv
<1>1. ASSUME NEW t \in Threads, NEW k \in Keys, AcquireShared(t, k) PROVE RegistryInv'
  <2>1. Types' /\ Acquiring'
    BY <1>1, ThreadTypes
  <2> QED BY <1>0, <1>1, <2>1, GainHandle DEF AcquireShared, Bump, Types, ThreadRec, EntryRec, At, Registered
<1>2. ASSUME NEW t \in Threads, NEW k \in Keys, AcquireFirst(t, k) PROVE RegistryInv'
  <2>1. Types' /\ Acquiring'
    BY <1>2, ThreadTypes
  <2> QED BY <1>0, <1>2, <2>1, NoHandleStep DEF AcquireFirst, Types, ThreadRec, At
<1>3. ASSUME NEW t \in Threads, InsertWins(t) PROVE RegistryInv'
  <2>1. Types' /\ Acquiring'
    BY <1>3, ThreadTypes DEF ThreadStep
  <2>2. thread[t].key \in Keys /\ thread[t].own # NoBuild
    BY <1>0, <1>3 DEF InsertWins, At, Acquiring
  <2>3. entries[thread[t].key].refs = 0
    BY <2>2, <1>3 DEF InsertWins, RegistryInv, PresentIffReferenced
  <2> QED BY <1>0, <1>3, <2>1, <2>2, <2>3, GainHandle DEF InsertWins, Types, ThreadRec, EntryRec, At, Registered
<1>4. ASSUME NEW t \in Threads, InsertLoses(t) PROVE RegistryInv'
  <2>1. Types' /\ Acquiring'
    BY <1>4, ThreadTypes DEF ThreadStep
  <2>2. thread[t].key \in Keys
    BY <1>0, <1>4 DEF InsertLoses, At, Acquiring
  <2> QED BY <1>0, <1>4, <2>1, <2>2, GainHandle, ZenonT(40) DEF InsertLoses, Bump, Types, ThreadRec, EntryRec, At, Registered
<1>5. ASSUME NEW t \in Threads, ReleaseShared(t) PROVE RegistryInv'
  <2>1. Types' /\ Acquiring'
    BY <1>5, ThreadTypes
  <2>2. thread[t].key \in Keys
    BY <1>0, <1>5 DEF ReleaseShared, At, Acquiring
  <2> QED BY <1>0, <1>5, <2>1, <2>2, LoseHandle DEF ReleaseShared, Return, Idle, Types, ThreadRec, EntryRec, At
<1>6. ASSUME NEW t \in Threads, ReleaseLast(t) PROVE RegistryInv'
  <2>1. Types' /\ Acquiring'
    BY <1>6, ThreadTypes
  <2>2. thread[t].key \in Keys
    BY <1>0, <1>6 DEF ReleaseLast, At, Acquiring
  <2> QED BY <1>0, <1>6, <2>1, <2>2, LoseHandle DEF ReleaseLast, Idle, Types, ThreadRec, EntryRec, At
<1>7. ASSUME NEW t \in Threads, FactoryOk(t) PROVE RegistryInv'
  <2>1. Types' /\ Acquiring'
    BY <1>7, ThreadTypes
  <2> QED BY <1>0, <1>7, <2>1, NoHandleStep DEF FactoryOk, Types, ThreadRec, At
<1>8. ASSUME NEW t \in Threads, StopLoser(t) PROVE RegistryInv'
  <2>1. Types' /\ Acquiring'
    BY <1>8, ThreadTypes DEF ThreadStep
  <2> QED BY <1>0, <1>8, <2>1, NoHandleStep DEF StopLoser, Types, ThreadRec, At
<1>9. ASSUME NEW t \in Threads, LoadPending(t) PROVE RegistryInv'
  <2>1. Types' /\ Acquiring'
    BY <1>9, ThreadTypes DEF ThreadStep
  <2> QED BY <1>0, <1>9, <2>1, NoHandleStep DEF LoadPending, Goto, Return, Idle, At, Types, ThreadRec
<1>10. ASSUME NEW t \in Threads, AtCeiling(t) PROVE RegistryInv'
  <2>1. Types' /\ Acquiring'
    BY <1>10, ThreadTypes DEF ThreadStep
  <2> QED BY <1>0, <1>10, <2>1, NoHandleStep DEF AtCeiling, Goto, Return, Idle, At, Types, ThreadRec
<1>11. ASSUME NEW t \in Threads, CasOk(t) PROVE RegistryInv'
  <2>1. Types' /\ Acquiring'
    BY <1>11, ThreadTypes DEF ThreadStep
  <2> QED BY <1>0, <1>11, <2>1, NoHandleStep DEF CasOk, Goto, Return, Idle, At, Types, ThreadRec
<1>12. ASSUME NEW t \in Threads, CasFails(t) PROVE RegistryInv'
  <2>1. Types' /\ Acquiring'
    BY <1>12, ThreadTypes DEF ThreadStep
  <2> QED BY <1>0, <1>12, <2>1, NoHandleStep DEF CasFails, Goto, Return, Idle, At, Types, ThreadRec
<1>13. ASSUME NEW t \in Threads, Shed(t) PROVE RegistryInv'
  <2>1. Types' /\ Acquiring'
    BY <1>13, ThreadTypes DEF ThreadStep
  <2> QED BY <1>0, <1>13, <2>1, NoHandleStep DEF Shed, Goto, Return, Idle, At, Types, ThreadRec
<1>14. ASSUME NEW t \in Threads, CloneSender(t) PROVE RegistryInv'
  <2>1. Types' /\ Acquiring'
    BY <1>14, ThreadTypes DEF ThreadStep
  <2> QED BY <1>0, <1>14, <2>1, NoHandleStep DEF CloneSender, Goto, Return, Idle, At, Types, ThreadRec
<1>15. ASSUME NEW t \in Threads, TrySend(t) PROVE RegistryInv'
  <2>1. Types' /\ Acquiring'
    BY <1>15, ThreadTypes DEF ThreadStep
  <2> QED BY <1>0, <1>15, <2>1, NoHandleStep DEF TrySend, Goto, Return, Idle, At, Types, ThreadRec
<1>16. ASSUME NEW t \in Threads, SendRefused(t) PROVE RegistryInv'
  <2>1. Types' /\ Acquiring'
    BY <1>16, ThreadTypes DEF ThreadStep
  <2> QED BY <1>0, <1>16, <2>1, NoHandleStep DEF SendRefused, Goto, Return, Idle, At, Types, ThreadRec
<1>17. ASSUME NEW t \in Threads, DropTeardown(t) PROVE RegistryInv'
  <2>1. Types' /\ Acquiring'
    BY <1>17, ThreadTypes DEF ThreadStep
  <2> QED BY <1>0, <1>17, <2>1, NoHandleStep DEF DropTeardown, Goto, Return, Idle, At, Types, ThreadRec
<1>18. ASSUME NEW t \in Threads, DropSlot(t) PROVE RegistryInv'
  <2>1. Types' /\ Acquiring'
    BY <1>18, ThreadTypes DEF ThreadStep
  <2> QED BY <1>0, <1>18, <2>1, NoHandleStep DEF DropSlot, Goto, Return, Idle, At, Types, ThreadRec
<1>19. ASSUME NEW t \in Threads, FactoryFails(t) PROVE RegistryInv'
  <2>1. Types' /\ Acquiring'
    BY <1>19, ThreadTypes
  <2> QED BY <1>0, <1>19, <2>1, NoHandleStep DEF FactoryFails, Goto, Return, Idle, At, Types, ThreadRec
<1>20. ASSUME UNCHANGED <<entries, thread>>, pending' \in Int PROVE RegistryInv'
  <2>1. Types' /\ Acquiring'
    BY <1>0, <1>20 DEF Types, Acquiring
  <2> QED BY <1>20, <2>1, NoHandleStep
<1>21. ASSUME NEW w \in Workers, WorkerStep(w) \/ Wedge(w) PROVE RegistryInv'
  <2>1. UNCHANGED <<entries, thread>> /\ pending' \in Int
    BY <1>0, <1>21 DEF WorkerStep, Receive, WorkerExits, RunStop, Joined, WorkerSlot, Wedge, Types
  <2> QED BY <2>1, <1>20
<1>22. CASE Shutdown \/ GraceJoinReturns \/ DropRegistry \/ UNCHANGED vars
  <2>1. UNCHANGED <<entries, thread>> /\ pending' \in Int
    BY <1>0, <1>22 DEF Shutdown, GraceJoinReturns, DropRegistry, vars, Types
  <2> QED BY <2>1, <1>20
<1> QED BY <1>1, <1>2, <1>3, <1>4, <1>5, <1>6, <1>7, <1>8, <1>9, <1>10, <1>11, <1>12, <1>13, <1>14, <1>15, <1>16, <1>17, <1>18, <1>19, <1>21, <1>22 DEF Next, ThreadStep

(* The registry's inductive invariant, for every set of keys, threads and   *)
(* workers (registry.rs, acquire_inner and release).                        *)
THEOREM RegistryInvariant == Spec => []RegistryInv
  BY InitRegistryInv, StepRegistryInv, PTL DEF Spec

(* All live handles of a key share the store registered for it, whatever    *)
(* first references and last releases raced (registry.rs, acquire_inner).   *)
THEOREM HandlesShareOneStore == Spec => []SharedStore
<1>1. RegistryInv => SharedStore
  BY DEF RegistryInv
<1> QED BY <1>1, RegistryInvariant, PTL

(* The refcount of every entry is the number of its live handles            *)
(* (registry.rs, acquire_inner and release).                                *)
THEOREM RefcountIsExact == Spec => []RefsCountHandles
<1>1. RegistryInv => RefsCountHandles
  BY DEF RegistryInv
<1> QED BY <1>1, RegistryInvariant, PTL

(* Both together: one decode per key, for as long as it has handles         *)
(* (registry.rs, acquire_inner and release).                                *)
THEOREM DecodesOncePerKey == Spec => []OneDecodePerKey
<1>1. RegistryInv => OneDecodePerKey
  BY DEF RegistryInv, OneDecodePerKey
<1> QED BY <1>1, RegistryInvariant, PTL

(* However many last releases contend and however many joins wedge, the     *)
(* reserved teardowns stay within the ceiling: the compare-exchange claims  *)
(* a slot only against the value that was checked (registry.rs,             *)
(* reserve_slot).                                                           *)
THEOREM TeardownsAreBounded == Spec => []PendingBounded
<1>1. Init => PendingBounded
  BY CapacityNat DEF Init, PendingBounded
<1>2. RegistryInv /\ PendingBounded /\ [Next]_vars => PendingBounded'
  <2> SUFFICES ASSUME RegistryInv, PendingBounded, [Next]_vars PROVE pending' <= Capacity
    BY DEF PendingBounded, Capacity
  <2>1. pending \in Int /\ pending <= Capacity /\ Capacity \in Nat
    BY CapacityNat DEF RegistryInv, Types, PendingBounded
  <2>2. ASSUME NEW t \in Threads, CasOk(t) PROVE pending' <= Capacity
    <3>1. thread[t].cur \in Int /\ thread[t].cur < Capacity /\ pending' = thread[t].cur + 1
      BY <2>2 DEF CasOk, RegistryInv, Types, ThreadRec
    <3> QED BY <2>1, <3>1
  <2>3. CASE pending' = pending \/ pending' = pending - 1
    BY <2>1, <2>3
  <2>4. (\E t \in Threads : CasOk(t)) \/ pending' = pending \/ pending' = pending - 1
    BY DEF Next, vars, AcquireShared, AcquireFirst, FactoryOk, FactoryFails, ReleaseShared,
           ReleaseLast, ThreadStep, InsertWins, InsertLoses, StopLoser, LoadPending, AtCeiling,
           CasFails, Shed, CloneSender, TrySend, SendRefused, DropTeardown, DropSlot, WorkerStep,
           Receive, WorkerExits, RunStop, Joined, Wedge, WorkerSlot, Shutdown, GraceJoinReturns,
           DropRegistry
  <2> QED BY <2>2, <2>3, <2>4
<1> QED BY <1>1, <1>2, RegistryInvariant, PTL DEF Spec

-----------------------------------------------------------------------------
(* The accounting of builds: each is in one place at a time, and what its   *)
(* decode may be doing follows from the place.                              *)

ActorStates == {"unborn", "absent", "running", "stopping", "stopped"}

RestTypes ==
    /\ queue \in Seq(Builds)
    /\ worker \in [Workers -> [pc : WorkerPcs, build : Builds \cup {NoBuild}]]
    /\ actor \in [Builds -> ActorStates]
    /\ tx \in BOOLEAN /\ life \in {"up", "joining", "joined", "dropped"}

Kinds == {"entry", "thread", "queue", "worker"}
Ids   == Keys \cup Threads \cup Workers \cup {NoKey}

(* b is in the entry of a key, with a thread, in the queue, or with a       *)
(* worker.                                                                  *)
Holds(kind, i, b) ==
    \/ kind = "entry"  /\ i \in Keys    /\ entries[i].build = b
    \/ kind = "thread" /\ i \in Threads /\ thread[i].own = b
    \/ kind = "queue"  /\ i = NoKey     /\ \E j \in 1 .. Len(queue) : queue[j] = b
    \/ kind = "worker" /\ i \in Workers /\ worker[i].build = b

Exclusive ==
    \A k1, k2 \in Kinds, i1, i2 \in Ids, b \in Builds :
        Holds(k1, i1, b) /\ Holds(k2, i2, b) => k1 = k2 /\ i1 = i2

QueuedOnce == \A i, j \in 1 .. Len(queue) : queue[i] = queue[j] => i = j

Releasing == {"reserve", "cas", "shed", "clone", "send", "drop"}
Owning    == {"insert", "stopLoser", "unslot"} \cup Releasing
Tearing   == {"run", "join", "wedged", "unslot"}

(* What the actor of a build in a place may be doing.                       *)
Permits(kind, i, a) ==
    \/ kind = "entry" /\ a \in {"running", "absent"}
    \/ kind = "thread" /\ thread[i].pc = "insert" /\ a \in {"running", "absent"}
    \/ kind = "thread" /\ thread[i].pc \in {"stopLoser"} \cup Releasing /\ a = "running"
    \/ kind = "thread" /\ thread[i].pc = "unslot" /\ a = "stopping"
    \/ kind = "queue" /\ a = "running"
    \/ kind = "worker" /\ worker[i].pc = "run" /\ a = "running"
    \/ kind = "worker" /\ worker[i].pc \in {"join", "wedged"} /\ a = "stopping"
    \/ kind = "worker" /\ worker[i].pc = "unslot" /\ a = "stopped"

HeldAsPermitted ==
    \A kind \in Kinds, i \in Ids, b \in Builds : Holds(kind, i, b) => Permits(kind, i, actor[b])

RunningIsHeld ==
    \A b \in Builds : actor[b] = "running" => \E kind \in Kinds, i \in Ids : Holds(kind, i, b)

(* Whoever is tearing a build down has one.                                 *)
OwnersOwn ==
    /\ \A t \in Threads : thread[t].pc \in Owning => thread[t].own \in Builds
    /\ \A w \in Workers : worker[w].pc \in Tearing => worker[w].build \in Builds

BuildInv ==
    /\ RestTypes /\ Exclusive /\ QueuedOnce /\ HeldAsPermitted /\ RunningIsHeld /\ OwnersOwn

(* The builds with a slot, and what a thread has read of the counter.       *)
Slots == {b \in Builds : SlotOf(b)}
ReadsNat == \A t \in Threads : thread[t].cur \in Nat

SlotInv == SlotsCounted /\ ReadsNat

(* One build goes to one place, or nowhere, and its actor with it.          *)
LEMMA BuildMoves ==
  ASSUME BuildInv, RestTypes', QueuedOnce', OwnersOwn',
         NEW c \in Builds, NEW kc \in Kinds, NEW ic \in Ids,
         \A kind \in Kinds, i \in Ids, b \in Builds : b # c => Holds(kind, i, b)' = Holds(kind, i, b),
         \A b \in Builds : b # c => actor'[b] = actor[b],
         \A kind \in Kinds, i \in Ids, b \in Builds :
            b # c /\ Holds(kind, i, b) /\ Permits(kind, i, actor[b]) => Permits(kind, i, actor[b])',
         \A kind \in Kinds, i \in Ids : Holds(kind, i, c)' => kind = kc /\ i = ic,
         Holds(kc, ic, c)' => Permits(kc, ic, actor[c])',
         actor'[c] = "running" => Holds(kc, ic, c)'
  PROVE  BuildInv'
<1>1. Exclusive'
  <2> SUFFICES ASSUME NEW k1 \in Kinds, NEW k2 \in Kinds, NEW i1 \in Ids, NEW i2 \in Ids,
                      NEW b \in Builds, Holds(k1, i1, b)', Holds(k2, i2, b)'
               PROVE  k1 = k2 /\ i1 = i2
    BY DEF Exclusive, Holds
  <2>1. CASE b = c
    BY <2>1
  <2>2. CASE b # c
    BY <2>2 DEF BuildInv, Exclusive
  <2> QED BY <2>1, <2>2
<1>2. HeldAsPermitted'
  <2> SUFFICES ASSUME NEW kind \in Kinds, NEW i \in Ids, NEW b \in Builds, Holds(kind, i, b)'
               PROVE  Permits(kind, i, actor[b])'
    BY DEF HeldAsPermitted, Holds, Permits
  <2>1. CASE b = c
    BY <2>1
  <2>2. CASE b # c
    <3>1. Holds(kind, i, b) /\ Permits(kind, i, actor[b]) /\ actor'[b] = actor[b]
      BY <2>2 DEF BuildInv, HeldAsPermitted
    <3> QED BY <2>2, <3>1 DEF Permits
  <2> QED BY <2>1, <2>2
<1>3. RunningIsHeld'
  <2> SUFFICES ASSUME NEW b \in Builds, actor'[b] = "running"
               PROVE  \E kind \in Kinds, i \in Ids : Holds(kind, i, b)'
    BY DEF RunningIsHeld, Holds
  <2>1. CASE b = c
    BY <2>1
  <2>2. CASE b # c
    <3>1. PICK kind \in Kinds, i \in Ids : Holds(kind, i, b)
      BY <2>2 DEF BuildInv, RunningIsHeld
    <3> QED BY <2>2, <3>1
  <2> QED BY <2>1, <2>2
<1> QED BY <1>1, <1>2, <1>3 DEF BuildInv

(* No build goes anywhere, and nobody who has one moves on.                 *)
LEMMA NoBuildMoves ==
  ASSUME BuildInv, RestTypes', QueuedOnce', OwnersOwn', actor' = actor,
         \A kind \in Kinds, i \in Ids, b \in Builds : Holds(kind, i, b)' = Holds(kind, i, b),
         \A kind \in Kinds, i \in Ids, b \in Builds :
            Holds(kind, i, b) /\ Permits(kind, i, actor[b]) => Permits(kind, i, actor[b])'
  PROVE  BuildInv'
<1>1. Exclusive'
  <2> SUFFICES ASSUME NEW k1 \in Kinds, NEW k2 \in Kinds, NEW i1 \in Ids, NEW i2 \in Ids,
                      NEW b \in Builds, Holds(k1, i1, b)', Holds(k2, i2, b)'
               PROVE  k1 = k2 /\ i1 = i2
    BY DEF Exclusive, Holds
  <2> QED BY DEF BuildInv, Exclusive
<1>2. HeldAsPermitted'
  <2> SUFFICES ASSUME NEW kind \in Kinds, NEW i \in Ids, NEW b \in Builds, Holds(kind, i, b)'
               PROVE  Permits(kind, i, actor[b])'
    BY DEF HeldAsPermitted, Holds, Permits
  <2> QED BY DEF BuildInv, HeldAsPermitted
<1>3. RunningIsHeld'
  <2> SUFFICES ASSUME NEW b \in Builds, actor[b] = "running"
               PROVE  \E kind \in Kinds, i \in Ids : Holds(kind, i, b)'
    BY DEF RunningIsHeld, Holds
  <2> QED BY DEF BuildInv, RunningIsHeld
<1> QED BY <1>1, <1>2, <1>3 DEF BuildInv

(* A thread takes, keeps or gives up the one build it deals with.           *)
LEMMA ThreadMoves ==
  ASSUME BuildInv, NEW t \in Threads, NEW c \in Builds,
         \A k \in Keys : entries'[k].build = entries[k].build,
         queue' = queue, worker' = worker, tx' = tx, life' = life,
         actor' \in [Builds -> ActorStates], \A b \in Builds : b # c => actor'[b] = actor[b],
         \A u \in Threads : u # t => thread'[u] = thread[u],
         thread[t].own \in {c, NoBuild}, thread'[t].own \in {c, NoBuild},
         \A kind \in Kinds, i \in Ids : Holds(kind, i, c) => kind = "thread" /\ i = t,
         thread'[t].own = c => Permits("thread", t, actor[c])',
         thread'[t].pc \in Owning => thread'[t].own = c,
         actor'[c] = "running" => thread'[t].own = c
  PROVE  BuildInv'
<1>0. NoBuild \notin Builds
  BY DEF Builds, NoBuild
<1>1. RestTypes' /\ QueuedOnce' /\ OwnersOwn'
  <2>1. RestTypes' /\ QueuedOnce'
    BY DEF BuildInv, RestTypes, QueuedOnce
  <2>2. OwnersOwn'
    BY DEF BuildInv, OwnersOwn
  <2> QED BY <2>1, <2>2
<1>2. "thread" \in Kinds /\ t \in Ids
  BY DEF Kinds, Ids
<1>3. ASSUME NEW kind \in Kinds, NEW i \in Ids, NEW b \in Builds, b # c
      PROVE  Holds(kind, i, b)' = Holds(kind, i, b)
  BY <1>0, <1>3 DEF Holds
<1>4. ASSUME NEW kind \in Kinds, NEW i \in Ids, NEW b \in Builds, b # c,
             Holds(kind, i, b), Permits(kind, i, actor[b])
      PROVE  Permits(kind, i, actor[b])'
  <2>1. ~(kind = "thread" /\ i = t)
    BY <1>0, <1>4 DEF Holds
  <2>2. kind = "thread" => i \in Threads
    BY <1>4 DEF Holds
  <2>3. actor'[b] = actor[b]
    BY <1>4
  <2> QED BY <1>4, <2>1, <2>2, <2>3 DEF Permits
<1>5. ASSUME NEW kind \in Kinds, NEW i \in Ids, Holds(kind, i, c)'
      PROVE  kind = "thread" /\ i = t
  <2>1. CASE Holds(kind, i, c)
    BY <2>1
  <2>2. CASE ~Holds(kind, i, c)
    BY <1>5, <2>2 DEF Holds
  <2> QED BY <2>1, <2>2
<1>6. Holds("thread", t, c)' <=> thread'[t].own = c
  BY DEF Holds
<1> QED BY <1>1, <1>2, <1>3, <1>4, <1>5, <1>6, BuildMoves

(* A worker signals, joins or gives up the one build it tears down.         *)
LEMMA WorkerMoves ==
  ASSUME BuildInv, NEW w \in Workers, NEW c \in Builds,
         entries' = entries, queue' = queue, thread' = thread, tx' = tx, life' = life,
         actor' \in [Builds -> ActorStates], \A b \in Builds : b # c => actor'[b] = actor[b],
         worker' \in [Workers -> [pc : WorkerPcs, build : Builds \cup {NoBuild}]],
         \A v \in Workers : v # w => worker'[v] = worker[v],
         worker[w].build = c, worker'[w].build \in {c, NoBuild},
         worker'[w].build = c => Permits("worker", w, actor[c])',
         worker'[w].pc \in Tearing => worker'[w].build = c,
         actor'[c] = "running" => worker'[w].build = c
  PROVE  BuildInv'
<1>0. NoBuild \notin Builds
  BY DEF Builds, NoBuild
<1>1. RestTypes' /\ QueuedOnce' /\ OwnersOwn'
  <2>1. RestTypes' /\ QueuedOnce'
    BY DEF BuildInv, RestTypes, QueuedOnce
  <2>2. OwnersOwn'
    BY DEF BuildInv, OwnersOwn
  <2> QED BY <2>1, <2>2
<1>2. "worker" \in Kinds /\ w \in Ids
  BY DEF Kinds, Ids
<1>3. ASSUME NEW kind \in Kinds, NEW i \in Ids, NEW b \in Builds, b # c
      PROVE  Holds(kind, i, b)' = Holds(kind, i, b)
  BY <1>0, <1>3 DEF Holds
<1>4. ASSUME NEW kind \in Kinds, NEW i \in Ids, NEW b \in Builds, b # c,
             Holds(kind, i, b), Permits(kind, i, actor[b])
      PROVE  Permits(kind, i, actor[b])'
  <2>1. ~(kind = "worker" /\ i = w)
    BY <1>0, <1>4 DEF Holds
  <2>2. kind = "worker" => i \in Workers
    BY <1>4 DEF Holds
  <2>3. actor'[b] = actor[b]
    BY <1>4
  <2> QED BY <1>4, <2>1, <2>2, <2>3 DEF Permits
<1>5. ASSUME NEW kind \in Kinds, NEW i \in Ids, Holds(kind, i, c)'
      PROVE  kind = "worker" /\ i = w
  <2>1. CASE Holds(kind, i, c)
    <3>1. Holds("worker", w, c)
      BY DEF Holds
    <3> QED BY <1>2, <2>1, <3>1 DEF BuildInv, Exclusive
  <2>2. CASE ~Holds(kind, i, c)
    BY <1>5, <2>2 DEF Holds
  <2> QED BY <2>1, <2>2
<1>6. Holds("worker", w, c)' <=> worker'[w].build = c
  BY DEF Holds
<1> QED BY <1>1, <1>2, <1>3, <1>4, <1>5, <1>6, BuildMoves

(* What a thread's place says of its build.                                 *)
LEMMA OwnFacts ==
  ASSUME Types, BuildInv, NEW t \in Threads
  PROVE  /\ thread[t] \in ThreadRec /\ thread[t].own \in Builds \cup {NoBuild}
         /\ thread[t].pc \notin Owning => thread[t].own = NoBuild
         /\ thread[t].pc \in Owning => thread[t].own \in Builds
         /\ thread[t].own \in Builds =>
              /\ \A kind \in Kinds, i \in Ids :
                    Holds(kind, i, thread[t].own) => kind = "thread" /\ i = t
              /\ Permits("thread", t, actor[thread[t].own])
         /\ thread[t].pc \in {"stopLoser"} \cup Releasing => actor[thread[t].own] = "running"
         /\ thread[t].pc = "insert" => actor[thread[t].own] \in {"running", "absent"}
         /\ thread[t].pc = "unslot" => actor[thread[t].own] = "stopping"
<1> DEFINE c == thread[t].own
<1>1. thread[t] \in ThreadRec /\ c \in Builds \cup {NoBuild}
  BY DEF Types, ThreadRec
<1>2. "thread" \in Kinds /\ t \in Ids /\ Holds("thread", t, c)
  BY DEF Kinds, Ids, Holds
<1>3. c \in Builds => Permits("thread", t, actor[c])
  BY <1>2 DEF BuildInv, HeldAsPermitted
<1>4. c \in Builds => thread[t].pc \in Owning
  BY <1>3 DEF Permits, Owning
<1>5. thread[t].pc \in Owning => c \in Builds
  BY DEF BuildInv, OwnersOwn
<1>6. c \in Builds => \A kind \in Kinds, i \in Ids : Holds(kind, i, c) => kind = "thread" /\ i = t
  BY <1>2 DEF BuildInv, Exclusive
<1> HIDE DEF c
<1>7. /\ thread[t].pc \in {"stopLoser"} \cup Releasing => actor[c] = "running"
      /\ thread[t].pc = "insert" => actor[c] \in {"running", "absent"}
      /\ thread[t].pc = "unslot" => actor[c] = "stopping"
  BY <1>3, <1>5 DEF Permits, Owning, Releasing
<1> QED BY <1>1, <1>3, <1>4, <1>5, <1>6, <1>7 DEF c

(* Nobody has a build the factory has not made.                             *)
LEMMA UnbornFacts ==
  ASSUME BuildInv, NEW b \in Builds, actor[b] = "unborn"
  PROVE  \A kind \in Kinds, i \in Ids : ~Holds(kind, i, b)
BY DEF BuildInv, HeldAsPermitted, Permits

(* A thread without a build moves on without one.                           *)
LEMMA EmptyHanded ==
  ASSUME Types, BuildInv, NEW t \in Threads,
         \A k \in Keys : entries'[k].build = entries[k].build,
         queue' = queue, worker' = worker, actor' = actor, tx' = tx, life' = life,
         \A u \in Threads : u # t => thread'[u] = thread[u],
         thread[t].own = NoBuild, thread'[t].own = NoBuild, thread'[t].pc \notin Owning
  PROVE  BuildInv'
<1>0. NoBuild \notin Builds
  BY DEF Builds, NoBuild
<1>1. RestTypes' /\ QueuedOnce' /\ OwnersOwn'
  BY DEF BuildInv, RestTypes, QueuedOnce, OwnersOwn
<1>2. ASSUME NEW kind \in Kinds, NEW i \in Ids, NEW b \in Builds
      PROVE  Holds(kind, i, b)' = Holds(kind, i, b)
  BY <1>0 DEF Holds
<1>3. ASSUME NEW kind \in Kinds, NEW i \in Ids, NEW b \in Builds,
             Holds(kind, i, b), Permits(kind, i, actor[b])
      PROVE  Permits(kind, i, actor[b])'
  <2>1. kind = "thread" => i \in Threads /\ i # t
    BY <1>0, <1>3 DEF Holds
  <2> QED BY <1>3, <2>1 DEF Permits
<1> QED BY <1>1, <1>2, <1>3, NoBuildMoves

LEMMA InitBuildInv == Init => BuildInv
<1> SUFFICES ASSUME Init PROVE BuildInv
  OBVIOUS
<1>0. NoBuild \notin Builds
  BY DEF Builds, NoBuild
<1>1. RestTypes
  BY DEF Init, RestTypes, WorkerPcs, ActorStates
<1>2. QueuedOnce /\ OwnersOwn
  BY DEF Init, QueuedOnce, OwnersOwn, Owning, Releasing, Tearing, Idle
<1>3. \A kind \in Kinds, i \in Ids, b \in Builds : ~Holds(kind, i, b)
  BY <1>0 DEF Init, Holds, NoEntry, Idle
<1>4. \A b \in Builds : actor[b] # "running"
  BY DEF Init
<1> QED BY <1>1, <1>2, <1>3, <1>4 DEF BuildInv, Exclusive, HeldAsPermitted, RunningIsHeld

(* Every action of a thread that deals with its own build alone.            *)
LEMMA ThreadBuildStep ==
  ASSUME Types, Acquiring, BuildInv, NEW t \in Threads,
         \/ FactoryOk(t) \/ InsertLoses(t) \/ StopLoser(t) \/ LoadPending(t) \/ AtCeiling(t)
         \/ CasOk(t) \/ CasFails(t) \/ Shed(t) \/ CloneSender(t) \/ SendRefused(t)
         \/ DropTeardown(t) \/ DropSlot(t)
  PROVE  BuildInv'
<1>a. thread \in [Threads -> ThreadRec] /\ thread[t] \in ThreadRec
  BY DEF Types
<1>b. actor \in [Builds -> ActorStates] /\ "stopping" \in ActorStates
  BY DEF BuildInv, RestTypes, ActorStates
<1>c. NoBuild \notin Builds
  BY DEF Builds, NoBuild
<1>1. CASE FactoryOk(t)
  <2>1. PICK b \in Builds, a \in {"running", "absent"} :
           /\ actor[b] = "unborn" /\ actor' = [actor EXCEPT ![b] = a]
           /\ thread' = [thread EXCEPT ![t].pc = "insert", ![t].own = b]
    BY <1>1 DEF FactoryOk
  <2>2. thread[t].own = NoBuild
    BY <1>1, OwnFacts DEF FactoryOk, At, Owning, Releasing
  <2>3. /\ thread'[t].pc = "insert" /\ thread'[t].own = b
        /\ \A u \in Threads : u # t => thread'[u] = thread[u]
    BY <1>a, <2>1, ZenonT(40) DEF ThreadRec
  <2>4. /\ actor' \in [Builds -> ActorStates] /\ actor'[b] = a
        /\ \A c \in Builds : c # b => actor'[c] = actor[c]
    BY <1>b, <2>1 DEF ActorStates
  <2>5. \A kind \in Kinds, i \in Ids : ~Holds(kind, i, b)
    BY <2>1, UnbornFacts
  <2>6. Permits("thread", t, actor[b])'
    BY <2>3, <2>4 DEF Permits
  <2>7. UNCHANGED <<entries, queue, worker, tx, life>>
    BY <1>1 DEF FactoryOk
  <2> QED BY <2>2, <2>3, <2>4, <2>5, <2>6, <2>7, ThreadMoves
<1>2. CASE InsertLoses(t)
  <2>a. /\ thread[t].own \in Builds /\ actor[thread[t].own] \in {"running", "absent"}
        /\ \A kind \in Kinds, i \in Ids :
              Holds(kind, i, thread[t].own) => kind = "thread" /\ i = t
    BY <1>2, OwnFacts DEF InsertLoses, At, Owning
  <2>0. PICK c \in Builds :
        /\ c = thread[t].own /\ actor[c] \in {"running", "absent"}
        /\ \A kind \in Kinds, i \in Ids : Holds(kind, i, c) => kind = "thread" /\ i = t
    BY <2>a
  <2>1. UNCHANGED <<queue, worker, tx, life, actor>>
    BY <1>2 DEF InsertLoses
  <2>2. \A k \in Keys : entries'[k].build = entries[k].build
    BY <1>2 DEF InsertLoses, Bump, Types, EntryRec
  <2>3. \A u \in Threads : u # t => thread'[u] = thread[u]
    BY <1>a, <1>2 DEF InsertLoses
  <2>4. /\ actor[c] = "running" => thread'[t].pc = "stopLoser" /\ thread'[t].own = c
        /\ actor[c] # "running" => thread'[t].pc = "held" /\ thread'[t].own = NoBuild
    BY <1>a, <1>2, <2>0 DEF InsertLoses, ThreadRec
  <2>5. thread'[t].own = c => Permits("thread", t, actor[c])'
    BY <1>c, <2>0, <2>1, <2>4 DEF Permits
  <2>6. "held" \notin Owning
    BY DEF Owning, Releasing
  <2> QED BY <1>b, <2>0, <2>1, <2>2, <2>3, <2>4, <2>5, <2>6, ThreadMoves
<1>3. CASE StopLoser(t)
  <2>a. /\ thread[t].own \in Builds /\ actor[thread[t].own] = "running"
        /\ \A kind \in Kinds, i \in Ids :
              Holds(kind, i, thread[t].own) => kind = "thread" /\ i = t
    BY <1>3, OwnFacts DEF StopLoser, At, Owning, Releasing
  <2>0. PICK c \in Builds :
        /\ c = thread[t].own /\ actor[c] = "running"
        /\ \A kind \in Kinds, i \in Ids : Holds(kind, i, c) => kind = "thread" /\ i = t
    BY <2>a
  <2>1. UNCHANGED <<entries, queue, worker, tx, life>>
    BY <1>3 DEF StopLoser
  <2>2. /\ thread'[t].pc = "held" /\ thread'[t].own = NoBuild
        /\ \A u \in Threads : u # t => thread'[u] = thread[u]
    BY <1>a, <1>3, <2>0 DEF StopLoser, Goto, Return, Idle, ThreadRec, At
  <2>3. /\ actor' \in [Builds -> ActorStates] /\ actor'[c] = "stopping"
        /\ \A b \in Builds : b # c => actor'[b] = actor[b]
    BY <1>b, <1>3, <2>0 DEF StopLoser, RequestStop
  <2>4. thread'[t].pc \notin Owning
    BY <2>2 DEF Owning, Releasing
  <2> QED BY <1>b, <1>c, <2>0, <2>1, <2>2, <2>3, <2>4, ThreadMoves
<1>4. CASE LoadPending(t)
  <2>a. /\ thread[t].own \in Builds /\ actor[thread[t].own] = "running"
        /\ \A kind \in Kinds, i \in Ids :
              Holds(kind, i, thread[t].own) => kind = "thread" /\ i = t
    BY <1>4, OwnFacts DEF LoadPending, At, Owning, Releasing
  <2>0. PICK c \in Builds :
        /\ c = thread[t].own /\ actor[c] = "running"
        /\ \A kind \in Kinds, i \in Ids : Holds(kind, i, c) => kind = "thread" /\ i = t
    BY <2>a
  <2>1. UNCHANGED <<entries, queue, worker, tx, life>>
    BY <1>4 DEF LoadPending
  <2>2. /\ thread'[t].pc \in {"cas"} /\ thread'[t].own = c
        /\ \A u \in Threads : u # t => thread'[u] = thread[u]
    BY <1>a, <1>4, <2>0 DEF LoadPending, Goto, Return, Idle, ThreadRec, At
  <2>3. actor' = actor
    BY <1>4 DEF LoadPending
  <2>4. Permits("thread", t, actor[c])'
    BY <2>0, <2>2, <2>3 DEF Permits, Releasing
  <2> QED BY <1>b, <1>c, <2>0, <2>1, <2>2, <2>3, <2>4, ThreadMoves
<1>5. CASE AtCeiling(t)
  <2>a. /\ thread[t].own \in Builds /\ actor[thread[t].own] = "running"
        /\ \A kind \in Kinds, i \in Ids :
              Holds(kind, i, thread[t].own) => kind = "thread" /\ i = t
    BY <1>5, OwnFacts DEF AtCeiling, At, Owning, Releasing
  <2>0. PICK c \in Builds :
        /\ c = thread[t].own /\ actor[c] = "running"
        /\ \A kind \in Kinds, i \in Ids : Holds(kind, i, c) => kind = "thread" /\ i = t
    BY <2>a
  <2>1. UNCHANGED <<entries, queue, worker, tx, life>>
    BY <1>5 DEF AtCeiling
  <2>2. /\ thread'[t].pc \in {"shed"} /\ thread'[t].own = c
        /\ \A u \in Threads : u # t => thread'[u] = thread[u]
    BY <1>a, <1>5, <2>0 DEF AtCeiling, Goto, Return, Idle, ThreadRec, At
  <2>3. actor' = actor
    BY <1>5 DEF AtCeiling
  <2>4. Permits("thread", t, actor[c])'
    BY <2>0, <2>2, <2>3 DEF Permits, Releasing
  <2> QED BY <1>b, <1>c, <2>0, <2>1, <2>2, <2>3, <2>4, ThreadMoves
<1>6. CASE CasOk(t)
  <2>a. /\ thread[t].own \in Builds /\ actor[thread[t].own] = "running"
        /\ \A kind \in Kinds, i \in Ids :
              Holds(kind, i, thread[t].own) => kind = "thread" /\ i = t
    BY <1>6, OwnFacts DEF CasOk, At, Owning, Releasing
  <2>0. PICK c \in Builds :
        /\ c = thread[t].own /\ actor[c] = "running"
        /\ \A kind \in Kinds, i \in Ids : Holds(kind, i, c) => kind = "thread" /\ i = t
    BY <2>a
  <2>1. UNCHANGED <<entries, queue, worker, tx, life>>
    BY <1>6 DEF CasOk
  <2>2. /\ thread'[t].pc \in {"clone"} /\ thread'[t].own = c
        /\ \A u \in Threads : u # t => thread'[u] = thread[u]
    BY <1>a, <1>6, <2>0 DEF CasOk, Goto, Return, Idle, ThreadRec, At
  <2>3. actor' = actor
    BY <1>6 DEF CasOk
  <2>4. Permits("thread", t, actor[c])'
    BY <2>0, <2>2, <2>3 DEF Permits, Releasing
  <2> QED BY <1>b, <1>c, <2>0, <2>1, <2>2, <2>3, <2>4, ThreadMoves
<1>7. CASE CasFails(t)
  <2>a. /\ thread[t].own \in Builds /\ actor[thread[t].own] = "running"
        /\ \A kind \in Kinds, i \in Ids :
              Holds(kind, i, thread[t].own) => kind = "thread" /\ i = t
    BY <1>7, OwnFacts DEF CasFails, At, Owning, Releasing
  <2>0. PICK c \in Builds :
        /\ c = thread[t].own /\ actor[c] = "running"
        /\ \A kind \in Kinds, i \in Ids : Holds(kind, i, c) => kind = "thread" /\ i = t
    BY <2>a
  <2>1. UNCHANGED <<entries, queue, worker, tx, life>>
    BY <1>7 DEF CasFails
  <2>2. /\ thread'[t].pc \in {"cas"} /\ thread'[t].own = c
        /\ \A u \in Threads : u # t => thread'[u] = thread[u]
    BY <1>a, <1>7, <2>0 DEF CasFails, Goto, Return, Idle, ThreadRec, At
  <2>3. actor' = actor
    BY <1>7 DEF CasFails
  <2>4. Permits("thread", t, actor[c])'
    BY <2>0, <2>2, <2>3 DEF Permits, Releasing
  <2> QED BY <1>b, <1>c, <2>0, <2>1, <2>2, <2>3, <2>4, ThreadMoves
<1>8. CASE Shed(t)
  <2>a. /\ thread[t].own \in Builds /\ actor[thread[t].own] = "running"
        /\ \A kind \in Kinds, i \in Ids :
              Holds(kind, i, thread[t].own) => kind = "thread" /\ i = t
    BY <1>8, OwnFacts DEF Shed, At, Owning, Releasing
  <2>0. PICK c \in Builds :
        /\ c = thread[t].own /\ actor[c] = "running"
        /\ \A kind \in Kinds, i \in Ids : Holds(kind, i, c) => kind = "thread" /\ i = t
    BY <2>a
  <2>1. UNCHANGED <<entries, queue, worker, tx, life>>
    BY <1>8 DEF Shed
  <2>2. /\ thread'[t].pc = "idle" /\ thread'[t].own = NoBuild
        /\ \A u \in Threads : u # t => thread'[u] = thread[u]
    BY <1>a, <1>8, <2>0 DEF Shed, Goto, Return, Idle, ThreadRec, At
  <2>3. /\ actor' \in [Builds -> ActorStates] /\ actor'[c] = "stopping"
        /\ \A b \in Builds : b # c => actor'[b] = actor[b]
    BY <1>b, <1>8, <2>0 DEF Shed, RequestStop
  <2>4. thread'[t].pc \notin Owning
    BY <2>2 DEF Owning, Releasing
  <2> QED BY <1>b, <1>c, <2>0, <2>1, <2>2, <2>3, <2>4, ThreadMoves
<1>9. CASE CloneSender(t)
  <2>a. /\ thread[t].own \in Builds /\ actor[thread[t].own] = "running"
        /\ \A kind \in Kinds, i \in Ids :
              Holds(kind, i, thread[t].own) => kind = "thread" /\ i = t
    BY <1>9, OwnFacts DEF CloneSender, At, Owning, Releasing
  <2>0. PICK c \in Builds :
        /\ c = thread[t].own /\ actor[c] = "running"
        /\ \A kind \in Kinds, i \in Ids : Holds(kind, i, c) => kind = "thread" /\ i = t
    BY <2>a
  <2>1. UNCHANGED <<entries, queue, worker, tx, life>>
    BY <1>9 DEF CloneSender
  <2>2. /\ thread'[t].pc \in {"send", "drop"} /\ thread'[t].own = c
        /\ \A u \in Threads : u # t => thread'[u] = thread[u]
    BY <1>a, <1>9, <2>0 DEF CloneSender, Goto, Return, Idle, ThreadRec, At
  <2>3. actor' = actor
    BY <1>9 DEF CloneSender
  <2>4. Permits("thread", t, actor[c])'
    BY <2>0, <2>2, <2>3 DEF Permits, Releasing
  <2> QED BY <1>b, <1>c, <2>0, <2>1, <2>2, <2>3, <2>4, ThreadMoves
<1>10. CASE SendRefused(t)
  <2>a. /\ thread[t].own \in Builds /\ actor[thread[t].own] = "running"
        /\ \A kind \in Kinds, i \in Ids :
              Holds(kind, i, thread[t].own) => kind = "thread" /\ i = t
    BY <1>10, OwnFacts DEF SendRefused, At, Owning, Releasing
  <2>0. PICK c \in Builds :
        /\ c = thread[t].own /\ actor[c] = "running"
        /\ \A kind \in Kinds, i \in Ids : Holds(kind, i, c) => kind = "thread" /\ i = t
    BY <2>a
  <2>1. UNCHANGED <<entries, queue, worker, tx, life>>
    BY <1>10 DEF SendRefused
  <2>2. /\ thread'[t].pc \in {"drop"} /\ thread'[t].own = c
        /\ \A u \in Threads : u # t => thread'[u] = thread[u]
    BY <1>a, <1>10, <2>0 DEF SendRefused, Goto, Return, Idle, ThreadRec, At
  <2>3. actor' = actor
    BY <1>10 DEF SendRefused
  <2>4. Permits("thread", t, actor[c])'
    BY <2>0, <2>2, <2>3 DEF Permits, Releasing
  <2> QED BY <1>b, <1>c, <2>0, <2>1, <2>2, <2>3, <2>4, ThreadMoves
<1>11. CASE DropTeardown(t)
  <2>a. /\ thread[t].own \in Builds /\ actor[thread[t].own] = "running"
        /\ \A kind \in Kinds, i \in Ids :
              Holds(kind, i, thread[t].own) => kind = "thread" /\ i = t
    BY <1>11, OwnFacts DEF DropTeardown, At, Owning, Releasing
  <2>0. PICK c \in Builds :
        /\ c = thread[t].own /\ actor[c] = "running"
        /\ \A kind \in Kinds, i \in Ids : Holds(kind, i, c) => kind = "thread" /\ i = t
    BY <2>a
  <2>1. UNCHANGED <<entries, queue, worker, tx, life>>
    BY <1>11 DEF DropTeardown
  <2>2. /\ thread'[t].pc \in {"unslot"} /\ thread'[t].own = c
        /\ \A u \in Threads : u # t => thread'[u] = thread[u]
    BY <1>a, <1>11, <2>0 DEF DropTeardown, Goto, Return, Idle, ThreadRec, At
  <2>3. /\ actor' \in [Builds -> ActorStates] /\ actor'[c] = "stopping"
        /\ \A b \in Builds : b # c => actor'[b] = actor[b]
    BY <1>b, <1>11, <2>0 DEF DropTeardown, RequestStop
  <2>4. Permits("thread", t, actor[c])'
    BY <2>0, <2>2, <2>3 DEF Permits, Releasing
  <2> QED BY <1>b, <1>c, <2>0, <2>1, <2>2, <2>3, <2>4, ThreadMoves
<1>12. CASE DropSlot(t)
  <2>a. /\ thread[t].own \in Builds /\ actor[thread[t].own] = "stopping"
        /\ \A kind \in Kinds, i \in Ids :
              Holds(kind, i, thread[t].own) => kind = "thread" /\ i = t
    BY <1>12, OwnFacts DEF DropSlot, At, Owning, Releasing
  <2>0. PICK c \in Builds :
        /\ c = thread[t].own /\ actor[c] = "stopping"
        /\ \A kind \in Kinds, i \in Ids : Holds(kind, i, c) => kind = "thread" /\ i = t
    BY <2>a
  <2>1. UNCHANGED <<entries, queue, worker, tx, life>>
    BY <1>12 DEF DropSlot
  <2>2. /\ thread'[t].pc = "idle" /\ thread'[t].own = NoBuild
        /\ \A u \in Threads : u # t => thread'[u] = thread[u]
    BY <1>a, <1>12, <2>0 DEF DropSlot, Goto, Return, Idle, ThreadRec, At
  <2>3. actor' = actor
    BY <1>12 DEF DropSlot
  <2>4. thread'[t].pc \notin Owning
    BY <2>2 DEF Owning, Releasing
  <2> QED BY <1>b, <1>c, <2>0, <2>1, <2>2, <2>3, <2>4, ThreadMoves
<1> QED BY <1>1, <1>2, <1>3, <1>4, <1>5, <1>6, <1>7, <1>8, <1>9, <1>10, <1>11, <1>12

(* Every action of a thread that has no build.                              *)
LEMMA EmptyThreadStep ==
  ASSUME Types, Acquiring, BuildInv, NEW t \in Threads,
         \/ \E k \in Keys : AcquireShared(t, k) \/ AcquireFirst(t, k)
         \/ FactoryFails(t) \/ ReleaseShared(t)
  PROVE  BuildInv'
<1>a. thread \in [Threads -> ThreadRec] /\ thread[t] \in ThreadRec
  BY DEF Types
<1>b. "idle" \notin Owning /\ "held" \notin Owning /\ "factory" \notin Owning
  BY DEF Owning, Releasing
<1>c. entries \in [Keys -> EntryRec]
  BY DEF Types
<1>1. thread[t].pc \in {"idle", "held", "factory"}
  BY DEF AcquireShared, AcquireFirst, FactoryFails, ReleaseShared, At
<1>2. thread[t].own = NoBuild
  BY <1>1, <1>b, OwnFacts
<1>3. UNCHANGED <<queue, worker, tx, life, actor>>
  BY DEF AcquireShared, AcquireFirst, FactoryFails, ReleaseShared
<1>4. /\ \A j \in Keys : entries'[j].build = entries[j].build
      /\ \A u \in Threads : u # t => thread'[u] = thread[u]
      /\ thread'[t].own = NoBuild /\ thread'[t].pc \in {"idle", "held", "factory"}
  <2>1. ASSUME NEW k \in Keys, AcquireShared(t, k) PROVE <1>4!:
    BY <1>a, <1>c, <1>2, <2>1 DEF AcquireShared, Bump, EntryRec, ThreadRec
  <2>2. ASSUME NEW k \in Keys, AcquireFirst(t, k) PROVE <1>4!:
    BY <1>a, <1>2, <2>2 DEF AcquireFirst, ThreadRec
  <2>3. CASE FactoryFails(t)
    BY <1>a, <2>3 DEF FactoryFails, Return, Idle
  <2>4. CASE ReleaseShared(t)
    BY <1>a, <1>c, <2>4 DEF ReleaseShared, EntryRec, Return, Idle
  <2> QED BY <2>1, <2>2, <2>3, <2>4
<1> QED BY <1>b, <1>2, <1>3, <1>4, EmptyHanded

(* The winner of a first reference: its build goes into the entry.          *)
LEMMA InsertBuildStep ==
  ASSUME Types, Acquiring, BuildInv, NEW t \in Threads, InsertWins(t)
  PROVE  BuildInv'
<1>a. thread \in [Threads -> ThreadRec] /\ entries \in [Keys -> EntryRec]
  BY DEF Types
<1>b. NoBuild \notin Builds
  BY DEF Builds, NoBuild
<1>1. /\ thread[t].own \in Builds /\ actor[thread[t].own] \in {"running", "absent"}
      /\ \A kind \in Kinds, i \in Ids : Holds(kind, i, thread[t].own) => kind = "thread" /\ i = t
  BY OwnFacts DEF InsertWins, At, Owning
<1>2. PICK c \in Builds :
         /\ c = thread[t].own /\ actor[c] \in {"running", "absent"}
         /\ \A kind \in Kinds, i \in Ids : Holds(kind, i, c) => kind = "thread" /\ i = t
  BY <1>1
<1>3. PICK k \in Keys : k = thread[t].key /\ entries[k].build = NoBuild
  BY DEF InsertWins, At, Registered, Acquiring
<1>4. UNCHANGED <<queue, worker, tx, life, actor>>
  BY DEF InsertWins
<1>5. entries'[k].build = c /\ \A j \in Keys : j # k => entries'[j] = entries[j]
  BY <1>a, <1>2, <1>3 DEF InsertWins, EntryRec
<1>6. /\ thread'[t].own = NoBuild /\ thread'[t].pc = "held"
      /\ \A u \in Threads : u # t => thread'[u] = thread[u]
  BY <1>a DEF InsertWins, ThreadRec
<1>7. RestTypes' /\ QueuedOnce' /\ OwnersOwn'
  <2>1. "held" \notin Owning
    BY DEF Owning, Releasing
  <2> QED BY <1>4, <1>6, <2>1 DEF BuildInv, RestTypes, QueuedOnce, OwnersOwn
<1>8. "entry" \in Kinds /\ k \in Ids
  BY DEF Kinds, Ids
<1>9. ASSUME NEW kind \in Kinds, NEW i \in Ids, NEW b \in Builds, b # c
      PROVE  Holds(kind, i, b)' = Holds(kind, i, b)
  BY <1>b, <1>2, <1>3, <1>4, <1>5, <1>6, <1>9 DEF Holds
<1>10. ASSUME NEW kind \in Kinds, NEW i \in Ids, NEW b \in Builds, b # c,
              Holds(kind, i, b), Permits(kind, i, actor[b])
       PROVE  Permits(kind, i, actor[b])'
  <2>1. kind = "thread" => i \in Threads /\ i # t
    BY <1>b, <1>2, <1>10 DEF Holds
  <2> QED BY <1>4, <1>6, <1>10, <2>1 DEF Permits
<1>11. ASSUME NEW kind \in Kinds, NEW i \in Ids, Holds(kind, i, c)'
       PROVE  kind = "entry" /\ i = k
  <2>1. CASE Holds(kind, i, c)
    BY <1>b, <1>2, <1>6, <1>11, <2>1 DEF Holds
  <2>2. CASE ~Holds(kind, i, c)
    BY <1>b, <1>4, <1>5, <1>6, <1>11, <2>2 DEF Holds
  <2> QED BY <2>1, <2>2
<1>12. Holds("entry", k, c)' /\ Permits("entry", k, actor[c])'
  BY <1>2, <1>4, <1>5 DEF Holds, Permits
<1>13. \A b \in Builds : actor'[b] = actor[b]
  BY <1>4
<1> QED BY <1>7, <1>8, <1>9, <1>10, <1>11, <1>12, <1>13, BuildMoves

(* The last release: the entry's build is the thread's to tear down, or     *)
(* nobody's when it came without an actor.                                  *)
LEMMA ReleaseBuildStep ==
  ASSUME RegistryInv, BuildInv, NEW t \in Threads, ReleaseLast(t)
  PROVE  BuildInv'
<1>a. /\ Types /\ thread \in [Threads -> ThreadRec] /\ entries \in [Keys -> EntryRec]
      /\ thread[t].key \in Keys
  BY DEF RegistryInv, Types, Acquiring, ReleaseLast, At
<1>b. NoBuild \notin Builds
  BY DEF Builds, NoBuild
<1>c. thread[t].own = NoBuild
  BY <1>a, OwnFacts DEF ReleaseLast, At, Owning, Releasing
<1>1. PICK k \in Keys : k = thread[t].key
  BY <1>a
<1>2. entries[k].build \in Builds
  <2>1. Registered(k)
    BY <1>1 DEF RegistryInv, SharedStore, HasHandle, ReleaseLast, At
  <2> QED BY <1>a, <2>1 DEF Registered, EntryRec
<1>3. PICK c \in Builds : c = entries[k].build
  BY <1>2
<1>d. "entry" \in Kinds /\ k \in Ids /\ "thread" \in Kinds /\ t \in Ids
  BY DEF Kinds, Ids
<1>e. Holds("entry", k, c)
  BY <1>3 DEF Holds
<1>4. \A kind \in Kinds, i \in Ids : Holds(kind, i, c) => kind = "entry" /\ i = k
  BY <1>d, <1>e DEF BuildInv, Exclusive
<1>5. actor[c] \in {"running", "absent"}
  <2>1. Permits("entry", k, actor[c])
    BY <1>d, <1>e DEF BuildInv, HeldAsPermitted
  <2> QED BY <2>1 DEF Permits
<1>6. UNCHANGED <<queue, worker, tx, life, actor>>
  BY DEF ReleaseLast
<1>7. entries'[k].build = NoBuild /\ \A j \in Keys : j # k => entries'[j] = entries[j]
  BY <1>a, <1>1 DEF ReleaseLast, NoEntry
<1>8. /\ actor[c] = "absent" => thread'[t] = Idle
      /\ actor[c] # "absent" => thread'[t] = [Idle EXCEPT !.pc = "reserve", !.own = c]
      /\ \A u \in Threads : u # t => thread'[u] = thread[u]
  BY <1>a, <1>1, <1>2, <1>3, <1>b DEF ReleaseLast
<1>9. /\ actor[c] = "absent" => thread'[t].pc = "idle" /\ thread'[t].own = NoBuild
      /\ actor[c] # "absent" => thread'[t].pc = "reserve" /\ thread'[t].own = c
  <2>1. Idle.pc = "idle" /\ Idle.own = NoBuild
    BY DEF Idle
  <2>2. ASSUME NEW r, r = [Idle EXCEPT !.pc = "reserve", !.own = c]
        PROVE  r.pc = "reserve" /\ r.own = c
    BY <2>2 DEF Idle
  <2> QED BY <1>8, <2>1, <2>2
<1>10. RestTypes' /\ QueuedOnce' /\ OwnersOwn'
  <2>1. "idle" \notin Owning
    BY DEF Owning, Releasing
  <2>2. thread'[t].pc \in Owning => thread'[t].own \in Builds
    BY <1>9, <2>1
  <2> QED BY <1>6, <1>8, <2>2 DEF BuildInv, RestTypes, QueuedOnce, OwnersOwn
<1>11. ASSUME NEW kind \in Kinds, NEW i \in Ids, NEW b \in Builds, b # c
       PROVE  Holds(kind, i, b)' = Holds(kind, i, b)
  BY <1>b, <1>c, <1>3, <1>6, <1>7, <1>8, <1>9, <1>11 DEF Holds
<1>12. ASSUME NEW kind \in Kinds, NEW i \in Ids, NEW b \in Builds, b # c,
              Holds(kind, i, b), Permits(kind, i, actor[b])
       PROVE  Permits(kind, i, actor[b])'
  <2>1. kind = "thread" => i \in Threads /\ i # t
    BY <1>b, <1>c, <1>12 DEF Holds
  <2> QED BY <1>6, <1>8, <1>12, <2>1 DEF Permits
<1>13. ASSUME NEW kind \in Kinds, NEW i \in Ids, Holds(kind, i, c)'
       PROVE  kind = "thread" /\ i = t
  <2>1. CASE Holds(kind, i, c)
    BY <1>b, <1>4, <1>7, <1>13, <2>1 DEF Holds
  <2>2. CASE ~Holds(kind, i, c)
    BY <1>b, <1>6, <1>7, <1>8, <1>13, <2>2 DEF Holds
  <2> QED BY <2>1, <2>2
<1>14. /\ Holds("thread", t, c)' => Permits("thread", t, actor[c])'
       /\ actor'[c] = "running" => Holds("thread", t, c)'
  <2>1. CASE actor[c] = "absent"
    BY <1>b, <1>6, <1>9, <2>1 DEF Holds
  <2>2. CASE actor[c] = "running"
    BY <1>6, <1>9, <2>2 DEF Holds, Permits, Releasing
  <2> QED BY <1>5, <2>1, <2>2
<1>15. \A b \in Builds : actor'[b] = actor[b]
  BY <1>6
<1> QED BY <1>d, <1>10, <1>11, <1>12, <1>13, <1>14, <1>15, BuildMoves

(* A worker's place and the build it tears down.                            *)
LEMMA WorkerFacts ==
  ASSUME BuildInv, NEW w \in Workers
  PROVE  /\ worker[w] \in [pc : WorkerPcs, build : Builds \cup {NoBuild}]
         /\ worker[w].pc \notin Tearing => worker[w].build = NoBuild
         /\ worker[w].pc \in Tearing => worker[w].build \in Builds
         /\ worker[w].pc = "run" => actor[worker[w].build] = "running"
         /\ worker[w].pc \in {"join", "wedged"} => actor[worker[w].build] = "stopping"
         /\ worker[w].pc = "unslot" => actor[worker[w].build] = "stopped"
<1>1. worker[w] \in [pc : WorkerPcs, build : Builds \cup {NoBuild}]
  BY DEF BuildInv, RestTypes
<1>2. "worker" \in Kinds /\ w \in Ids /\ Holds("worker", w, worker[w].build)
  BY DEF Kinds, Ids, Holds
<1>3. worker[w].build \in Builds => Permits("worker", w, actor[worker[w].build])
  BY <1>2 DEF BuildInv, HeldAsPermitted
<1>4. worker[w].pc \in Tearing => worker[w].build \in Builds
  BY DEF BuildInv, OwnersOwn
<1>5. worker[w].build \in Builds => worker[w].pc \in Tearing
  BY <1>3 DEF Permits, Tearing
<1>6. "run" \in Tearing /\ "join" \in Tearing /\ "wedged" \in Tearing /\ "unslot" \in Tearing
  BY DEF Tearing
<1>7. worker[w].build \in Builds =>
        /\ worker[w].pc = "run" => actor[worker[w].build] = "running"
        /\ worker[w].pc \in {"join", "wedged"} => actor[worker[w].build] = "stopping"
        /\ worker[w].pc = "unslot" => actor[worker[w].build] = "stopped"
  BY <1>3 DEF Permits
<1> QED BY <1>1, <1>4, <1>5, <1>6, <1>7

(* try_send: the thread's build goes to the end of the queue.               *)
LEMMA SendBuildStep ==
  ASSUME Types, BuildInv, NEW t \in Threads, TrySend(t)
  PROVE  BuildInv'
<1>a. thread \in [Threads -> ThreadRec]
  BY DEF Types
<1>b. NoBuild \notin Builds
  BY DEF Builds, NoBuild
<1>1. /\ thread[t].own \in Builds /\ actor[thread[t].own] = "running"
      /\ \A kind \in Kinds, i \in Ids : Holds(kind, i, thread[t].own) => kind = "thread" /\ i = t
  BY OwnFacts DEF TrySend, At, Owning, Releasing
<1>2. PICK c \in Builds :
         /\ c = thread[t].own /\ actor[c] = "running"
         /\ \A kind \in Kinds, i \in Ids : Holds(kind, i, c) => kind = "thread" /\ i = t
  BY <1>1
<1>3. UNCHANGED <<entries, worker, tx, life, actor>>
  BY DEF TrySend
<1>4. queue \in Seq(Builds) /\ queue' = Append(queue, c)
  BY <1>2 DEF BuildInv, RestTypes, TrySend
<1>5. /\ Len(queue') = Len(queue) + 1 /\ queue'[Len(queue) + 1] = c /\ Len(queue) \in Nat
      /\ \A j \in 1 .. Len(queue) : queue'[j] = queue[j]
  BY <1>4
<1>6. /\ thread'[t].own = NoBuild /\ thread'[t].pc = "idle"
      /\ \A u \in Threads : u # t => thread'[u] = thread[u]
  BY <1>a DEF TrySend, Return, Idle
<1>7. "queue" \in Kinds /\ NoKey \in Ids
  BY DEF Kinds, Ids
<1>8. \A j \in 1 .. Len(queue) : queue[j] # c
  <2>1. ~Holds("queue", NoKey, c)
    BY <1>2, <1>7
  <2> QED BY <2>1 DEF Holds
<1>9. RestTypes' /\ QueuedOnce' /\ OwnersOwn'
  <2>1. "idle" \notin Owning
    BY DEF Owning, Releasing
  <2>2. queue' \in Seq(Builds)
    BY <1>4
  <2>3. QueuedOnce'
    BY <1>5, <1>8 DEF BuildInv, QueuedOnce
  <2> QED BY <1>3, <1>6, <2>1, <2>2, <2>3 DEF BuildInv, RestTypes, OwnersOwn
<1>10. ASSUME NEW b \in Builds, b # c
       PROVE  (\E j \in 1 .. Len(queue') : queue'[j] = b) <=> (\E j \in 1 .. Len(queue) : queue[j] = b)
  BY <1>5, <1>10
<1>11. ASSUME NEW kind \in Kinds, NEW i \in Ids, NEW b \in Builds, b # c
       PROVE  Holds(kind, i, b)' = Holds(kind, i, b)
  BY <1>b, <1>2, <1>3, <1>6, <1>10, <1>11 DEF Holds
<1>12. ASSUME NEW kind \in Kinds, NEW i \in Ids, NEW b \in Builds, b # c,
              Holds(kind, i, b), Permits(kind, i, actor[b])
       PROVE  Permits(kind, i, actor[b])'
  <2>1. kind = "thread" => i \in Threads /\ i # t
    BY <1>b, <1>2, <1>12 DEF Holds
  <2> QED BY <1>3, <1>6, <1>12, <2>1 DEF Permits
<1>13. ASSUME NEW kind \in Kinds, NEW i \in Ids, Holds(kind, i, c)'
       PROVE  kind = "queue" /\ i = NoKey
  <2>1. kind # "queue" => Holds(kind, i, c) /\ ~(kind = "thread" /\ i = t)
    BY <1>b, <1>2, <1>3, <1>6, <1>13 DEF Holds
  <2>2. kind = "queue"
    BY <1>2, <2>1
  <2> QED BY <1>13, <2>2 DEF Holds
<1>14. Holds("queue", NoKey, c)' /\ Permits("queue", NoKey, actor[c])'
  <2>1. \E j \in 1 .. Len(queue') : queue'[j] = c
    BY <1>5
  <2> QED BY <1>2, <1>3, <2>1 DEF Holds, Permits
<1>15. \A b \in Builds : actor'[b] = actor[b]
  BY <1>3
<1> QED BY <1>7, <1>9, <1>11, <1>12, <1>13, <1>14, <1>15, BuildMoves

(* recv: the head of the queue goes to an idle worker.                      *)
LEMMA ReceiveBuildStep ==
  ASSUME BuildInv, NEW w \in Workers, Receive(w)
  PROVE  BuildInv'
<1>a. worker \in [Workers -> [pc : WorkerPcs, build : Builds \cup {NoBuild}]]
  BY DEF BuildInv, RestTypes
<1>b. NoBuild \notin Builds /\ "run" \in WorkerPcs
  BY DEF Builds, NoBuild, WorkerPcs
<1>c. worker[w].build = NoBuild
  BY WorkerFacts DEF Receive, WorkerAt, Tearing
<1>1. queue \in Seq(Builds) /\ queue # <<>> /\ queue' = Tail(queue)
  BY DEF BuildInv, RestTypes, Receive
<1>2. PICK c \in Builds : c = Head(queue)
  BY <1>1
<1>3. UNCHANGED <<entries, thread, tx, life, actor>>
  BY DEF Receive
<1>4. /\ queue' \in Seq(Builds) /\ Len(queue) \in Nat \ {0} /\ Len(queue') = Len(queue) - 1
      /\ queue[1] = c /\ \A j \in 1 .. Len(queue') : queue'[j] = queue[j + 1]
  BY <1>1, <1>2
<1>5. /\ worker'[w] = [pc |-> "run", build |-> c]
      /\ worker' \in [Workers -> [pc : WorkerPcs, build : Builds \cup {NoBuild}]]
      /\ \A v \in Workers : v # w => worker'[v] = worker[v]
  BY <1>a, <1>b, <1>2 DEF Receive
<1>6. worker'[w].pc = "run" /\ worker'[w].build = c
  BY <1>5
<1>7. /\ "queue" \in Kinds /\ NoKey \in Ids /\ "worker" \in Kinds /\ w \in Ids
      /\ Holds("queue", NoKey, c)
  BY <1>4 DEF Kinds, Ids, Holds
<1>8. /\ \A kind \in Kinds, i \in Ids : Holds(kind, i, c) => kind = "queue" /\ i = NoKey
      /\ actor[c] = "running"
  <2>1. Permits("queue", NoKey, actor[c])
    BY <1>7 DEF BuildInv, HeldAsPermitted
  <2>2. actor[c] = "running"
    BY <2>1 DEF Permits
  <2> QED BY <1>7, <2>2 DEF BuildInv, Exclusive
<1>9. \A j \in 1 .. Len(queue') : queue'[j] # c
  <2> SUFFICES ASSUME NEW j \in 1 .. Len(queue') PROVE queue'[j] # c
    OBVIOUS
  <2>1. j + 1 \in 1 .. Len(queue) /\ 1 \in 1 .. Len(queue) /\ j + 1 # 1
    BY <1>4
  <2> QED BY <1>4, <2>1 DEF BuildInv, QueuedOnce
<1>10. RestTypes' /\ QueuedOnce' /\ OwnersOwn'
  <2>1. QueuedOnce'
    <3> SUFFICES ASSUME NEW i \in 1 .. Len(queue'), NEW j \in 1 .. Len(queue'), queue'[i] = queue'[j]
                 PROVE  i = j
      BY DEF QueuedOnce
    <3>1. i + 1 \in 1 .. Len(queue) /\ j + 1 \in 1 .. Len(queue) /\ i \in Nat /\ j \in Nat
      BY <1>4
    <3>2. i + 1 = j + 1
      BY <1>4, <3>1 DEF BuildInv, QueuedOnce
    <3> QED BY <3>1, <3>2
  <2>2. OwnersOwn'
    BY <1>3, <1>5, <1>6 DEF BuildInv, OwnersOwn
  <2> QED BY <1>3, <1>4, <1>5, <2>1, <2>2 DEF BuildInv, RestTypes
<1>11. ASSUME NEW b \in Builds, b # c
       PROVE  (\E j \in 1 .. Len(queue') : queue'[j] = b) <=> (\E j \in 1 .. Len(queue) : queue[j] = b)
  <2>1. ASSUME NEW j \in 1 .. Len(queue'), queue'[j] = b
        PROVE  \E i \in 1 .. Len(queue) : queue[i] = b
    <3>1. j + 1 \in 1 .. Len(queue) /\ queue[j + 1] = b
      BY <1>4, <2>1
    <3> QED BY <3>1
  <2>2. ASSUME NEW j \in 1 .. Len(queue), queue[j] = b
        PROVE  \E i \in 1 .. Len(queue') : queue'[i] = b
    <3>1. j # 1
      BY <1>4, <1>11, <2>2
    <3>2. j - 1 \in 1 .. Len(queue') /\ (j - 1) + 1 = j
      BY <1>4, <3>1
    <3>3. queue'[j - 1] = b
      BY <1>4, <2>2, <3>2
    <3> QED BY <3>2, <3>3
  <2> QED BY <2>1, <2>2
<1>12. ASSUME NEW kind \in Kinds, NEW i \in Ids, NEW b \in Builds, b # c
       PROVE  Holds(kind, i, b)' = Holds(kind, i, b)
  BY <1>b, <1>c, <1>3, <1>5, <1>6, <1>11, <1>12 DEF Holds
<1>13. ASSUME NEW kind \in Kinds, NEW i \in Ids, NEW b \in Builds, b # c,
              Holds(kind, i, b), Permits(kind, i, actor[b])
       PROVE  Permits(kind, i, actor[b])'
  <2>1. kind = "worker" => i \in Workers /\ i # w
    BY <1>b, <1>c, <1>13 DEF Holds
  <2> QED BY <1>3, <1>5, <1>13, <2>1 DEF Permits
<1>14. ASSUME NEW kind \in Kinds, NEW i \in Ids, Holds(kind, i, c)'
       PROVE  kind = "worker" /\ i = w
  <2>1. kind # "queue"
    BY <1>9, <1>14 DEF Holds
  <2>2. ~Holds(kind, i, c)
    BY <1>8, <2>1
  <2> QED BY <1>3, <1>5, <1>14, <2>1, <2>2 DEF Holds
<1>15. Holds("worker", w, c)' /\ Permits("worker", w, actor[c])'
  BY <1>3, <1>6, <1>8 DEF Holds, Permits
<1>16. \A b \in Builds : actor'[b] = actor[b]
  BY <1>3
<1> QED BY <1>7, <1>10, <1>12, <1>13, <1>14, <1>15, <1>16, BuildMoves

(* A worker signals, joins, wedges on, or gives back its build.             *)
LEMMA WorkerBuildStep ==
  ASSUME BuildInv, NEW w \in Workers, RunStop(w) \/ Joined(w) \/ Wedge(w) \/ WorkerSlot(w)
  PROVE  BuildInv'
<1>a. worker \in [Workers -> [pc : WorkerPcs, build : Builds \cup {NoBuild}]]
  BY DEF BuildInv, RestTypes
<1>b. /\ actor \in [Builds -> ActorStates] /\ "stopping" \in ActorStates /\ "stopped" \in ActorStates
      /\ {"join", "unslot", "wedged", "idle"} \subseteq WorkerPcs
      /\ NoBuild \notin Builds /\ "idle" \notin Tearing
  BY DEF BuildInv, RestTypes, ActorStates, WorkerPcs, Builds, NoBuild, Tearing
<1>c. UNCHANGED <<entries, queue, thread, tx, life>>
  BY DEF RunStop, Joined, Wedge, WorkerSlot
<1>d. /\ worker[w].build \in Builds
      /\ worker[w].pc = "join" => actor[worker[w].build] = "stopping"
      /\ worker[w].pc = "unslot" => actor[worker[w].build] = "stopped"
  BY WorkerFacts DEF RunStop, Joined, Wedge, WorkerSlot, WorkerAt, Tearing
<1>e. PICK c \in Builds :
         /\ c = worker[w].build
         /\ worker[w].pc = "join" => actor[c] = "stopping"
         /\ worker[w].pc = "unslot" => actor[c] = "stopped"
  BY <1>d
<1>1. CASE RunStop(w)
  <2>1. /\ worker' \in [Workers -> [pc : WorkerPcs, build : Builds \cup {NoBuild}]]
        /\ worker'[w].pc = "join" /\ worker'[w].build = c
        /\ \A v \in Workers : v # w => worker'[v] = worker[v]
    BY <1>a, <1>b, <1>e, <1>1 DEF RunStop
  <2>2. /\ actor' \in [Builds -> ActorStates] /\ actor'[c] = "stopping"
        /\ \A b \in Builds : b # c => actor'[b] = actor[b]
    BY <1>b, <1>e, <1>1 DEF RunStop, RequestStop
  <2>3. Permits("worker", w, actor[c])'
    BY <2>1, <2>2 DEF Permits
  <2> QED BY <1>c, <1>e, <2>1, <2>2, <2>3, WorkerMoves
<1>2. CASE Joined(w)
  <2>1. /\ worker' \in [Workers -> [pc : WorkerPcs, build : Builds \cup {NoBuild}]]
        /\ worker'[w].pc = "unslot" /\ worker'[w].build = c
        /\ \A v \in Workers : v # w => worker'[v] = worker[v]
    BY <1>a, <1>b, <1>e, <1>2 DEF Joined
  <2>2. /\ actor' \in [Builds -> ActorStates] /\ actor'[c] = "stopped"
        /\ \A b \in Builds : b # c => actor'[b] = actor[b]
    BY <1>b, <1>e, <1>2 DEF Joined
  <2>3. Permits("worker", w, actor[c])'
    BY <2>1, <2>2 DEF Permits
  <2> QED BY <1>c, <1>e, <2>1, <2>2, <2>3, WorkerMoves
<1>3. CASE Wedge(w)
  <2>1. /\ worker' \in [Workers -> [pc : WorkerPcs, build : Builds \cup {NoBuild}]]
        /\ worker'[w].pc = "wedged" /\ worker'[w].build = c
        /\ \A v \in Workers : v # w => worker'[v] = worker[v]
    BY <1>a, <1>b, <1>e, <1>3 DEF Wedge
  <2>2. actor' = actor /\ actor[c] = "stopping"
    BY <1>e, <1>3 DEF Wedge, WorkerAt
  <2>3. Permits("worker", w, actor[c])'
    BY <2>1, <2>2 DEF Permits
  <2> QED BY <1>b, <1>c, <1>e, <2>1, <2>2, <2>3, WorkerMoves
<1>4. CASE WorkerSlot(w)
  <2>1. worker'[w] = [pc |-> "idle", build |-> NoBuild]
    BY <1>a, <1>4 DEF WorkerSlot
  <2>2. /\ worker' \in [Workers -> [pc : WorkerPcs, build : Builds \cup {NoBuild}]]
        /\ worker'[w].pc = "idle" /\ worker'[w].build = NoBuild
        /\ \A v \in Workers : v # w => worker'[v] = worker[v]
    BY <1>a, <1>b, <1>4, <2>1 DEF WorkerSlot
  <2>3. actor' = actor /\ actor[c] = "stopped"
    BY <1>e, <1>4 DEF WorkerSlot, WorkerAt
  <2> QED BY <1>b, <1>c, <1>e, <2>2, <2>3, WorkerMoves
<1> QED BY <1>1, <1>2, <1>3, <1>4

(* A worker with nothing to do exits, and the registry shuts down: no build *)
(* is concerned.                                                            *)
LEMMA RestBuildStep ==
  ASSUME BuildInv,
         \/ \E w \in Workers : WorkerExits(w)
         \/ Shutdown \/ GraceJoinReturns \/ DropRegistry \/ UNCHANGED vars
  PROVE  BuildInv'
<1>a. UNCHANGED <<entries, thread, queue, actor>>
  BY DEF WorkerExits, Shutdown, GraceJoinReturns, DropRegistry, vars
<1>1. /\ worker' \in [Workers -> [pc : WorkerPcs, build : Builds \cup {NoBuild}]]
      /\ tx' \in BOOLEAN /\ life' \in {"up", "joining", "joined", "dropped"}
      /\ \A v \in Workers :
            /\ worker'[v].build = worker[v].build
            /\ worker'[v].pc = worker[v].pc \/ (worker[v].build = NoBuild /\ worker'[v].pc \notin Tearing)
  <2>0. /\ worker \in [Workers -> [pc : WorkerPcs, build : Builds \cup {NoBuild}]]
        /\ tx \in BOOLEAN /\ life \in {"up", "joining", "joined", "dropped"}
    BY DEF BuildInv, RestTypes
  <2>1. ASSUME NEW w \in Workers, WorkerExits(w) PROVE <1>1!:
    <3>1. worker[w].build = NoBuild
      BY <2>1, WorkerFacts DEF WorkerExits, WorkerAt, Tearing
    <3>2. "gone" \in WorkerPcs /\ "gone" \notin Tearing
      BY DEF WorkerPcs, Tearing
    <3>3. /\ worker' = [worker EXCEPT ![w].pc = "gone"] /\ tx' = tx /\ life' = life
      BY <2>1 DEF WorkerExits
    <3> QED BY <2>0, <3>1, <3>2, <3>3
  <2>2. CASE Shutdown \/ GraceJoinReturns \/ DropRegistry \/ UNCHANGED vars
    BY <2>0, <2>2 DEF Shutdown, GraceJoinReturns, DropRegistry, vars
  <2> QED BY <2>1, <2>2
<1>2. RestTypes' /\ QueuedOnce' /\ OwnersOwn'
  BY <1>a, <1>1 DEF BuildInv, RestTypes, QueuedOnce, OwnersOwn
<1>3. ASSUME NEW kind \in Kinds, NEW i \in Ids, NEW b \in Builds
      PROVE  Holds(kind, i, b)' = Holds(kind, i, b)
  BY <1>a, <1>1 DEF Holds
<1>4. ASSUME NEW kind \in Kinds, NEW i \in Ids, NEW b \in Builds,
             Holds(kind, i, b), Permits(kind, i, actor[b])
      PROVE  Permits(kind, i, actor[b])'
  <2>0. NoBuild \notin Builds
    BY DEF Builds, NoBuild
  <2>1. kind = "worker" => i \in Workers /\ worker[i].build = b
    BY <1>4 DEF Holds
  <2>2. kind = "worker" => worker'[i].pc = worker[i].pc
    BY <1>1, <2>0, <2>1
  <2> QED BY <1>a, <1>4, <2>2 DEF Permits
<1> QED BY <1>a, <1>2, <1>3, <1>4, NoBuildMoves

LEMMA StepBuildInv == RegistryInv /\ BuildInv /\ [Next]_vars => BuildInv'
<1> SUFFICES ASSUME RegistryInv, BuildInv, [Next]_vars PROVE BuildInv'
  OBVIOUS
<1>0. Types /\ Acquiring
  BY DEF RegistryInv
<1>1. ASSUME NEW t \in Threads, NEW k \in Keys, AcquireShared(t, k) \/ AcquireFirst(t, k)
      PROVE  BuildInv'
  BY <1>0, <1>1, EmptyThreadStep
<1>2. ASSUME NEW t \in Threads, FactoryFails(t) \/ ReleaseShared(t) PROVE BuildInv'
  BY <1>0, <1>2, EmptyThreadStep
<1>3. ASSUME NEW t \in Threads, FactoryOk(t) PROVE BuildInv'
  BY <1>0, <1>3, ThreadBuildStep
<1>4. ASSUME NEW t \in Threads, ReleaseLast(t) PROVE BuildInv'
  BY <1>4, ReleaseBuildStep
<1>5. ASSUME NEW t \in Threads, ThreadStep(t) PROVE BuildInv'
  BY <1>0, <1>5, InsertBuildStep, SendBuildStep, ThreadBuildStep DEF ThreadStep
<1>6. ASSUME NEW w \in Workers, WorkerStep(w) \/ Wedge(w) PROVE BuildInv'
  BY <1>6, ReceiveBuildStep, WorkerBuildStep, RestBuildStep DEF WorkerStep
<1>7. CASE Shutdown \/ GraceJoinReturns \/ DropRegistry \/ UNCHANGED vars
  BY <1>7, RestBuildStep
<1> QED BY <1>1, <1>2, <1>3, <1>4, <1>5, <1>6, <1>7 DEF Next

(* Every build is in one place at a time, with an actor that suits the      *)
(* place, and none that runs is out of every place (registry.rs,            *)
(* acquire_inner, release, offer_teardown and Teardown::run).               *)
THEOREM BuildsAreInOnePlace == Spec => []BuildInv
  BY RegistryInvariant, InitBuildInv, StepBuildInv, PTL DEF Spec

(* No decode is stopped under a handle, and none runs on without an owner,  *)
(* whatever losers, sheds and refused teardowns signal (registry.rs,        *)
(* SourceActor and signal_and_detach).                                      *)
THEOREM DecodesAreAccounted == Spec => []DecodesAccounted
<1>1. RegistryInv /\ BuildInv => DecodesAccounted
  <2> SUFFICES ASSUME RegistryInv, BuildInv PROVE DecodesAccounted
    OBVIOUS
  <2>1. HeldSourceRuns
    <3> SUFFICES ASSUME NEW k \in Keys, Registered(k)
                 PROVE  actor[entries[k].build] \in {"running", "absent"}
      BY DEF HeldSourceRuns
    <3>1. entries[k].build \in Builds
      BY DEF RegistryInv, Types, EntryRec, Registered
    <3>2. "entry" \in Kinds /\ k \in Ids /\ Holds("entry", k, entries[k].build)
      BY DEF Kinds, Ids, Holds
    <3>3. Permits("entry", k, actor[entries[k].build])
      BY <3>1, <3>2 DEF BuildInv, HeldAsPermitted
    <3> QED BY <3>3 DEF Permits
  <2>2. NoDecodeLeaks
    <3> SUFFICES ASSUME NEW b \in Builds, actor[b] = "running"
                 PROVE  \/ \E k \in Keys : entries[k].build = b
                        \/ \E t \in Threads : thread[t].own = b
                        \/ \E i \in 1 .. Len(queue) : queue[i] = b
                        \/ \E w \in Workers : worker[w].build = b
      BY DEF NoDecodeLeaks
    <3>1. PICK kind \in Kinds, i \in Ids : Holds(kind, i, b)
      BY DEF BuildInv, RunningIsHeld
    <3> QED BY <3>1 DEF Holds
  <2> QED BY <2>1, <2>2 DEF DecodesAccounted
<1> QED BY <1>1, RegistryInvariant, BuildsAreInOnePlace, PTL

-----------------------------------------------------------------------------
(* The accounting of slots: the counter is the number of builds that hold   *)
(* one.                                                                     *)

Slotted == {"clone", "send", "drop", "unslot"}

LEMMA SlotsFinite == IsFiniteSet(Slots) /\ Cardinality(Slots) \in Nat
<1>1. IsFiniteSet(Builds)
  BY BoundsAssumption, FS_Interval DEF Builds
<1>2. Slots \subseteq Builds
  BY DEF Slots
<1> QED BY <1>1, <1>2, FS_Subset, FS_CardinalityType

LEMMA CountedPending == SlotsCounted <=> pending = Cardinality(Slots)
  BY DEF SlotsCounted, Slots

(* A thread holds a slot before and after, for the same build, or neither.  *)
LEMMA ThreadKeepsSlots ==
  ASSUME NEW t \in Threads, queue' = queue, worker' = worker,
         \A u \in Threads : u # t => thread'[u] = thread[u],
         thread[t].pc \in Slotted <=> thread'[t].pc \in Slotted,
         thread[t].pc \in Slotted => thread'[t].own = thread[t].own
  PROVE  Slots' = Slots
<1>1. ASSUME NEW b \in Builds PROVE SlotOf(b)' <=> SlotOf(b)
  <2>1. \A u \in Threads : thread'[u].own = b /\ thread'[u].pc \in Slotted
                              <=> thread[u].own = b /\ thread[u].pc \in Slotted
    OBVIOUS
  <2> QED BY <2>1 DEF SlotOf, Slotted
<1> QED BY <1>1 DEF Slots, Builds

(* What the actions of a thread that leave the queue alone do to the slots  *)
(* and to the counter value it has read.                                    *)
LEMMA ThreadSlotStep ==
  ASSUME Types, NEW t \in Threads,
         \/ \E k \in Keys : AcquireShared(t, k) \/ AcquireFirst(t, k)
         \/ FactoryOk(t) \/ FactoryFails(t) \/ InsertWins(t) \/ InsertLoses(t) \/ StopLoser(t)
         \/ ReleaseShared(t) \/ ReleaseLast(t) \/ LoadPending(t) \/ AtCeiling(t) \/ CasFails(t)
         \/ Shed(t) \/ CloneSender(t) \/ SendRefused(t) \/ DropTeardown(t)
  PROVE  /\ Slots' = Slots /\ pending' = pending
         /\ \A u \in Threads : u # t => thread'[u] = thread[u]
         /\ thread'[t].cur \in {thread[t].cur, 0, pending}
<1>a. thread \in [Threads -> ThreadRec] /\ thread[t] \in ThreadRec
  BY DEF Types
<1>b. {"idle", "held", "factory", "insert", "stopLoser", "reserve", "cas", "shed"} \cap Slotted = {}
  BY DEF Slotted
<1>c. {"clone", "send", "drop", "unslot"} \subseteq Slotted
  BY DEF Slotted
<1>1. ASSUME NEW k \in Keys, AcquireShared(t, k)
      PROVE  /\ Slots' = Slots /\ pending' = pending
             /\ \A u \in Threads : u # t => thread'[u] = thread[u]
             /\ thread'[t].cur \in {thread[t].cur, 0, pending}
  <2>1. /\ thread[t].pc = "idle" /\ thread'[t].pc \in {"held"}
        /\ thread'[t].cur \in {thread[t].cur, 0, pending}
        /\ \A u \in Threads : u # t => thread'[u] = thread[u]
    BY <1>a, <1>1 DEF AcquireShared, Goto, Return, Idle, ThreadRec, At
  <2>2. UNCHANGED <<queue, worker, pending>>
    BY <1>1 DEF AcquireShared
  <2> QED BY <1>b, <1>c, <2>1, <2>2, ThreadKeepsSlots
<1>2. ASSUME NEW k \in Keys, AcquireFirst(t, k)
      PROVE  /\ Slots' = Slots /\ pending' = pending
             /\ \A u \in Threads : u # t => thread'[u] = thread[u]
             /\ thread'[t].cur \in {thread[t].cur, 0, pending}
  <2>1. /\ thread[t].pc = "idle" /\ thread'[t].pc \in {"factory"}
        /\ thread'[t].cur \in {thread[t].cur, 0, pending}
        /\ \A u \in Threads : u # t => thread'[u] = thread[u]
    BY <1>a, <1>2 DEF AcquireFirst, Goto, Return, Idle, ThreadRec, At
  <2>2. UNCHANGED <<queue, worker, pending>>
    BY <1>2 DEF AcquireFirst
  <2> QED BY <1>b, <1>c, <2>1, <2>2, ThreadKeepsSlots
<1>3. CASE FactoryOk(t)
  <2>1. /\ thread[t].pc = "factory" /\ thread'[t].pc \in {"insert"}
        /\ thread'[t].cur \in {thread[t].cur, 0, pending}
        /\ \A u \in Threads : u # t => thread'[u] = thread[u]
    <3>1. PICK b \in Builds : thread' = [thread EXCEPT ![t].pc = "insert", ![t].own = b]
      BY <1>3 DEF FactoryOk
    <3>2. thread[t].pc = "factory"
      BY <1>3 DEF FactoryOk, At
    <3> QED BY <1>a, <3>1, <3>2 DEF ThreadRec
  <2>2. UNCHANGED <<queue, worker, pending>>
    BY <1>3 DEF FactoryOk
  <2> QED BY <1>b, <1>c, <2>1, <2>2, ThreadKeepsSlots
<1>4. CASE FactoryFails(t)
  <2>1. /\ thread[t].pc = "factory" /\ thread'[t].pc \in {"idle"}
        /\ thread'[t].cur \in {thread[t].cur, 0, pending}
        /\ \A u \in Threads : u # t => thread'[u] = thread[u]
    BY <1>a, <1>4 DEF FactoryFails, Goto, Return, Idle, ThreadRec, At
  <2>2. UNCHANGED <<queue, worker, pending>>
    BY <1>4 DEF FactoryFails
  <2> QED BY <1>b, <1>c, <2>1, <2>2, ThreadKeepsSlots
<1>5. CASE InsertWins(t)
  <2>1. /\ thread[t].pc = "insert" /\ thread'[t].pc \in {"held"}
        /\ thread'[t].cur \in {thread[t].cur, 0, pending}
        /\ \A u \in Threads : u # t => thread'[u] = thread[u]
    BY <1>a, <1>5 DEF InsertWins, Goto, Return, Idle, ThreadRec, At
  <2>2. UNCHANGED <<queue, worker, pending>>
    BY <1>5 DEF InsertWins
  <2> QED BY <1>b, <1>c, <2>1, <2>2, ThreadKeepsSlots
<1>6. CASE InsertLoses(t)
  <2>1. /\ thread[t].pc = "insert" /\ thread'[t].pc \in {"stopLoser", "held"}
        /\ thread'[t].cur \in {thread[t].cur, 0, pending}
        /\ \A u \in Threads : u # t => thread'[u] = thread[u]
    BY <1>a, <1>6 DEF InsertLoses, Goto, Return, Idle, ThreadRec, At
  <2>2. UNCHANGED <<queue, worker, pending>>
    BY <1>6 DEF InsertLoses
  <2> QED BY <1>b, <1>c, <2>1, <2>2, ThreadKeepsSlots
<1>7. CASE StopLoser(t)
  <2>1. /\ thread[t].pc = "stopLoser" /\ thread'[t].pc \in {"held"}
        /\ thread'[t].cur \in {thread[t].cur, 0, pending}
        /\ \A u \in Threads : u # t => thread'[u] = thread[u]
    BY <1>a, <1>7 DEF StopLoser, Goto, Return, Idle, ThreadRec, At
  <2>2. UNCHANGED <<queue, worker, pending>>
    BY <1>7 DEF StopLoser
  <2> QED BY <1>b, <1>c, <2>1, <2>2, ThreadKeepsSlots
<1>8. CASE ReleaseShared(t)
  <2>1. /\ thread[t].pc = "held" /\ thread'[t].pc \in {"idle"}
        /\ thread'[t].cur \in {thread[t].cur, 0, pending}
        /\ \A u \in Threads : u # t => thread'[u] = thread[u]
    BY <1>a, <1>8 DEF ReleaseShared, Goto, Return, Idle, ThreadRec, At
  <2>2. UNCHANGED <<queue, worker, pending>>
    BY <1>8 DEF ReleaseShared
  <2> QED BY <1>b, <1>c, <2>1, <2>2, ThreadKeepsSlots
<1>9. CASE ReleaseLast(t)
  <2>1. /\ thread[t].pc = "held" /\ thread'[t].pc \in {"idle", "reserve"}
        /\ thread'[t].cur \in {thread[t].cur, 0, pending}
        /\ \A u \in Threads : u # t => thread'[u] = thread[u]
    <3>1. \E b \in {entries[thread[t].key].build} :
             thread' \in {[thread EXCEPT ![t] = [Idle EXCEPT !.pc = "reserve", !.own = b]],
                          [thread EXCEPT ![t] = Idle]}
      BY <1>9 DEF ReleaseLast
    <3>2. \A b : /\ [Idle EXCEPT !.pc = "reserve", !.own = b].pc = "reserve"
                 /\ [Idle EXCEPT !.pc = "reserve", !.own = b].cur = 0
      BY Zenon DEF Idle
    <3>3. Idle.pc = "idle" /\ Idle.cur = 0
      BY DEF Idle
    <3>4. thread[t].pc = "held"
      BY <1>9 DEF ReleaseLast, At
    <3>5. \E r : /\ r.pc \in {"idle", "reserve"} /\ r.cur = 0
                 /\ thread' = [thread EXCEPT ![t] = r]
      <4> HIDE DEF Idle
      <4> QED BY <3>1, <3>2, <3>3, Zenon
    <3> QED BY <1>a, <3>4, <3>5
  <2>2. UNCHANGED <<queue, worker, pending>>
    BY <1>9 DEF ReleaseLast
  <2> QED BY <1>b, <1>c, <2>1, <2>2, ThreadKeepsSlots
<1>10. CASE LoadPending(t)
  <2>1. /\ thread[t].pc = "reserve" /\ thread'[t].pc \in {"cas"}
        /\ thread'[t].cur \in {thread[t].cur, 0, pending}
        /\ \A u \in Threads : u # t => thread'[u] = thread[u]
    BY <1>a, <1>10 DEF LoadPending, Goto, Return, Idle, ThreadRec, At
  <2>2. UNCHANGED <<queue, worker, pending>>
    BY <1>10 DEF LoadPending
  <2> QED BY <1>b, <1>c, <2>1, <2>2, ThreadKeepsSlots
<1>11. CASE AtCeiling(t)
  <2>1. /\ thread[t].pc = "cas" /\ thread'[t].pc \in {"shed"}
        /\ thread'[t].cur \in {thread[t].cur, 0, pending}
        /\ \A u \in Threads : u # t => thread'[u] = thread[u]
    BY <1>a, <1>11 DEF AtCeiling, Goto, Return, Idle, ThreadRec, At
  <2>2. UNCHANGED <<queue, worker, pending>>
    BY <1>11 DEF AtCeiling
  <2> QED BY <1>b, <1>c, <2>1, <2>2, ThreadKeepsSlots
<1>12. CASE CasFails(t)
  <2>1. /\ thread[t].pc = "cas" /\ thread'[t].pc \in {"cas"}
        /\ thread'[t].cur \in {thread[t].cur, 0, pending}
        /\ \A u \in Threads : u # t => thread'[u] = thread[u]
    BY <1>a, <1>12 DEF CasFails, Goto, Return, Idle, ThreadRec, At
  <2>2. UNCHANGED <<queue, worker, pending>>
    BY <1>12 DEF CasFails
  <2> QED BY <1>b, <1>c, <2>1, <2>2, ThreadKeepsSlots
<1>13. CASE Shed(t)
  <2>1. /\ thread[t].pc = "shed" /\ thread'[t].pc \in {"idle"}
        /\ thread'[t].cur \in {thread[t].cur, 0, pending}
        /\ \A u \in Threads : u # t => thread'[u] = thread[u]
    BY <1>a, <1>13 DEF Shed, Goto, Return, Idle, ThreadRec, At
  <2>2. UNCHANGED <<queue, worker, pending>>
    BY <1>13 DEF Shed
  <2> QED BY <1>b, <1>c, <2>1, <2>2, ThreadKeepsSlots
<1>14. CASE CloneSender(t)
  <2>1. /\ thread[t].pc = "clone" /\ thread'[t].pc \in {"send", "drop"} /\ thread'[t].own = thread[t].own
        /\ thread'[t].cur \in {thread[t].cur, 0, pending}
        /\ \A u \in Threads : u # t => thread'[u] = thread[u]
    BY <1>a, <1>14 DEF CloneSender, Goto, Return, Idle, ThreadRec, At
  <2>2. UNCHANGED <<queue, worker, pending>>
    BY <1>14 DEF CloneSender
  <2> QED BY <1>b, <1>c, <2>1, <2>2, ThreadKeepsSlots
<1>15. CASE SendRefused(t)
  <2>1. /\ thread[t].pc = "send" /\ thread'[t].pc \in {"drop"} /\ thread'[t].own = thread[t].own
        /\ thread'[t].cur \in {thread[t].cur, 0, pending}
        /\ \A u \in Threads : u # t => thread'[u] = thread[u]
    BY <1>a, <1>15 DEF SendRefused, Goto, Return, Idle, ThreadRec, At
  <2>2. UNCHANGED <<queue, worker, pending>>
    BY <1>15 DEF SendRefused
  <2> QED BY <1>b, <1>c, <2>1, <2>2, ThreadKeepsSlots
<1>16. CASE DropTeardown(t)
  <2>1. /\ thread[t].pc = "drop" /\ thread'[t].pc \in {"unslot"} /\ thread'[t].own = thread[t].own
        /\ thread'[t].cur \in {thread[t].cur, 0, pending}
        /\ \A u \in Threads : u # t => thread'[u] = thread[u]
    BY <1>a, <1>16 DEF DropTeardown, Goto, Return, Idle, ThreadRec, At
  <2>2. UNCHANGED <<queue, worker, pending>>
    BY <1>16 DEF DropTeardown
  <2> QED BY <1>b, <1>c, <2>1, <2>2, ThreadKeepsSlots
<1> QED BY <1>1, <1>2, <1>3, <1>4, <1>5, <1>6, <1>7, <1>8, <1>9, <1>10, <1>11, <1>12, <1>13, <1>14, <1>15, <1>16

LEMMA PendingNat == SlotInv => pending \in Nat
  BY SlotsFinite, CountedPending DEF SlotInv

(* The slots and the counter stay, and a thread reads at most the counter.  *)
LEMMA SlotsKept ==
  ASSUME SlotInv, Slots' = Slots, pending' = pending,
         \A u \in Threads : thread'[u].cur \in {thread[u].cur, 0, pending}
  PROVE  SlotInv'
<1>1. pending \in Nat
  BY PendingNat
<1>2. SlotsCounted'
  BY DEF SlotInv, SlotsCounted, Slots
<1>3. ReadsNat'
  BY <1>1 DEF SlotInv, ReadsNat
<1> QED BY <1>2, <1>3 DEF SlotInv

(* One build gains a slot, and the counter one.                             *)
LEMMA SlotTaken ==
  ASSUME SlotInv, NEW c, c \notin Slots, Slots' = Slots \cup {c}, pending' = pending + 1,
         \A u \in Threads : thread'[u].cur \in {thread[u].cur, 0, pending}
  PROVE  SlotInv'
<1>1. IsFiniteSet(Slots)
  BY SlotsFinite
<1>2. c \notin Slots => Cardinality(Slots \cup {c}) = Cardinality(Slots) + 1
  BY ONLY <1>1, FS_AddElement
<1>3. pending = Cardinality(Slots) /\ pending \in Nat
  BY CountedPending, PendingNat DEF SlotInv
<1>4. SlotsCounted'
  BY <1>2, <1>3 DEF SlotsCounted, Slots
<1>5. ReadsNat'
  BY <1>3 DEF SlotInv, ReadsNat
<1> QED BY <1>4, <1>5 DEF SlotInv

(* One build loses its slot, and the counter one.                           *)
LEMMA SlotGivenBack ==
  ASSUME SlotInv, NEW c, c \in Slots, Slots' = Slots \ {c}, pending' = pending - 1,
         \A u \in Threads : thread'[u].cur \in {thread[u].cur, 0}
  PROVE  SlotInv'
<1>1. IsFiniteSet(Slots)
  BY SlotsFinite
<1>2. c \in Slots => Cardinality(Slots \ {c}) = Cardinality(Slots) - 1
  BY ONLY <1>1, FS_RemoveElement
<1>3. pending = Cardinality(Slots)
  BY CountedPending DEF SlotInv
<1>4. SlotsCounted'
  BY <1>2, <1>3 DEF SlotsCounted, Slots
<1>5. ReadsNat'
  BY DEF SlotInv, ReadsNat
<1> QED BY <1>4, <1>5 DEF SlotInv

LEMMA InitSlotInv == Init => SlotInv
<1> SUFFICES ASSUME Init PROVE SlotInv
  OBVIOUS
<1>1. Slots = {}
  <2>0. NoBuild \notin Builds
    BY DEF Builds, NoBuild
  <2>1. /\ \A t \in Threads : thread[t].own = NoBuild
        /\ \A w \in Workers : worker[w].build = NoBuild
        /\ queue = <<>> /\ Len(queue) = 0
    BY DEF Init, Idle
  <2>2. \A b \in Builds : ~SlotOf(b)
    BY <2>0, <2>1 DEF SlotOf
  <2> QED BY <2>2 DEF Slots
<1>2. SlotsCounted
  BY <1>1, CountedPending, FS_EmptySet DEF Init
<1>3. ReadsNat
  BY DEF Init, ReadsNat, Idle
<1> QED BY <1>2, <1>3 DEF SlotInv

(* Who has a slot, in the terms of the accounting of builds.                *)
LEMMA SlotHolders ==
  ASSUME NEW b \in Builds
  PROVE  SlotOf(b) <=> \/ \E t \in Threads : Holds("thread", t, b) /\ thread[t].pc \in Slotted
                       \/ Holds("queue", NoKey, b)
                       \/ \E w \in Workers : Holds("worker", w, b)
BY DEF SlotOf, Holds, Slotted

(* The slots are claimed and given back by the compare-exchange and the two *)
(* SlotGuard drops, and no other step changes who has one.                  *)
LEMMA StepSlotInv == RegistryInv /\ BuildInv /\ SlotInv /\ [Next]_vars => SlotInv'
<1> SUFFICES ASSUME RegistryInv, BuildInv, SlotInv, [Next]_vars PROVE SlotInv'
  OBVIOUS
<1>a. Types /\ thread \in [Threads -> ThreadRec]
  BY DEF RegistryInv, Types
<1>b. NoBuild \notin Builds
  BY DEF Builds, NoBuild
<1>1. ASSUME NEW t \in Threads,
             \/ \E k \in Keys : AcquireShared(t, k) \/ AcquireFirst(t, k)
             \/ FactoryOk(t) \/ FactoryFails(t) \/ InsertWins(t) \/ InsertLoses(t) \/ StopLoser(t)
             \/ ReleaseShared(t) \/ ReleaseLast(t) \/ LoadPending(t) \/ AtCeiling(t) \/ CasFails(t)
             \/ Shed(t) \/ CloneSender(t) \/ SendRefused(t) \/ DropTeardown(t)
      PROVE  SlotInv'
  <2>1. /\ Slots' = Slots /\ pending' = pending
        /\ \A u \in Threads : u # t => thread'[u] = thread[u]
        /\ thread'[t].cur \in {thread[t].cur, 0, pending}
    BY <1>a, <1>1, ThreadSlotStep
  <2> QED BY <2>1, SlotsKept
<1>2. ASSUME NEW t \in Threads, CasOk(t) PROVE SlotInv'
  <2>1. /\ thread[t].own \in Builds
        /\ \A kind \in Kinds, i \in Ids :
              Holds(kind, i, thread[t].own) => kind = "thread" /\ i = t
    BY <1>a, <1>2, OwnFacts DEF CasOk, At, Owning, Releasing
  <2>2. PICK c \in Builds :
           /\ c = thread[t].own
           /\ \A kind \in Kinds, i \in Ids : Holds(kind, i, c) => kind = "thread" /\ i = t
    BY <2>1
  <2>3. /\ thread[t].pc = "cas" /\ thread'[t].pc = "clone" /\ thread'[t].own = c
        /\ thread'[t].cur = 0 /\ pending' = pending + 1 /\ queue' = queue /\ worker' = worker
        /\ \A u \in Threads : u # t => thread'[u] = thread[u]
    BY <1>a, <1>2, <2>2 DEF CasOk, At, ThreadRec
  <2>4. c \notin Slots
    <3>1. /\ Threads \subseteq Ids /\ Workers \subseteq Ids /\ NoKey \in Ids
          /\ "thread" \in Kinds /\ "queue" \in Kinds /\ "worker" \in Kinds
      BY DEF Kinds, Ids
    <3>2. ~SlotOf(c)
      BY <2>2, <2>3, <3>1, SlotHolders DEF Slotted
    <3> QED BY <3>2 DEF Slots
  <2>5. ASSUME NEW b \in Builds PROVE SlotOf(b)' <=> (SlotOf(b) \/ b = c)
    <3>1. "cas" \notin Slotted /\ "clone" \in Slotted
      BY DEF Slotted
    <3> QED BY <2>2, <2>3, <3>1 DEF SlotOf, Slotted
  <2>6. Slots' = Slots \cup {c}
    BY <2>5 DEF Slots, Builds
  <2> QED BY <2>3, <2>4, <2>6, SlotTaken
<1>3. ASSUME NEW t \in Threads, DropSlot(t) PROVE SlotInv'
  <2>1. /\ thread[t].own \in Builds
        /\ \A kind \in Kinds, i \in Ids :
              Holds(kind, i, thread[t].own) => kind = "thread" /\ i = t
    BY <1>a, <1>3, OwnFacts DEF DropSlot, At, Owning, Releasing
  <2>2. PICK c \in Builds :
           /\ c = thread[t].own
           /\ \A kind \in Kinds, i \in Ids : Holds(kind, i, c) => kind = "thread" /\ i = t
    BY <2>1
  <2>3. /\ thread[t].pc = "unslot" /\ thread'[t].pc = "idle" /\ thread'[t].own = NoBuild
        /\ thread'[t].cur = 0 /\ pending' = pending - 1 /\ queue' = queue /\ worker' = worker
        /\ \A u \in Threads : u # t => thread'[u] = thread[u]
    BY <1>a, <1>3 DEF DropSlot, At, Return, Idle
  <2>4. c \in Slots
    <3>1. SlotOf(c)
      BY <2>2, <2>3 DEF SlotOf
    <3> QED BY <3>1 DEF Slots
  <2>5. ASSUME NEW b \in Builds PROVE SlotOf(b)' <=> (SlotOf(b) /\ b # c)
    <3>1. CASE b = c
      <4>1. /\ Threads \subseteq Ids /\ Workers \subseteq Ids /\ NoKey \in Ids
            /\ "thread" \in Kinds /\ "queue" \in Kinds /\ "worker" \in Kinds
        BY DEF Kinds, Ids
      <4>2. /\ \A u \in Threads : u # t => thread[u].own # c
            /\ \A i \in 1 .. Len(queue) : queue[i] # c
            /\ \A w \in Workers : worker[w].build # c
        BY <2>2, <4>1 DEF Holds
      <4> QED BY <2>3, <3>1, <4>2, <1>b DEF SlotOf
    <3>2. CASE b # c
      BY <1>b, <2>2, <2>3, <3>2 DEF SlotOf
    <3> QED BY <3>1, <3>2
  <2>6. Slots' = Slots \ {c}
    BY <2>5 DEF Slots, Builds
  <2> QED BY <2>3, <2>4, <2>6, SlotGivenBack
<1>4. ASSUME NEW t \in Threads, TrySend(t) PROVE SlotInv'
  <2>1. thread[t].own \in Builds
    BY <1>a, <1>4, OwnFacts DEF TrySend, At, Owning, Releasing
  <2>2. PICK c \in Builds : c = thread[t].own
    BY <2>1
  <2>3. /\ thread[t].pc = "send" /\ thread'[t].pc = "idle" /\ thread'[t].cur = 0
        /\ pending' = pending /\ worker' = worker
        /\ \A u \in Threads : u # t => thread'[u] = thread[u]
    BY <1>a, <1>4 DEF TrySend, At, Return, Idle
  <2>4. queue \in Seq(Builds) /\ queue' = Append(queue, c)
    BY <1>4, <2>2 DEF BuildInv, RestTypes, TrySend
  <2>5. /\ Len(queue') = Len(queue) + 1 /\ queue'[Len(queue) + 1] = c /\ Len(queue) \in Nat
        /\ \A j \in 1 .. Len(queue) : queue'[j] = queue[j]
    BY <2>4
  <2>6. ASSUME NEW b \in Builds PROVE SlotOf(b)' <=> SlotOf(b)
    <3>1. (\E i \in 1 .. Len(queue') : queue'[i] = b)
             <=> (\E i \in 1 .. Len(queue) : queue[i] = b) \/ b = c
      BY <2>5
    <3>2. (\E u \in Threads : thread[u].own = b /\ thread[u].pc \in {"clone", "send", "drop", "unslot"})
             <=> \/ b = c
                 \/ \E u \in Threads : thread'[u].own = b /\ thread'[u].pc \in {"clone", "send", "drop", "unslot"}
      BY <2>2, <2>3
    <3> QED BY <2>3, <3>1, <3>2 DEF SlotOf
  <2>7. Slots' = Slots
    BY <2>6 DEF Slots, Builds
  <2> QED BY <2>3, <2>7, SlotsKept
<1>5. ASSUME NEW w \in Workers, Receive(w) PROVE SlotInv'
  <2>0. worker \in [Workers -> [pc : WorkerPcs, build : Builds \cup {NoBuild}]]
    BY DEF BuildInv, RestTypes
  <2>1. worker[w].build = NoBuild
    BY <1>5, WorkerFacts DEF Receive, WorkerAt, Tearing
  <2>2. queue \in Seq(Builds) /\ queue # <<>> /\ queue' = Tail(queue)
    BY <1>5 DEF BuildInv, RestTypes, Receive
  <2>3. PICK c \in Builds : c = Head(queue)
    BY <2>2
  <2>4. /\ Len(queue) \in Nat \ {0} /\ Len(queue') = Len(queue) - 1
        /\ queue[1] = c /\ \A j \in 1 .. Len(queue') : queue'[j] = queue[j + 1]
    BY <2>2, <2>3
  <2>5. worker'[w] = [pc |-> "run", build |-> c] /\ \A v \in Workers : v # w => worker'[v] = worker[v]
    BY <1>5, <2>0, <2>3 DEF Receive
  <2>6. worker'[w].build = c
    BY <2>5
  <2>7. thread' = thread /\ pending' = pending
    BY <1>5 DEF Receive
  <2>8. ASSUME NEW b \in Builds PROVE SlotOf(b)' <=> SlotOf(b)
    <3>1. (\E i \in 1 .. Len(queue) : queue[i] = b)
             <=> b = c \/ \E i \in 1 .. Len(queue') : queue'[i] = b
      <4>1. ASSUME NEW i \in 1 .. Len(queue), queue[i] = b, b # c
            PROVE  \E j \in 1 .. Len(queue') : queue'[j] = b
        <5>1. i # 1
          BY <2>4, <4>1
        <5>2. i - 1 \in 1 .. Len(queue') /\ (i - 1) + 1 = i
          BY <2>4, <5>1
        <5>3. queue'[i - 1] = b
          BY <2>4, <4>1, <5>2
        <5> QED BY <5>2, <5>3
      <4>2. ASSUME NEW j \in 1 .. Len(queue'), queue'[j] = b
            PROVE  \E i \in 1 .. Len(queue) : queue[i] = b
        <5>1. j + 1 \in 1 .. Len(queue) /\ queue[j + 1] = b
          BY <2>4, <4>2
        <5> QED BY <5>1
      <4>3. 1 \in 1 .. Len(queue)
        BY <2>4
      <4> QED BY <2>4, <4>1, <4>2, <4>3
    <3>2. (\E v \in Workers : worker'[v].build = b) <=> b = c \/ \E v \in Workers : worker[v].build = b
      BY <1>b, <2>1, <2>5, <2>6
    <3> QED BY <2>7, <3>1, <3>2 DEF SlotOf
  <2>9. Slots' = Slots
    BY <2>8 DEF Slots, Builds
  <2> QED BY <2>7, <2>9, SlotsKept
<1>6. ASSUME NEW w \in Workers, WorkerSlot(w) PROVE SlotInv'
  <2>0. worker \in [Workers -> [pc : WorkerPcs, build : Builds \cup {NoBuild}]]
    BY DEF BuildInv, RestTypes
  <2>1. worker[w].build \in Builds
    BY <1>6, WorkerFacts DEF WorkerSlot, WorkerAt, Tearing
  <2>2. PICK c \in Builds : c = worker[w].build
    BY <2>1
  <2>3. /\ \A kind \in Kinds, i \in Ids : Holds(kind, i, c) => kind = "worker" /\ i = w
        /\ Threads \subseteq Ids /\ Workers \subseteq Ids /\ NoKey \in Ids
        /\ "thread" \in Kinds /\ "queue" \in Kinds /\ "worker" \in Kinds
    <3>1. /\ Threads \subseteq Ids /\ Workers \subseteq Ids /\ NoKey \in Ids
          /\ "thread" \in Kinds /\ "queue" \in Kinds /\ "worker" \in Kinds
      BY DEF Kinds, Ids
    <3>2. Holds("worker", w, c)
      BY <2>2 DEF Holds
    <3> QED BY <3>1, <3>2 DEF BuildInv, Exclusive
  <2>4. worker'[w] = [pc |-> "idle", build |-> NoBuild]
    BY <1>6, <2>0 DEF WorkerSlot
  <2>5. /\ worker'[w].build = NoBuild /\ \A v \in Workers : v # w => worker'[v] = worker[v]
        /\ thread' = thread /\ queue' = queue /\ pending' = pending - 1
    BY <1>6, <2>0, <2>4 DEF WorkerSlot
  <2>6. c \in Slots
    <3>1. SlotOf(c)
      BY <2>2 DEF SlotOf
    <3> QED BY <3>1 DEF Slots
  <2>7. ASSUME NEW b \in Builds PROVE SlotOf(b)' <=> (SlotOf(b) /\ b # c)
    <3>1. CASE b = c
      <4>1. /\ \A u \in Threads : thread[u].own # c
            /\ \A i \in 1 .. Len(queue) : queue[i] # c
            /\ \A v \in Workers : v # w => worker[v].build # c
        BY <2>3 DEF Holds
      <4> QED BY <1>b, <2>5, <3>1, <4>1 DEF SlotOf
    <3>2. CASE b # c
      BY <1>b, <2>2, <2>5, <3>2 DEF SlotOf
    <3> QED BY <3>1, <3>2
  <2>8. Slots' = Slots \ {c}
    BY <2>7 DEF Slots, Builds
  <2> QED BY <2>5, <2>6, <2>8, SlotGivenBack
<1>7. ASSUME UNCHANGED <<thread, queue, pending>>,
             \A v \in Workers : worker'[v].build = worker[v].build
      PROVE  SlotInv'
  <2>1. Slots' = Slots
    <3>1. \A b \in Builds : SlotOf(b)' <=> SlotOf(b)
      BY <1>7 DEF SlotOf
    <3> QED BY <3>1 DEF Slots, Builds
  <2> QED BY <1>7, <2>1, SlotsKept
<1>8. ASSUME NEW w \in Workers, WorkerExits(w) \/ RunStop(w) \/ Joined(w) \/ Wedge(w)
      PROVE  SlotInv'
  <2>0. worker \in [Workers -> [pc : WorkerPcs, build : Builds \cup {NoBuild}]]
    BY DEF BuildInv, RestTypes
  <2>1. /\ UNCHANGED <<thread, queue, pending>>
        /\ \A v \in Workers : worker'[v].build = worker[v].build
    BY <1>8, <2>0 DEF WorkerExits, RunStop, Joined, Wedge
  <2> QED BY <1>7, <2>1
<1>9. CASE Shutdown \/ GraceJoinReturns \/ DropRegistry \/ UNCHANGED vars
  <2>1. UNCHANGED <<thread, queue, pending, worker>>
    BY <1>9 DEF Shutdown, GraceJoinReturns, DropRegistry, vars
  <2> QED BY <1>7, <2>1
<1> QED BY <1>1, <1>2, <1>3, <1>4, <1>5, <1>6, <1>8, <1>9 DEF Next, ThreadStep, WorkerStep

(* The counter of pending teardowns is exact: it counts the builds that     *)
(* hold a slot on a thread, in the queue or on a worker (registry.rs,       *)
(* SlotGuard).                                                              *)
THEOREM SlotsAreCounted == Spec => []SlotsCounted
<1>1. SlotInv => SlotsCounted
  BY DEF SlotInv
<1>2. Spec => []SlotInv
  BY RegistryInvariant, BuildsAreInOnePlace, InitSlotInv, StepSlotInv, PTL DEF Spec
<1> QED BY <1>1, <1>2, PTL

(* The type invariant; that the counter never goes below zero, and never    *)
(* wraps, is the accounting of slots (registry.rs, pending_teardowns).      *)
THEOREM RegistryTypeCorrect == Spec => []TypeOK
<1>1. RegistryInv /\ BuildInv /\ SlotInv => TypeOK
  <2> SUFFICES ASSUME RegistryInv, BuildInv, SlotInv PROVE TypeOK
    OBVIOUS
  <2>1. pending \in Nat
    BY PendingNat
  <2>2. thread \in [Threads -> [pc : ThreadPcs, key : Keys \cup {NoKey},
                                store : Builds \cup {NoBuild},
                                own : Builds \cup {NoBuild}, cur : Nat]]
    <3>1. thread \in [Threads -> ThreadRec] /\ \A t \in Threads : thread[t].cur \in Nat
      BY DEF RegistryInv, Types, SlotInv, ReadsNat
    <3> QED BY <3>1 DEF ThreadRec
  <2> QED BY <2>1, <2>2 DEF RegistryInv, Types, EntryRec, BuildInv, RestTypes, ActorStates, TypeOK
<1>2. Spec => []SlotInv
  BY RegistryInvariant, BuildsAreInOnePlace, InitSlotInv, StepSlotInv, PTL DEF Spec
<1> QED BY <1>1, <1>2, RegistryInvariant, BuildsAreInOnePlace, PTL

=============================================================================
