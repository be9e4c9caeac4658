-------------------------- MODULE ConfigLifecycle --------------------------
(***************************************************************************)
(* The Boot, Loaded and Running configuration of one node                  *)
(* (multiview-control): the config-file watcher, the REST edits of a       *)
(* source, revert-to-start, promote-to-boot, the persister of active.toml  *)
(* and the restart that resumes from it, over one command bus and one      *)
(* config-mutation lock.                                                   *)
(*                                                                         *)
(* Handlers run on a multi-threaded runtime.  What a handler does between  *)
(* two awaits is one step, except where it touches what others touch       *)
(* meanwhile without the lock: each submit of an apply, and each use of    *)
(* the announced tokens by a poll, is a step of its own.  A fingerprint is *)
(* the text and the stamp of the write that put it there (inode, mtime).   *)
(* Not modelled: request cancellation, failed writes of active.toml, the   *)
(* idempotency key of the two routes (CommandPath has it).                 *)
(***************************************************************************)
EXTENDS ConfigDocs

CONSTANTS
  BootDoc,      \* the document the first run boots from
  EditorDocs,   \* the valid documents an operator writes
  Malformed,    \* a text that does not parse or validate
  Unreadable,   \* a file that cannot be read, or is not UTF-8
  None,
  Resume,       \* [control] start = "resume"
  BusCapacity,  \* depth of the command bus
  MissingPolls, \* MISSING_POLLS_BEFORE_REPORT, 5 in the code
  MaxEdits,     \* bound: changes an operator makes to the path
  MaxRequests,  \* bound: REST edits of a source, and reverts
  MaxPromotes,  \* bound: promotes
  MaxStops,     \* bound: crashes and shutdowns
  MaxTouches    \* bound: edits, requests and promotes together

ASSUME LifecycleAssumption ==
  /\ BootDoc \in ValidDoc /\ EditorDocs \subseteq ValidDoc
  /\ {Malformed, Unreadable, None} \cap Doc = {}
  /\ None \notin {"watch", "revert", "promote", "persist"}
  /\ Resume \in BOOLEAN
  /\ {BusCapacity, MissingPolls} \subseteq Nat \ {0}
  /\ {MaxEdits, MaxRequests, MaxPromotes, MaxStops, MaxTouches} \subseteq Nat

VARIABLES
  file,      \* the watched path: present, text, stamp
  spare,     \* the file an operator moved aside
  watcher,   \* the locals of watch_loop
  tokens,    \* announced server writes (ConfigWatchHandle)
  lock,      \* holder of the config-mutation lock, or None
  job,       \* the apply_document_diff under the lock
  promote,   \* the promote request that holds the lock
  store,     \* the source store: requested state
  bus,       \* commands queued for the engine
  engine,    \* the sources the engine runs
  adopted,   \* BootModel.last_adopted
  loaded,    \* BootModel.loaded
  persister, \* spawn_running_persist: "due", "idle", "write"; "final", "last", "gone"
  notified,  \* the permit of running_changed
  writes,    \* blocking writes of active.toml under way, with their tickets
  written,   \* ticket of the last content that landed
  active,    \* active.toml, or None
  phase,     \* "up", "stopping", "stopped" or "down"
  used       \* auxiliary: how much of each bound is spent, and whether, in this
             \* run, a promote landed while a poll held text it had read

diskVars    == <<file, spare>>
planeVars   == <<lock, job, promote, store, adopted>>
engineVars  == <<bus, engine>>
persistVars == <<persister, writes, written, active>>
vars == <<diskVars, watcher, tokens, planeVars, engineVars, loaded, persistVars,
          notified, phase, used>>

Texts   == ValidDoc \cup {Malformed, Unreadable}
Stamps  == 0..(2 * (MaxEdits + MaxPromotes))
Files   == [present : BOOLEAN, text : Texts, stamp : Stamps]
Fingerprints  == [text : Texts, stamp : Stamps]
Fingerprint(f) == [text |-> f.text, stamp |-> f.stamp]

NoJob     == [todo |-> {}, from |-> None, to |-> None, shed |-> FALSE]
NoPromote == [pc |-> "none", text |-> None]

\* watch_loop at its start: nothing applied, the boot text observed.
Watching(running, text) ==
  [pc |-> "poll", now |-> None, applied |-> None, rejected |-> None,
   candidate |-> None, missing |-> 0, reported |-> FALSE, invalid |-> FALSE,
   incomplete |-> FALSE, observed |-> text, baseline |-> running]

TypeOK ==
  /\ file \in Files /\ spare \in Files \cup {None}
  /\ watcher \in
       [pc : {"poll", "match", "drain", "resync", "apply", "applying"},
        now : Fingerprints \cup {None}, applied : Fingerprints \cup {None},
        rejected : Fingerprints \cup {None}, candidate : Fingerprints \cup {None},
        missing : 0..MissingPolls, reported : BOOLEAN, invalid : BOOLEAN,
        incomplete : BOOLEAN, observed : ValidDoc, baseline : ValidDoc]
  /\ tokens \in Seq(Token) /\ Len(tokens) <= MaxTokens
  /\ lock \in {None, "watch", "revert", "promote", "persist"}
  /\ job = NoJob \/ job \in [todo : SUBSET Ids, from : ValidDoc, to : ValidDoc, shed : BOOLEAN]
  /\ promote = NoPromote \/ promote \in [pc : {"write", "sync"}, text : ValidDoc]
  /\ {store, engine, adopted} \subseteq Doc /\ loaded \in ValidDoc
  /\ bus \in Seq(Commands) /\ Len(bus) <= BusCapacity
  /\ persister \in {"due", "idle", "write", "final", "last", "gone"} /\ notified \in BOOLEAN
  /\ \A w \in writes : w.doc \in ValidDoc /\ w.ticket \in Nat
  /\ written \in Nat /\ active \in ValidDoc \cup {None}
  /\ phase \in {"up", "stopping", "stopped", "down"}
  /\ used \in [edits : 0..MaxEdits, requests : 0..MaxRequests, promotes : 0..MaxPromotes,
               stops : 0..MaxStops, overtaken : BOOLEAN]

Init ==
  /\ file = [present |-> TRUE, text |-> BootDoc, stamp |-> 0]
  /\ spare = None
  /\ watcher = Watching(BootDoc, BootDoc)
  /\ tokens = <<>> /\ lock = None /\ job = NoJob /\ promote = NoPromote
  /\ store = BootDoc /\ engine = BootDoc /\ adopted = BootDoc /\ loaded = BootDoc
  /\ bus = <<>>
  /\ persister = "due" /\ notified = FALSE /\ writes = {} /\ written = 0 /\ active = None
  /\ phase = "up" /\ used = [edits |-> 0, requests |-> 0, promotes |-> 0, stops |-> 0,
                              overtaken |-> FALSE]

\* Routes and watcher outlive the engine: the server is stopped last.
Serving == phase # "down"
Spend(what, max) == used[what] < max /\ used' = [used EXCEPT ![what] = @ + 1]
Touch(what, max) ==
  used.edits + used.requests + used.promotes < MaxTouches /\ Spend(what, max)

-----------------------------------------------------------------------------
(* The command bus and the engine. *)

\* Mutant: the bus takes commands past its capacity.
Boundless == phase = "up"

\* CommandSender::try_submit: full sheds, and so does a stopped engine.
HasRoom == phase = "up" /\ Len(bus) < BusCapacity

\* Mutant: a command is adopted whether or not it landed.
AdoptShed(i, body) ==
  /\ bus' = IF HasRoom THEN Append(bus, Command(i, body)) ELSE bus
  /\ adopted' = Effect(adopted, Command(i, body))

\* One submit, and the adoption of a command that landed.
Submit(i, body) ==
  IF HasRoom
  THEN /\ bus' = Append(bus, Command(i, body))
       /\ adopted' = Effect(adopted, Command(i, body))
  ELSE UNCHANGED <<bus, adopted>>

\* The drain at a frame boundary.
EngineDrain ==
  /\ phase = "up" /\ bus # <<>>
  /\ engine' = Effect(engine, Head(bus)) /\ bus' = Tail(bus)
  /\ UNCHANGED <<diskVars, watcher, tokens, planeVars, loaded, persistVars, notified, phase, used>>

-----------------------------------------------------------------------------
(* The operator and the file. *)

Edit ==
  /\ Touch("edits", MaxEdits)
  /\ UNCHANGED <<watcher, tokens, planeVars, engineVars, loaded, persistVars, notified, phase>>

OperatorWrites(text) ==
  /\ Edit
  /\ file' = [present |-> TRUE, text |-> text, stamp |-> 2 * used'.edits]
  /\ UNCHANGED spare

\* mv config.toml aside, with another file in its place or none.
OperatorSwaps ==
  /\ Edit
  /\ IF spare = None THEN file' = [file EXCEPT !.present = FALSE]
     ELSE file' = spare
  /\ spare' = IF file.present THEN file ELSE spare

-----------------------------------------------------------------------------
(* The watcher: watch_loop, one action per way a poll can go.  The probe   *)
(* reads the file; what it then does to its locals alone is the same step. *)
(* The tokens it looks up later, and drains later still, under no lock     *)
(* that a promote holds: the file may be another one by then.              *)

\* A step of a poll sets the watcher's locals as W says.
Poll(W) ==
  /\ Serving
  /\ watcher' = W
  /\ UNCHANGED <<diskVars, planeVars, engineVars, loaded, persistVars, notified, phase, used>>

Probe(W) == watcher.pc = "poll" /\ Poll(W)

Seen == [watcher EXCEPT !.missing = 0, !.reported = FALSE, !.candidate = None]

PollMissing ==
  LET missing == IF watcher.missing < MissingPolls THEN watcher.missing + 1 ELSE MissingPolls
      report  == missing >= MissingPolls /\ ~watcher.reported
  IN  /\ ~file.present /\ UNCHANGED tokens
      /\ Probe([watcher EXCEPT !.candidate = None, !.missing = missing,
                               !.reported = @ \/ report, !.invalid = @ \/ report])

\* Back at the applied content: every latched condition has resolved.
PollApplied ==
  /\ file.present /\ watcher.applied = Fingerprint(file) /\ UNCHANGED tokens
  /\ Probe([Seen EXCEPT !.invalid = FALSE,
                        !.pc = IF watcher.incomplete THEN "resync" ELSE "poll"])

PollRejected ==
  /\ file.present /\ watcher.applied # Fingerprint(file) /\ watcher.rejected = Fingerprint(file)
  /\ UNCHANGED tokens /\ Probe(Seen)

Fresh == file.present /\ Fingerprint(file) \notin {watcher.applied, watcher.rejected}

\* The first sight of a change: act when the next poll sees it too.
PollCandidate ==
  /\ Fresh /\ watcher.candidate # Fingerprint(file) /\ UNCHANGED tokens
  /\ Probe([Seen EXCEPT !.candidate = Fingerprint(file)])

Settled == Fresh /\ watcher.candidate = Fingerprint(file)

PollUnreadable ==
  /\ Settled /\ file.text = Unreadable /\ UNCHANGED tokens
  /\ Probe([Seen EXCEPT !.rejected = Fingerprint(file), !.invalid = TRUE])

\* A settled text: from here on the watcher goes by what it has read.
PollSettled ==
  /\ Settled /\ file.text # Unreadable /\ UNCHANGED tokens
  /\ Probe([Seen EXCEPT !.pc = "match", !.now = Fingerprint(file)])

\* An announced write: adopted as the baseline, nothing is applied.  It
\* validates, as the promote that announced it saw to.
PollExpected ==
  /\ watcher.pc = "match" /\ Matches(tokens, watcher.now.text) # {}
  /\ tokens' = consume_expected_for(tokens, watcher.now.text)
  /\ Poll([watcher EXCEPT !.pc = "poll", !.now = None, !.baseline = watcher.now.text,
                          !.applied = watcher.now, !.rejected = None,
                          !.observed = watcher.now.text])

PollUnexpected ==
  /\ watcher.pc = "match" /\ Matches(tokens, watcher.now.text) = {} /\ UNCHANGED tokens
  /\ Poll([watcher EXCEPT !.pc = "drain"])

PollObserved ==
  /\ watcher.pc = "drain" /\ watcher.observed = watcher.now.text
  /\ tokens' = drain_landed(tokens)
  /\ Poll([watcher EXCEPT !.pc = IF watcher.incomplete THEN "resync" ELSE "poll",
                          !.now = None, !.applied = watcher.now, !.rejected = None,
                          !.invalid = FALSE])

PollChanged ==
  /\ watcher.pc = "drain" /\ watcher.observed # watcher.now.text
  /\ tokens' = drain_landed(tokens)
  /\ Poll([watcher EXCEPT !.pc = "apply"])

\* resync_all_stores to the baseline, under the lock.
WatchResync ==
  /\ Serving /\ watcher.pc = "resync" /\ lock = None
  /\ store' = watcher.baseline /\ notified' = TRUE
  /\ watcher' = [watcher EXCEPT !.incomplete = FALSE, !.pc = "poll"]
  /\ UNCHANGED <<diskVars, tokens, lock, job, promote, adopted, engineVars, loaded, persistVars,
                 phase, used>>

\* The outcome Settled: the text just read is the applied one.
Applied(w) ==
  [w EXCEPT !.pc = "poll", !.now = None, !.applied = w.now, !.rejected = None, !.observed = w.now.text,
            !.baseline = w.now.text, !.invalid = FALSE, !.incomplete = FALSE]

\* apply_change once the lock is taken: reject, adopt an empty diff, or apply.
WatchBegin ==
  /\ Serving /\ watcher.pc = "apply" /\ lock = None
  /\ \/ /\ watcher.now.text = Malformed
        /\ watcher' = [watcher EXCEPT !.pc = "poll", !.now = None,
                                      !.rejected = watcher.now, !.invalid = TRUE]
        /\ UNCHANGED <<lock, job, store, notified>>
     \/ /\ watcher.now.text = watcher.baseline
        /\ store' = IF watcher.incomplete THEN watcher.baseline ELSE store
        /\ watcher' = Applied(watcher) /\ notified' = TRUE
        /\ UNCHANGED <<lock, job>>
     \/ /\ watcher.now.text \notin {Malformed, watcher.baseline}
        /\ lock' = "watch" /\ watcher' = [watcher EXCEPT !.pc = "applying"]
        /\ job' = [todo |-> Changed(watcher.baseline, watcher.now.text),
                   from |-> watcher.baseline, to |-> watcher.now.text, shed |-> FALSE]
        /\ UNCHANGED <<store, notified>>
  /\ UNCHANGED <<diskVars, tokens, promote, adopted, engineVars, loaded, persistVars, phase, used>>

\* apply_source_changes, one change.
ApplyChange(i) ==
  LET needed == NeedsCommand(job.from[i], job.to[i])
  IN  /\ i \in job.todo
      /\ IF needed THEN Submit(i, job.to[i]) ELSE UNCHANGED <<bus, adopted>>
      /\ job' = [job EXCEPT !.todo = @ \ {i}, !.shed = @ \/ (needed /\ ~HasRoom)]
      /\ UNCHANGED <<diskVars, watcher, tokens, lock, promote, store, engine, loaded,
                     persistVars, notified, phase, used>>

\* resync_store writes an audit entry for every source it creates, updates or deletes.
Audited(doc) == \E i \in Ids : store[i] # Absent \/ doc[i] # Absent

\* Mutant: a shed apply is latched like a rejected file.
ShedIsRejected ==
  /\ lock = "watch" /\ job.todo = {}
  /\ store' = job.to
  /\ notified' = (notified \/ ~job.shed \/ Audited(job.to))
  /\ watcher' = IF job.shed
                THEN [watcher EXCEPT !.pc = "poll", !.now = None, !.rejected = watcher.now]
                ELSE Applied(watcher)
  /\ lock' = None /\ job' = NoJob
  /\ UNCHANGED <<diskVars, tokens, promote, adopted, engineVars, loaded, persistVars, phase, used>>

\* The end of apply_change: settled, or left for a later poll.
WatchEnd ==
  /\ lock = "watch" /\ job.todo = {}
  /\ store' = job.to
  /\ notified' = (notified \/ ~job.shed \/ Audited(job.to))
  /\ watcher' = IF job.shed
                THEN [watcher EXCEPT !.pc = "poll", !.now = None, !.invalid = FALSE,
                                     !.incomplete = TRUE]
                ELSE Applied(watcher)
  /\ lock' = None /\ job' = NoJob
  /\ UNCHANGED <<diskVars, tokens, promote, adopted, engineVars, loaded, persistVars, phase, used>>

-----------------------------------------------------------------------------
(* The REST routes. *)

Request(kind, max) == Serving /\ lock = None /\ Touch(kind, max)

\* Mutant: the edit never signals running_changed.
SilentPut(i, body) ==
  /\ Request("requests", MaxRequests)
  /\ store' = [store EXCEPT ![i] = body] /\ UNCHANGED notified
  /\ IF body \in Synthetic \/ store[i] \in Synthetic
     THEN Submit(i, body) ELSE UNCHANGED <<bus, adopted>>
  /\ UNCHANGED <<diskVars, watcher, tokens, lock, job, promote, engine, loaded, persistVars, phase>>

\* create_source, update_source and live_apply_upsert.
RestPut(i, body) ==
  /\ Request("requests", MaxRequests)
  /\ store' = [store EXCEPT ![i] = body] /\ notified' = TRUE
  /\ IF body \in Synthetic \/ store[i] \in Synthetic
     THEN Submit(i, body) ELSE UNCHANGED <<bus, adopted>>
  /\ UNCHANGED <<diskVars, watcher, tokens, lock, job, promote, engine, loaded, persistVars, phase>>

RestDelete(i) ==
  /\ Request("requests", MaxRequests) /\ store[i] # Absent
  /\ store' = [store EXCEPT ![i] = Absent] /\ notified' = TRUE
  /\ Submit(i, Absent)
  /\ UNCHANGED <<diskVars, watcher, tokens, lock, job, promote, engine, loaded, persistVars, phase>>

\* revert_to_start: Running is composed from the store, and refused if it
\* does not validate.
RevertBegin ==
  /\ Request("requests", MaxRequests) /\ store \in ValidDoc /\ store # loaded
  /\ lock' = "revert"
  /\ job' = [todo |-> Changed(store, loaded), from |-> store, to |-> loaded, shed |-> FALSE]
  /\ UNCHANGED <<diskVars, watcher, tokens, promote, store, adopted, engineVars, loaded,
                 persistVars, notified, phase>>

\* A shed revert rolls the store back to what it was.
RevertEnd ==
  /\ lock = "revert" /\ job.todo = {}
  /\ store' = IF job.shed THEN job.from ELSE job.to
  /\ notified' = TRUE /\ lock' = None /\ job' = NoJob
  /\ UNCHANGED <<diskVars, watcher, tokens, promote, adopted, engineVars, loaded, persistVars,
                 phase, used>>

\* promote_to_boot: compose, validate and announce.
PromoteBegin ==
  /\ Request("promotes", MaxPromotes) /\ store \in ValidDoc
  /\ lock' = "promote" /\ promote' = [pc |-> "write", text |-> store]
  /\ tokens' = expect_write(tokens, store)
  /\ UNCHANGED <<diskVars, watcher, job, store, adopted, engineVars, loaded, persistVars,
                 notified, phase>>

\* write_atomic: the rename shows the file before the directory is synced.
PromoteWrites ==
  /\ promote.pc = "write"
  /\ file' = [present |-> TRUE, text |-> promote.text, stamp |-> 2 * used.promotes - 1]
  /\ promote' = [promote EXCEPT !.pc = "sync"]
  /\ UNCHANGED <<spare, watcher, tokens, lock, job, store, adopted, engineVars, loaded,
                 persistVars, notified, phase, used>>

PromoteFails ==
  /\ promote.pc = "write"
  /\ tokens' = release_write(tokens, promote.text)
  /\ promote' = NoPromote /\ lock' = None
  /\ UNCHANGED <<diskVars, watcher, job, store, adopted, engineVars, loaded, persistVars,
                 notified, phase, used>>

PromoteEnd ==
  /\ promote.pc = "sync"
  /\ tokens' = mark_write_landed(tokens, promote.text)
  /\ promote' = NoPromote /\ lock' = None /\ notified' = TRUE
  /\ used' = [used EXCEPT !.overtaken = @ \/ watcher.pc \in {"match", "drain"}]
  /\ UNCHANGED <<diskVars, watcher, job, store, adopted, engineVars, loaded, persistVars, phase>>

-----------------------------------------------------------------------------
(* The persister of active.toml. *)

PersistWakes ==
  /\ phase = "up" /\ persister = "idle" /\ notified
  /\ persister' = "due" /\ notified' = FALSE
  /\ UNCHANGED <<diskVars, watcher, tokens, planeVars, engineVars, loaded, writes, written,
                 active, phase, used>>

\* next_write_ticket.  Only the order of the tickets still under way matters:
\* the count starts again when none is.
Ticket == 1 + Max({written} \cup {w.ticket : w \in writes})

\* persist_running_now takes the lock.
Persist == Serving /\ persister \in {"due", "final"} /\ lock = None

\* Up to the blocking write, which it awaits under the lock.
PersistComposes ==
  /\ Persist /\ adopted \in ValidDoc
  /\ lock' = "persist"
  /\ writes' = writes \cup {[doc |-> adopted, ticket |-> Ticket]}
  /\ persister' = IF persister = "due" THEN "write" ELSE "last"
  /\ UNCHANGED <<diskVars, watcher, tokens, job, promote, store, adopted, engineVars, loaded,
                 written, active, notified, phase, used>>

\* An adopted document that does not validate is not written, and nothing
\* tries again until the next change, or at all if this was the final persist.
PersistRefused ==
  /\ Persist /\ adopted \notin ValidDoc
  /\ persister' = IF persister = "due" THEN "idle" ELSE "gone"
  /\ phase' = IF persister = "final" THEN "stopped" ELSE phase
  /\ UNCHANGED <<diskVars, watcher, tokens, planeVars, engineVars, loaded, writes, written,
                 active, notified, used>>

\* Whether a write of this ticket is the one the persister awaits.
Awaited(w) == lock = "persist" /\ \A v \in writes : v.ticket <= w.ticket

\* write_active_serialized: a write older than what landed is skipped.
Superseded(ticket) == written > ticket

WriteLands(w) ==
  LET left == writes \ {w}
  IN  /\ phase # "down" /\ w \in writes
      /\ writes' = left
      /\ IF Superseded(w.ticket) THEN UNCHANGED active ELSE active' = w.doc
      /\ written' = IF left = {} THEN 0 ELSE IF Superseded(w.ticket) THEN written ELSE w.ticket
      /\ IF Awaited(w)
         THEN /\ lock' = None
              /\ persister' = IF persister = "write" THEN "idle" ELSE "gone"
              /\ phase' = IF persister = "last" THEN "stopped" ELSE phase
         ELSE UNCHANGED <<lock, persister, phase>>
      /\ UNCHANGED <<diskVars, watcher, tokens, job, promote, store, adopted, engineVars, loaded,
                     notified, used>>

-----------------------------------------------------------------------------
(* Shutdown, crash and restart. *)

\* Mutant: the persister is aborted and nothing is written after it.
StopAborts ==
  /\ phase = "up" /\ Spend("stops", MaxStops)
  /\ phase' = "stopped" /\ persister' = "gone"
  /\ lock' = IF lock = "persist" THEN None ELSE lock
  /\ UNCHANGED <<diskVars, watcher, tokens, job, promote, store, adopted, engineVars, loaded,
                 writes, written, active, notified>>

\* The engine has returned: finish_running_persist aborts the task, whose
\* guard drops, while a write it began goes on.
Stop ==
  /\ phase = "up" /\ Spend("stops", MaxStops)
  /\ phase' = "stopping" /\ persister' = "final"
  /\ lock' = IF lock = "persist" THEN None ELSE lock
  /\ UNCHANGED <<diskVars, watcher, tokens, job, promote, store, adopted, engineVars, loaded,
                 writes, written, active, notified>>

\* What a run starts from; a crash leaves nothing of it but the two files.
Seed(running, text) ==
  /\ watcher' = Watching(running, text)
  /\ tokens' = <<>> /\ lock' = None /\ job' = NoJob /\ promote' = NoPromote
  /\ store' = running /\ engine' = running /\ adopted' = running /\ bus' = <<>>
  /\ loaded' = text
  /\ persister' = "due" /\ notified' = FALSE /\ writes' = {} /\ written' = 0
  /\ UNCHANGED <<diskVars, active>>

Crash ==
  /\ Serving /\ Spend("stops", MaxStops)
  /\ phase' = "down"
  /\ Seed(BootDoc, BootDoc)

\* resolve_start_config and the seeding of everything that runs from it.
Restart ==
  LET running == IF Resume /\ active # None THEN active ELSE file.text
  IN  /\ phase \in {"stopped", "down"} /\ file.present /\ file.text \in ValidDoc
      /\ phase' = "up" /\ used' = [used EXCEPT !.overtaken = FALSE]
      /\ Seed(running, file.text)

-----------------------------------------------------------------------------
Watch ==
  \/ PollMissing \/ PollApplied \/ PollRejected \/ PollCandidate \/ PollUnreadable
  \/ PollSettled \/ PollExpected \/ PollUnexpected \/ PollObserved \/ PollChanged

Next ==
  \/ \E text \in EditorDocs \cup {Malformed, Unreadable} : OperatorWrites(text)
  \/ OperatorSwaps
  \/ Watch \/ WatchResync \/ WatchBegin \/ WatchEnd
  \/ \E i \in Ids : ApplyChange(i) \/ RestDelete(i)
  \/ \E i \in Ids, body \in Synthetic \cup Decoded : RestPut(i, body)
  \/ RevertBegin \/ RevertEnd
  \/ PromoteBegin \/ PromoteWrites \/ PromoteFails \/ PromoteEnd
  \/ PersistWakes \/ PersistComposes \/ PersistRefused \/ \E w \in writes : WriteLands(w)
  \/ EngineDrain
  \/ Stop \/ Crash \/ Restart

Spec == Init /\ [][Next]_vars

\* Whoever holds the lock for an apply or a promote goes on; the lock is a
\* FIFO mutex, so a waiter gets it.
Holder ==
  \/ \E i \in Ids : ApplyChange(i)
  \/ WatchEnd \/ RevertEnd \/ PromoteWrites \/ PromoteFails \/ PromoteEnd

FairSpec ==
  /\ Spec
  /\ WF_vars(Watch) /\ WF_vars(EngineDrain) /\ WF_vars(Holder)
  /\ SF_vars(WatchResync \/ WatchBegin) /\ SF_vars(PersistComposes \/ PersistRefused)
  /\ WF_vars(PersistWakes) /\ WF_vars(\E w \in writes : WriteLands(w))

-----------------------------------------------------------------------------
(* Properties. *)

LastFor(k) == \A l \in DOMAIN bus : bus[l].id = bus[k].id => l <= k

\* The adopted snapshot, which active.toml is rendered from, is what the
\* engine runs once it has drained the bus: a command that was shed is not in
\* it, and one that landed is (boot_model.rs, last_adopted).
AdoptedIsRunning ==
  /\ \A k \in DOMAIN bus : LastFor(k) => adopted[bus[k].id] = bus[k].body
  /\ \A i \in Ids : (\A k \in DOMAIN bus : bus[k].id # i) => adopted[i] = engine[i]

\* After a shutdown active.toml holds the last adopted state, a change younger
\* than the debounce included, also when a write of the aborted persister
\* lands after the final one; unless that state does not validate
\* (ActiveReflectsRunning), when the final persist was refused.
CleanStopKeepsRunning == phase = "stopped" /\ adopted \in ValidDoc => active = adopted

\* What persist_running_now says of the adopted snapshot it writes: "`active.toml`
\* must reflect what the engine actually runs", and that document "must always
\* be valid".
ActiveReflectsRunning == phase = "stopped" => active = adopted

\* While no operator touches the path, a document the server itself wrote to
\* it is not applied as a change, however promotes, failed promotes, REST edits
\* and polls interleave; unless a promote landed between the read of a poll and
\* its use of the tokens (OwnWriteIsAdopted).
SelfWriteNeverReloads ==
  used.edits = 0 /\ ~used.overtaken => watcher.pc \notin {"apply", "applying"}

\* What promote_to_boot says of its announcement: "the watcher adopts the next
\* settled change as its baseline instead of re-applying it".
OwnWriteIsAdopted == used.edits = 0 => watcher.pc \notin {"apply", "applying"}

\* An invalid or missing file is answered with a warning, and one the watcher
\* has taken with none.
Handled ==
  IF ~file.present THEN watcher.reported /\ watcher.invalid
  ELSE IF file.text \in ValidDoc
       THEN /\ watcher.applied = Fingerprint(file) /\ watcher.observed = file.text
            /\ ~watcher.invalid /\ ~watcher.incomplete
       ELSE watcher.rejected = Fingerprint(file)

\* The engine drains the bus at every frame, the watcher polls once a second.
EngineKeepsUp == <>[][watcher.pc = "drain" /\ watcher'.pc = "apply" => bus = <<>>]_vars
StaysUp == <>[](phase = "up")

\* Whatever was written to the file, and however often an apply was shed, the
\* watcher comes to rest on the text that is there.
FileIsHandled == StaysUp /\ EngineKeepsUp => <>[]Handled

\* Every live change reaches active.toml, once the adopted document validates:
\* no change falls between the permit a persist consumes and the snapshot it
\* composes, and one that makes a refused document valid again is not missed.
RunningIsPersisted == StaysUp => <>[](adopted \in ValidDoc => active = adopted)

\* Once the watcher is at rest on a text, with no warning raised, the engine
\* runs the live sources of that text.
SettledIsRunning ==
  (/\ phase = "up" /\ watcher.pc = "poll" /\ file.present /\ file.text \in ValidDoc
   /\ watcher.applied = Fingerprint(file) /\ ~watcher.incomplete /\ bus = <<>> /\ lock = None)
  => \A i \in Ids : file.text[i] \notin Decoded => engine[i] = file.text[i]
=============================================================================
