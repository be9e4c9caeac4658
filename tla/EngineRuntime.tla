--------------------------- MODULE EngineRuntime ---------------------------
(***************************************************************************)
(* The engine's tick loop (multiview-engine runtime.rs, run_inner): pace   *)
(* to the next tick's deadline, repeat the last good frame for every tick  *)
(* already missed, resync after too many repeats, then compose and publish *)
(* one fresh frame.  The wall clock advances by any amount between two     *)
(* steps of the loop, also while a compose is running, and a controller    *)
(* may raise the stop signal at any point.                                 *)
(*                                                                         *)
(* Composition itself and what the control hook does to the drive are      *)
(* abstracted: composing takes time and may fail (Error::Canvas), which    *)
(* ends the run for good, since the owner drops the runtime.               *)
(***************************************************************************)
EXTENDS OutputClock

CONSTANTS
  Cadence,               \* the output cadence
  Seed,                  \* the time source's reading at construction
  MAX_REPEATS_PER_TICK,  \* repeats before a resync
  Budgets,               \* the max_ticks a caller passes; NoBudget for run
  NoBudget,
  MaxNow,                \* bound: the last instant of a behaviour
  MaxCalls               \* bound: run / run_for calls

ASSUME RuntimeAssumption ==
  /\ ValidCadence(Cadence)
  /\ Seed \in Nat /\ MaxNow \in Nat /\ MaxCalls \in Nat
  /\ MAX_REPEATS_PER_TICK \in Nat
  /\ NoBudget \notin Nat /\ Budgets \subseteq Nat \cup {NoBudget}

VARIABLES
  now,              \* the TimeSource
  stop,             \* the StopSignal
  pc,               \* where run_inner is; "idle" when no call is running
  budget,           \* max_ticks of the current call
  emitted,          \* ticks emitted by the current call
  last_good,        \* whether a composite is held
  repeats,          \* repeats in the current catch-up
  next_index,       \* OutputClock::next_index
  tick,             \* index of the tick being composed
  sampled,          \* now as the catch-up loop last read it
  out,              \* the last tick published, -1 before the first
  burst,            \* frames repeated since the last fresh one
  ticks_emitted, frames_repeated,   \* the runtime's counters
  outcome,          \* the last call's RunOutcome or error
  calls,            \* calls made so far
  afterStop         \* frames published since the stop was raised

loopVars == <<pc, budget, emitted, last_good, repeats, next_index, tick, sampled,
              out, burst, ticks_emitted, frames_repeated, outcome, calls>>
vars == <<now, stop, pc, budget, emitted, last_good, repeats, next_index, tick,
          sampled, out, burst, ticks_emitted, frames_repeated, outcome, calls,
          afterStop>>

Deadline(i) == deadline_nanos(Cadence, i, Seed)
BudgetReached == budget # NoBudget /\ emitted >= budget

Init ==
  /\ now = Seed /\ stop = FALSE
  /\ pc = "idle" /\ budget = NoBudget /\ emitted = 0 /\ last_good = FALSE
  /\ repeats = 0 /\ next_index = 0 /\ tick = 0 /\ sampled = Seed
  /\ out = -1 /\ burst = 0 /\ ticks_emitted = 0 /\ frames_repeated = 0
  /\ outcome = "none" /\ calls = 0 /\ afterStop = 0

-----------------------------------------------------------------------------
\* The environment: the wall clock, and a controller.

Elapse ==
  /\ \E t \in (now + 1)..MaxNow : now' = t
  /\ UNCHANGED <<stop, loopVars, afterStop>>

RaiseStop ==
  /\ ~stop
  /\ stop' = TRUE
  /\ UNCHANGED <<now, loopVars, afterStop>>

\* run, run_for and their control variants: the clock keeps its counter from
\* call to call, the held composite is the call's own.
Call(b) ==
  /\ pc = "idle" /\ calls < MaxCalls /\ outcome # "Error"
  /\ budget' = b /\ emitted' = 0 /\ last_good' = FALSE
  /\ calls' = calls + 1
  /\ pc' = "top"
  /\ UNCHANGED <<now, stop, repeats, next_index, tick, sampled, out, burst,
                 ticks_emitted, frames_repeated, outcome, afterStop>>

-----------------------------------------------------------------------------
\* run_inner.

Return(why) ==
  /\ pc' = "idle" /\ outcome' = why
  /\ UNCHANGED <<now, stop, budget, emitted, last_good, repeats, next_index, tick,
                 sampled, out, burst, ticks_emitted, frames_repeated, calls,
                 afterStop>>

Goto(l) ==
  /\ pc' = l
  /\ UNCHANGED <<now, stop, budget, emitted, last_good, next_index, tick, out, burst,
                 ticks_emitted, frames_repeated, outcome, calls, afterStop>>

\* The head of the loop and the head of the catch-up loop: stop, then budget.
CheckStopAndBudget(here, there) ==
  /\ pc = here
  /\ \/ stop /\ Return("Stopped")
     \/ ~stop /\ BudgetReached /\ Return("Completed")
     \/ ~stop /\ ~BudgetReached /\ Goto(there) /\ UNCHANGED <<repeats, sampled>>

Top == CheckStopAndBudget("top", "wait")

\* Mutant: a pacer that does not look at the stop signal.
PaceIgnoringStop ==
  /\ pc = "wait"
  /\ now >= Deadline(next_index)
  /\ Goto("woken") /\ UNCHANGED <<repeats, sampled>>

\* Mutant: paces to the deadline of the tick after.
PaceOneLate ==
  /\ pc = "wait"
  /\ stop \/ now >= Deadline(next_index + 1)
  /\ Goto("woken") /\ UNCHANGED <<repeats, sampled>>

\* Pacer::wait_until returns at the deadline or once stop is raised.
WaitUntil ==
  /\ pc = "wait"
  /\ stop \/ now >= Deadline(next_index)
  /\ Goto("woken") /\ UNCHANGED <<repeats, sampled>>

\* The re-check after the wait; the first tick never repeats an absent frame.
Woken ==
  /\ pc = "woken"
  /\ \/ stop /\ Return("Stopped")
     \/ ~stop /\ last_good /\ Goto("hold") /\ repeats' = 0 /\ UNCHANGED sampled
     \/ ~stop /\ ~last_good /\ Goto("compose") /\ UNCHANGED <<repeats, sampled>>

\* Mutant: the catch-up loop only looks at its budget.
HoldIgnoringStop ==
  /\ pc = "hold"
  /\ \/ BudgetReached /\ Return("Completed")
     \/ ~BudgetReached /\ Goto("sample") /\ UNCHANGED <<repeats, sampled>>

Hold == CheckStopAndBudget("hold", "sample")

\* Mutant: resyncs to the wall clock without repeating first.
ResyncAtOnce ==
  /\ pc = "sample"
  /\ sampled' = now
  /\ UNCHANGED <<now, stop, budget, emitted, last_good, repeats, tick, out, burst,
                 ticks_emitted, frames_repeated, outcome, calls, afterStop>>
  /\ pc' = "compose"
  /\ next_index' = IF now < Deadline(next_index + 1) THEN next_index
                   ELSE cap_resync_floor(Cadence, Seed, now, next_index)

\* Mutant: gives up at the cap without resyncing.
CapWithoutResync ==
  /\ pc = "sample"
  /\ sampled' = now
  /\ UNCHANGED <<now, stop, budget, emitted, last_good, repeats, next_index, tick,
                 out, burst, ticks_emitted, frames_repeated, outcome, calls, afterStop>>
  /\ pc' = IF now < Deadline(next_index + 1) \/ repeats >= MAX_REPEATS_PER_TICK
           THEN "compose" ELSE "repeat"

\* Mutant: repeats for as long as ticks are due.
RepeatWithoutCap ==
  /\ pc = "sample"
  /\ sampled' = now
  /\ UNCHANGED <<now, stop, budget, emitted, last_good, repeats, next_index, tick,
                 out, burst, ticks_emitted, frames_repeated, outcome, calls, afterStop>>
  /\ pc' = IF now < Deadline(next_index + 1) THEN "compose" ELSE "repeat"

\* Read the clock: compose if the next tick is the freshest due; after
\* MAX_REPEATS_PER_TICK repeats skip_to the wall-clock floor; else repeat.
SampleClock ==
  /\ pc = "sample"
  /\ sampled' = now
  /\ UNCHANGED <<now, stop, budget, emitted, last_good, repeats, tick, out, burst,
                 ticks_emitted, frames_repeated, outcome, calls, afterStop>>
  /\ \/ /\ now < Deadline(next_index + 1)
        /\ pc' = "compose" /\ UNCHANGED next_index
     \/ /\ now >= Deadline(next_index + 1) /\ repeats >= MAX_REPEATS_PER_TICK
        /\ LET floor == cap_resync_floor(Cadence, Seed, now, next_index)
           IN  next_index' = IF floor > next_index THEN floor ELSE next_index
        /\ pc' = "compose"
     \/ /\ now >= Deadline(next_index + 1) /\ repeats < MAX_REPEATS_PER_TICK
        /\ pc' = "repeat" /\ UNCHANGED next_index

\* publish_state (and, sparsely, publish_event) of the frame for tick i.
Publish(i) ==
  /\ out' = i
  /\ emitted' = emitted + 1
  /\ ticks_emitted' = ticks_emitted + 1
  /\ afterStop' = IF stop THEN afterStop + 1 ELSE afterStop

\* Mutant: re-emits the held frame under its old tick.
RepeatOldTick ==
  /\ pc = "repeat"
  /\ Publish(next_index - 1)
  /\ next_index' = next_index + 1
  /\ frames_repeated' = frames_repeated + 1
  /\ repeats' = repeats + 1 /\ burst' = burst + 1
  /\ pc' = "hold"
  /\ UNCHANGED <<now, stop, budget, last_good, tick, sampled, outcome, calls>>

\* Re-emit the held frame under a tick of its own.
Repeat ==
  /\ pc = "repeat"
  /\ Publish(next_index)
  /\ next_index' = next_index + 1
  /\ frames_repeated' = frames_repeated + 1
  /\ repeats' = repeats + 1 /\ burst' = burst + 1
  /\ pc' = "hold"
  /\ UNCHANGED <<now, stop, budget, last_good, tick, sampled, outcome, calls>>

\* OutputClock::tick for the fresh frame, then the control hook and compose,
\* which take time of their own.
Compose ==
  /\ pc = "compose"
  /\ tick' = next_index /\ next_index' = next_index + 1
  /\ pc' = "composing"
  /\ UNCHANGED <<now, stop, budget, emitted, last_good, repeats, sampled, out, burst,
                 ticks_emitted, frames_repeated, outcome, calls, afterStop>>

\* compose(tick)? fails: the loop ends.
ComposeError ==
  /\ pc = "composing"
  /\ Return("Error")

PublishFresh ==
  /\ pc = "composing"
  /\ Publish(tick)
  /\ last_good' = TRUE /\ burst' = 0
  /\ pc' = "top"
  /\ UNCHANGED <<now, stop, budget, repeats, next_index, tick, sampled,
                 frames_repeated, outcome, calls>>

Loop ==
  \/ Top \/ WaitUntil \/ Woken \/ Hold \/ SampleClock
  \/ Repeat \/ Compose \/ ComposeError \/ PublishFresh

Next ==
  \/ Elapse \/ RaiseStop \/ \E b \in Budgets : Call(b)
  \/ Loop

Spec == Init /\ [][Next]_vars

\* The loop runs on a task of its own that awaits nothing but the pacer, so it
\* always takes its next step, and composing waits for nothing.  Nothing is
\* assumed of the wall clock or of the controller.
FairSpec == Spec /\ WF_vars(Loop)

-----------------------------------------------------------------------------
(* Properties *)

TypeOK ==
  /\ now \in Nat /\ now >= Seed /\ stop \in BOOLEAN
  /\ pc \in {"idle", "top", "wait", "woken", "hold", "sample", "repeat",
             "compose", "composing"}
  /\ budget \in Nat \cup {NoBudget} /\ emitted \in Nat /\ last_good \in BOOLEAN
  /\ repeats \in 0..MAX_REPEATS_PER_TICK /\ burst \in 0..MAX_REPEATS_PER_TICK
  /\ next_index \in Nat /\ tick \in Nat /\ sampled \in Nat
  /\ out \in Nat \cup {-1} /\ out < next_index
  /\ ticks_emitted \in Nat /\ frames_repeated \in Nat
  /\ frames_repeated <= ticks_emitted
  /\ outcome \in {"none", "Stopped", "Completed", "Error"}
  /\ calls \in Nat /\ afterStop \in Nat

\* The engine never emits a frame before its deadline (invariant #1), not even
\* after a resync (cap_resync_floor: "it never composes a tick ahead of its
\* deadline").
NeverEarly ==
  /\ out >= 0 => Deadline(out) <= now
  /\ pc \in {"compose", "repeat"} => Deadline(next_index) <= now

\* When a fresh frame is composed with a composite already held, its tick is
\* the freshest one due when the catch-up loop last read the clock: the output
\* tracks the wall clock instead of slipping behind it (ADR-T018).
FreshestDue ==
  pc = "compose" /\ last_good => IsWallFloor(Cadence, Seed, sampled, next_index)

\* The ticks follow the wall clock: none ahead of it, and no stale one composed
\* when a fresher is due (run_inner, cap_resync_floor).
TracksClock == NeverEarly /\ FreshestDue

\* Once stop is raised at most the frame in hand still leaves the engine
\* (StopSignal: "finish its current tick and return").
StopIsPrompt == afterStop <= 1

\* Two frames never carry the same or a decreasing pts (invariant #3), repeats,
\* resyncs and successive calls included.
PtsStrictlyIncreases ==
  [][ticks_emitted' # ticks_emitted /\ out >= 0 =>
       pts_at(Cadence, out') > pts_at(Cadence, out)]_vars

\* The loop implements the promise stated in OutputCadence.
Promise == INSTANCE OutputCadence
             WITH wall <- now, MaxBurst <- MAX_REPEATS_PER_TICK
KeepsCadence == Promise!CadenceSpec

\* A raised stop ends the call, also while the pacer waits for a deadline that
\* the clock never reaches (the frozen-clock hang ADR-T018 fixed).
StopEndsTheCall == stop ~> pc = "idle"

\* Every tick that comes due while a call runs is emitted or skipped in the
\* end: the loop catches up with the wall clock.
DueTicksPass ==
  \A i \in 0..MaxNow :
    Deadline(i) <= now /\ pc # "idle" ~> next_index > i \/ pc = "idle"

\* No call hangs and no due tick waits for ever (run_inner).
LoopProgresses == StopEndsTheCall /\ DueTicksPass

-----------------------------------------------------------------------------
(* The inductive invariant behind the safety properties *)

\* What has come due at each point of the loop.
DueInv ==
  /\ sampled <= now
  /\ pc = "woken" => stop \/ Deadline(next_index) <= now
  /\ pc \in {"hold", "sample", "repeat"} => last_good /\ Deadline(next_index) <= now
  /\ pc = "repeat" => Deadline(next_index + 1) <= now
  /\ pc = "composing" => /\ next_index = tick + 1 /\ out < tick
                         /\ Deadline(tick) <= now

\* A stop already followed by a frame is about to be noticed.
StopInv ==
  /\ ~stop => afterStop = 0
  /\ afterStop # 0 => pc \in {"top", "hold", "idle"}

\* The counter against the last published tick, and the catch-up's repeats
\* against the burst the outputs have seen.
BurstInv ==
  /\ outcome = "Error" => pc = "idle"
  /\ pc \notin {"compose", "composing"} /\ outcome # "Error" => next_index = out + 1
  /\ pc = "compose" => next_index = out + 1 \/ burst = MAX_REPEATS_PER_TICK
  /\ pc = "composing" => tick = out + 1 \/ burst = MAX_REPEATS_PER_TICK
  /\ last_good => out >= 0
  /\ last_good /\ pc \in {"top", "wait", "woken"} => burst = 0
  /\ pc \in {"hold", "sample", "repeat"} => burst = repeats
  /\ pc = "repeat" => repeats < MAX_REPEATS_PER_TICK

RuntimeInv ==
  /\ TypeOK /\ NeverEarly /\ FreshestDue /\ StopIsPrompt
  /\ DueInv /\ StopInv /\ BurstInv
=============================================================================
