---------------------------- MODULE GuardedSource ----------------------------
(***************************************************************************)
(* The guarded passthrough (multiview-output, GuardedPacketSource): copied *)
(* input packets while the packet watchdogs (multiview-framestore,         *)
(* PacketLiveness) see the input alive, a looped slate when they do not,   *)
(* and copy again from a strict IDR on; all of it re-stamped so that the   *)
(* muxer sees one rising timeline per stream.                              *)
(*                                                                         *)
(* Two threads: the egress, whose next_packet stores the decision flag and *)
(* later loads it, and a clock thread that computes the same verdict and   *)
(* stores it when it gets to it.  The records of the watchdogs are made by *)
(* the egress alone; the clock thread reads them in the reverse of the     *)
(* order they are stored, and is taken to read them at once.               *)
(***************************************************************************)
EXTENDS Integers, SequencesExt

CONSTANTS
  Slate,        \* raw DTS of the baked AUs, per stream
  Watched,      \* the streams that have a watchdog
  Splice,       \* the SPLICE point of the ladder
  PtsStall,     \* the stalled-PTS deadline
  Steps,        \* how far an input DTS is from the one before
  Gaps,         \* PTS - DTS of input packets
  None,
  MaxTime,      \* bound: instants of the clock
  MaxCalls,     \* bound: calls of next_packet
  MaxSamples,   \* bound: verdicts of the clock thread
  MaxRestarts   \* bound: times the input's stamps start again

Streams == {"video", "audio"}

ASSUME SlateAssumption ==
  /\ Slate \in [Streams -> Seq(Int)] /\ Slate["video"] # <<>>
  /\ \A s \in Streams : \A i, j \in DOMAIN Slate[s] : i < j => Slate[s][i] < Slate[s][j]
ASSUME WatchAssumption ==
  /\ "video" \in Watched /\ Watched \subseteq Streams
  /\ Splice \in Nat \ {0} /\ PtsStall \in Nat \ {0}
ASSUME InputAssumption == Steps \subseteq Nat /\ Gaps \subseteq Nat /\ None \notin Int
ASSUME BoundAssumption == {MaxTime, MaxCalls, MaxSamples, MaxRestarts} \subseteq Nat

VARIABLES
  clock,     \* the shared monotonic clock
  input,     \* DTS of the last packet the input gave, per stream
  watch,     \* the watchdogs: arrival, advance, highest DTS, hard death
  decision,  \* the decision flag: "copy" or "splice"
  sampled,   \* the verdict the clock thread is about to store
  call,      \* next_packet: where it is, and the instant it sampled
  emitting,  \* "live" or "slate"
  started,   \* whether a packet was ever recorded
  acc,       \* RestampAccumulator per stream
  cursor,    \* slate_pos and slate_rebased per stream
  reentry,   \* live_reentry_pending of the audio stream
  turn,      \* emit_audio_next
  out,       \* the last packet emitted per stream, and the run it belongs to
  outages,   \* slate entries so far: which run a packet belongs to
  intact,    \* no video packet was withheld since the last one emitted live
  overdue,   \* packets copied in spite of a loss none of them cured
  spent      \* how much of each bound is spent

seamVars  == <<emitting, acc, cursor, reentry, turn, out, outages>>
ghostVars == <<intact, overdue>>
vars == <<clock, input, watch, decision, sampled, call, started, seamVars, ghostVars, spent>>

Run  == [from : {"live", "slate"}, outage : Nat]
Emitted == [raw : Int, gap : Nat, dts : Int, pts : Int, run : Run, nth : Nat]

ASSUME NoneAssumption == None \notin Emitted /\ None \notin {"copy", "splice"}

TypeOK ==
  /\ clock \in 0..MaxTime /\ input \in [Streams -> Int]
  /\ watch \in [Streams -> [packet : (0..MaxTime) \cup {None}, advancing : (0..MaxTime) \cup {None},
                            max : Int \cup {None}, dead : BOOLEAN]]
  /\ decision \in {"copy", "splice"} /\ sampled \in {"copy", "splice", None}
  /\ call \in [pc : {"idle", "serve"}, now : 0..MaxTime]
  /\ emitting \in {"live", "slate"} /\ started \in BOOLEAN
  /\ acc \in [Streams -> [last : Int \cup {None}, offset : Int]]
  /\ cursor \in [Streams -> [pos : Nat, rebased : BOOLEAN]]
  /\ \A s \in Streams : cursor[s].pos = 0 \/ cursor[s].pos < Len(Slate[s])
  /\ reentry \in BOOLEAN /\ turn \in BOOLEAN
  /\ out \in [Streams -> Emitted \cup {None}]
  /\ outages \in Nat /\ intact \in BOOLEAN /\ overdue \in Nat
  /\ spent \in [calls : 0..MaxCalls, samples : 0..MaxSamples, restarts : 0..MaxRestarts]

Init ==
  /\ clock = 0 /\ input = [s \in Streams |-> 0]
  /\ watch = [s \in Streams |-> [packet |-> None, advancing |-> None, max |-> None, dead |-> FALSE]]
  /\ decision = "copy" /\ sampled = None
  /\ call = [pc |-> "idle", now |-> 0]
  /\ emitting = "live" /\ started = FALSE
  /\ acc = [s \in Streams |-> [last |-> None, offset |-> 0]]
  /\ cursor = [s \in Streams |-> [pos |-> 0, rebased |-> FALSE]]
  /\ reentry = FALSE /\ turn = FALSE
  /\ out = [s \in Streams |-> None] /\ outages = 0
  /\ intact = TRUE /\ overdue = 0
  /\ spent = [calls |-> 0, samples |-> 0, restarts |-> 0]

-----------------------------------------------------------------------------
(* PacketLiveness. *)

Elapsed(at, now) == IF now > at THEN now - at ELSE 0
Silent(w, now)   == w.packet # None /\ Elapsed(w.packet, now) >= Splice
Stalled(w, now)  == w.advancing # None /\ Elapsed(w.advancing, now) >= PtsStall

should_splice(w, now) == w.dead \/ w.packet = None \/ Silent(w, now) \/ Stalled(w, now)

record_packet(w, now, dts) ==
  LET advances == w.max = None \/ dts > w.max
  IN  [w EXCEPT !.packet = now,
                !.advancing = IF advances THEN now ELSE w.advancing,
                !.max = IF advances THEN dts ELSE w.max]

Verdict(w, now) ==
  IF \E s \in Watched : should_splice(w[s], now) THEN "splice" ELSE "copy"

-----------------------------------------------------------------------------
(* RestampAccumulator. *)

AtLeast(x, y) == IF x > y THEN x ELSE y

rebase(a, raw) == [a EXCEPT !.offset = (IF a.last = None THEN 0 ELSE a.last + 1) - raw]

restamp(a, raw) ==
  [a EXCEPT !.last = IF @ = None THEN raw + a.offset ELSE AtLeast(raw + a.offset, @ + 1)]

\* restamp_emit: the accumulator is a already rebased if it has to be.
Emit(s, a, raw, gap, from, outage) ==
  LET b == restamp(a, raw)
  IN  /\ acc' = [acc EXCEPT ![s] = b]
      /\ out' = [out EXCEPT ![s] =
           [raw |-> raw, gap |-> gap, dts |-> b.last, pts |-> AtLeast(raw + gap + a.offset, b.last),
            run |-> [from |-> from, outage |-> outage], nth |-> spent.calls]]

-----------------------------------------------------------------------------
(* The slate. *)

\* Mutant: the cursor does not wrap.
NeverWraps(s, c, outage) ==
  LET head == c.pos = 0 /\ ~c.rebased
      a    == IF head THEN rebase(acc[s], Slate[s][1]) ELSE acc[s]
  IN  /\ Emit(s, a, Slate[s][c.pos + 1], 0, "slate", outage)
      /\ cursor' = [cursor EXCEPT ![s] = [pos |-> c.pos + 1, rebased |-> TRUE]]

\* next_slate_stream from the cursor c: rebase at the head of a loop, advance,
\* wrap.
SlateAU(s, c, outage) ==
  LET head == c.pos = 0 /\ ~c.rebased
      a    == IF head THEN rebase(acc[s], Slate[s][1]) ELSE acc[s]
      next == c.pos + 1
  IN  /\ Emit(s, a, Slate[s][c.pos + 1], 0, "slate", outage)
      /\ cursor' = [cursor EXCEPT ![s] = IF next < Len(Slate[s])
                                         THEN [pos |-> next, rebased |-> TRUE]
                                         ELSE [pos |-> 0, rebased |-> FALSE]]

\* next_slate, within an outage: audio in turn when there is any.
NextSlate ==
  /\ turn' = (~turn /\ Slate["audio"] # <<>>)
  /\ LET s == IF turn /\ Slate["audio"] # <<>> THEN "audio" ELSE "video"
     IN  SlateAU(s, cursor[s], outages)
  /\ UNCHANGED <<emitting, reentry, outages>>

\* enter_slate from live: both cursors start again, and the first AU is video.
EnterSlate ==
  /\ emitting' = "slate" /\ outages' = outages + 1
  /\ LET fresh == [pos |-> 0, rebased |-> FALSE]
         a     == rebase(acc["video"], Slate["video"][1])
     IN  /\ Emit("video", a, Slate["video"][1], 0, "slate", outages + 1)
         /\ cursor' = [s \in Streams |->
              IF s = "video" /\ Len(Slate["video"]) > 1
              THEN [pos |-> 1, rebased |-> TRUE] ELSE fresh]
  /\ turn' = (Slate["audio"] # <<>>)
  /\ UNCHANGED reentry

-----------------------------------------------------------------------------
(* The input. *)

\* A strict IDR, a keyframe whose leading pictures are lost (CRA, recovery
\* point), or any other AU.
Kinds  == {"idr", "key", "other"}
Packet == [stream : Streams, dts : Int, gap : Nat, au : Kinds]

\* Mutant: the demuxer's keyframe flag is believed.
IsKey(p) == p.stream = "video" /\ p.au # "other"

IsIdr(p) == p.stream = "video" /\ p.au = "idr"

\* The packets the input may give next; its stamps may start again at 0.
Arrives(p) ==
  /\ p.stream = "audio" => p.au = "other" /\ p.gap = 0
  /\ \/ p.dts \in {input[p.stream] + d : d \in Steps} /\ UNCHANGED spent
     \/ /\ p.dts = 0 /\ spent.restarts < MaxRestarts
        /\ spent' = [spent EXCEPT !.restarts = @ + 1]
  /\ input' = [input EXCEPT ![p.stream] = p.dts]

\* record_live: a stream without a watchdog is not recorded.
Recorded(p) ==
  IF p.stream \in Watched
  THEN [watch EXCEPT ![p.stream] = record_packet(@, call.now, p.dts)] ELSE watch

-----------------------------------------------------------------------------
(* next_packet. *)

\* Mutant: the call leaves the flag to the clock thread.
NotSelfDriven ==
  /\ call.pc = "idle" /\ spent.calls < MaxCalls
  /\ spent' = [spent EXCEPT !.calls = @ + 1]
  /\ call' = [pc |-> "serve", now |-> clock]
  /\ UNCHANGED <<clock, input, watch, decision, sampled, started, seamVars, ghostVars>>

\* evaluate, from the clock the call samples.
Evaluate ==
  /\ call.pc = "idle" /\ spent.calls < MaxCalls
  /\ spent' = [spent EXCEPT !.calls = @ + 1]
  /\ call' = [pc |-> "serve", now |-> clock]
  /\ decision' = Verdict(watch, clock)
  /\ UNCHANGED <<clock, input, watch, sampled, started, seamVars, ghostVars>>

\* The rest of the call, from its load of the flag on.
Serve(mode) ==
  /\ call.pc = "serve" /\ emitting = mode
  /\ call' = [call EXCEPT !.pc = "idle"]
  /\ UNCHANGED <<clock, decision, sampled>>

Obeys == started /\ decision = "splice"

SpliceNow ==
  /\ Serve("live") /\ Obeys /\ EnterSlate
  /\ overdue' = 0
  /\ UNCHANGED <<input, watch, started, intact, spent>>

\* The input is drained: every watchdog is dead from now on.
HardDeath ==
  /\ Serve("live") /\ ~Obeys /\ EnterSlate
  /\ watch' = [s \in Streams |-> IF s \in Watched THEN [watch[s] EXCEPT !.dead = TRUE] ELSE watch[s]]
  /\ overdue' = 0
  /\ UNCHANGED <<input, started, intact, spent>>

\* emit_live; audio is rebased once after a recovery.
Copy(p) ==
  /\ Serve("live") /\ ~Obeys /\ Arrives(p)
  /\ watch' = Recorded(p) /\ started' = TRUE
  /\ LET s == p.stream
         a == IF s = "audio" /\ reentry THEN rebase(acc[s], p.dts) ELSE acc[s]
     IN  Emit(s, a, p.dts, p.gap, "live", outages)
  /\ reentry' = (reentry /\ p.stream # "audio")
  /\ overdue' = IF started /\ Verdict(watch, call.now) = "splice"
                           /\ Verdict(Recorded(p), call.now) = "splice"
                THEN overdue + 1 ELSE 0
  /\ UNCHANGED <<emitting, cursor, turn, outages, intact>>

\* Mutant: audio comes back with the offset of the slate.
RecoverVideoOnly(p) ==
  /\ Serve("slate") /\ Arrives(p) /\ IsIdr(p)
  /\ watch' = Recorded(p) /\ started' = TRUE
  /\ emitting' = "live" /\ UNCHANGED reentry
  /\ Emit("video", rebase(acc["video"], p.dts), p.dts, p.gap, "live", outages)
  /\ intact' = (p.au = "idr")
  /\ UNCHANGED <<cursor, turn, outages, overdue>>

\* recover_to_live, at a strict IDR only.
Recover(p) ==
  /\ Serve("slate") /\ Arrives(p) /\ IsIdr(p)
  /\ watch' = Recorded(p) /\ started' = TRUE
  /\ emitting' = "live" /\ reentry' = TRUE
  /\ Emit("video", rebase(acc["video"], p.dts), p.dts, p.gap, "live", outages)
  /\ intact' = (p.au = "idr")
  /\ UNCHANGED <<cursor, turn, outages, overdue>>

\* Anything else is recorded and withheld.
Withhold(p) ==
  /\ Serve("slate") /\ Arrives(p) /\ ~IsIdr(p)
  /\ watch' = Recorded(p) /\ started' = TRUE
  /\ NextSlate
  /\ intact' = (intact /\ p.stream # "video")
  /\ UNCHANGED overdue

NoInput ==
  /\ Serve("slate") /\ NextSlate
  /\ UNCHANGED <<input, watch, started, ghostVars, spent>>

\* A read error ends the call with an error and changes nothing else.
ReadError ==
  /\ \/ Serve("slate")
     \/ Serve("live") /\ ~Obeys
  /\ UNCHANGED <<input, watch, started, seamVars, ghostVars, spent>>

-----------------------------------------------------------------------------
(* The clock, and the thread that drives the decision beside the egress. *)

Tick ==
  /\ clock < MaxTime /\ clock' = clock + 1
  /\ UNCHANGED <<input, watch, decision, sampled, call, started, seamVars, ghostVars, spent>>

Sample ==
  /\ sampled = None /\ spent.samples < MaxSamples
  /\ spent' = [spent EXCEPT !.samples = @ + 1]
  /\ sampled' = Verdict(watch, clock)
  /\ UNCHANGED <<clock, input, watch, decision, call, started, seamVars, ghostVars>>

Store ==
  /\ sampled # None
  /\ decision' = sampled /\ sampled' = None
  /\ UNCHANGED <<clock, input, watch, call, started, seamVars, ghostVars, spent>>

-----------------------------------------------------------------------------
\* The packets of Packet that can arrive.
Offered ==
  [stream : Streams, au : Kinds, gap : Gaps,
   dts : {0} \cup UNION {{input[s] + d : d \in Steps} : s \in Streams}]

Next ==
  \/ Evaluate \/ SpliceNow \/ HardDeath \/ NoInput \/ ReadError
  \/ \E p \in Offered : Copy(p) \/ Recover(p) \/ Withhold(p)
  \/ Tick \/ Sample \/ Store

Spec == Init /\ [][Next]_vars

-----------------------------------------------------------------------------
(* Properties. *)

\* A packet carries its own distance from the one before: neither of the two
\* was moved by the clamp.
Unclamped(o, offset) == o.dts = o.raw + offset

\* Two packets of one stream in a row: the timeline rises; inside a run, live
\* or one pass over the slate, raw distances and the reorder gap are kept; a
\* new run starts one tick after the last packet of the run before it.
Follows(s, o, p) ==
  /\ p.dts > o.dts /\ p.pts >= p.dts
  /\ p.run # o.run \/ p.raw <= o.raw => p.dts = o.dts + 1
  /\ p.run = o.run /\ p.raw > o.raw /\ Unclamped(o, acc[s].offset)
       => p.dts - o.dts = p.raw - o.raw /\ p.pts - p.dts = p.gap

\* However outages, slate loops, recoveries and restarts of the input's stamps
\* follow each other, the muxer sees one continuous timeline per stream.
SeamsKeepTime ==
  [][\A s \in Streams :
       out[s] # None /\ out'[s] # out[s] => Follows(s, out[s], out'[s])]_vars

\* A decoder downstream never gets a live picture that depends on one the seam
\* withheld: copying resumes at a strict IDR, not at a mere keyframe.
ReentersOnIdr ==
  [][out'["video"] # out["video"] /\ out'["video"].run.from = "live" => intact']_vars

\* A verdict that is stored late costs one call: while a loss lasts, at most
\* one packet is copied in spite of it.
StaleVerdictCostsOneCall == overdue <= 1

\* The seam leaves the input only for a loss: the input ended, or a stream
\* that did deliver has gone silent or stopped advancing.
SplicesOnlyOnLoss ==
  [][emitting = "live" /\ emitting' = "slate" =>
       \E s \in Watched : \/ watch'[s].dead
                          \/ Silent(watch[s], clock) \/ Stalled(watch[s], clock)]_vars
=============================================================================
