------------------------ MODULE EngineRuntimeProofs ------------------------
(***************************************************************************)
(* Proofs about the tick loop, for every accepted cadence, repeat cap and  *)
(* budget: its invariants, strictly increasing pts, and that it implements *)
(* OutputCadence.                                                          *)
(***************************************************************************)
EXTENDS MCEngineRuntime, TLAPS

(* The clock arithmetic, for every cadence OutputClock::new accepts. *)

\* Integer division, by its bounds.
LEMMA DivBounds ==
  ASSUME NEW x \in Nat, NEW d \in Nat \ {0}
  PROVE  /\ x \div d \in Nat
         /\ (x \div d) * d <= x
         /\ x < (x \div d + 1) * d
OBVIOUS

\* A quotient is at most e exactly when the dividend is below the next multiple.
LEMMA DivAtMost ==
  ASSUME NEW x \in Nat, NEW d \in Nat \ {0}, NEW e \in Nat
  PROVE  x \div d <= e <=> x < (e + 1) * d
<1> DEFINE q == x \div d
<1>1. q \in Nat /\ q * d <= x /\ x < (q + 1) * d
  BY DivBounds
<1> HIDE DEF q
<1>2. q <= e => (q + 1) * d <= (e + 1) * d
  BY <1>1, SMT
<1>3. q >= e + 1 => q * d >= (e + 1) * d
  BY <1>1, SMT
<1>4. (q + 1) * d \in Nat /\ (e + 1) * d \in Nat /\ q * d \in Nat
  BY <1>1
<1> QED BY <1>1, <1>2, <1>3, <1>4 DEF q

\* The arithmetic of a valid cadence, with its products named: a is the period
\* in units of 1/num nanoseconds.
LEMMA CadenceFacts ==
  ASSUME NEW c, ValidCadence(c)
  PROVE  /\ c.num \in Nat \ {0} /\ c.den * NANOS_PER_SEC \in Nat
         /\ c.num <= c.den * NANOS_PER_SEC
         /\ c.den * NANOS_PER_SEC > 0
         /\ c.num \div 2 \in Nat /\ c.num \div 2 < c.num
         /\ NANOS_PER_SEC * c.den = c.den * NANOS_PER_SEC
BY NanosAssumption DEF ValidCadence

\* When a tick's pts is at most e, without the division.
LEMMA PtsAtMost ==
  ASSUME NEW c, ValidCadence(c), NEW i \in Nat, NEW e \in Nat
  PROVE  /\ pts_at(c, i) \in Nat
         /\ pts_at(c, i) <= e <=>
              i * (c.den * NANOS_PER_SEC) + c.num \div 2 < (e + 1) * c.num
<1> DEFINE x == i * (c.den * NANOS_PER_SEC) + c.num \div 2
<1>1. x \in Nat
  BY CadenceFacts
<1>2. pts_at(c, i) = x \div c.num
  BY DEF pts_at, rescale
<1> HIDE DEF x
<1>3. x \div c.num \in Nat /\ (x \div c.num <= e <=> x < (e + 1) * c.num)
  BY <1>1, CadenceFacts, DivBounds, DivAtMost
<1> QED BY <1>2, <1>3 DEF x

\* Output pts is strictly increasing in the tick index (invariant #3), for
\* every cadence OutputClock::new accepts.
THEOREM PtsIncreasing ==
  ASSUME NEW c, ValidCadence(c), NEW i \in Nat, NEW j \in Nat, i < j
  PROVE  pts_at(c, i) < pts_at(c, j)
<1> DEFINE a == c.den * NANOS_PER_SEC
           n == c.num
           h == c.num \div 2
           e == pts_at(c, j)
<1>1. /\ n \in Nat \ {0} /\ a \in Nat /\ n <= a /\ h \in Nat
      /\ e \in Nat /\ pts_at(c, i) \in Nat
  BY CadenceFacts, PtsAtMost
<1>2. j * a + h < (e + 1) * n
  BY <1>1, PtsAtMost
<1>3. e \in Nat \ {0} => (pts_at(c, i) <= e - 1 <=> i * a + h < e * n)
  <2> SUFFICES ASSUME e \in Nat \ {0}
               PROVE  pts_at(c, i) <= e - 1 <=> i * a + h < e * n
    OBVIOUS
  <2>1. e - 1 \in Nat /\ (e - 1) + 1 = e
    BY <1>1
  <2> HIDE DEF e
  <2> QED BY <2>1, PtsAtMost
<1> HIDE DEF a, n, h, e
<1>4. j * a >= i * a + a
  <2>1. j >= i + 1
    OBVIOUS
  <2>2. j * a >= (i + 1) * a
    BY <2>1, <1>1
  <2> QED BY <2>2, <1>1
<1>5. i * a + h < e * n
  <2>1. (e + 1) * n = e * n + n
    BY <1>1
  <2>2. i * a \in Nat /\ j * a \in Nat /\ e * n \in Nat
    BY <1>1
  <2> QED BY <2>1, <2>2, <1>1, <1>2, <1>4
<1>6. e # 0
  <2> SUFFICES ASSUME e = 0 PROVE FALSE
    OBVIOUS
  <2>1. i * a \in Nat
    BY <1>1
  <2> QED BY <2>1, <1>5, <1>1
<1> QED BY <1>1, <1>3, <1>5, <1>6 DEF e

\* cap_resync_floor is exact whenever the catch-up loop calls it: the result is
\* past the counter and is the greatest tick already due ("provably
\* sufficient", runtime.rs).
THEOREM ResyncExact ==
  ASSUME NEW c, ValidCadence(c), NEW seed \in Nat, NEW instant \in Nat,
         NEW next \in Nat, deadline_nanos(c, next + 1, seed) <= instant
  PROVE  LET floor == cap_resync_floor(c, seed, instant, next)
         IN  /\ floor \in Nat /\ floor >= next + 1
             /\ IsWallFloor(c, seed, instant, floor)
<1> DEFINE e == instant - seed
           a == c.den * NANOS_PER_SEC
           n == c.num
           h == c.num \div 2
           est == (e * n) \div a
           f == IF est > next THEN est ELSE next
<1>1. /\ n \in Nat \ {0} /\ a \in Nat \ {0} /\ n <= a /\ h \in Nat /\ h < n
  BY CadenceFacts
<1>2. e \in Nat /\ pts_at(c, next + 1) <= e
  BY PtsAtMost DEF deadline_nanos
<1>3. \A i \in Nat : /\ pts_at(c, i) \in Nat
                      /\ deadline_nanos(c, i, seed) = seed + pts_at(c, i)
  BY <1>2, PtsAtMost DEF deadline_nanos
<1>d. ASSUME NEW i \in Nat
      PROVE  /\ (deadline_nanos(c, i, seed) <= instant) <=> (pts_at(c, i) <= e)
             /\ (deadline_nanos(c, i, seed) > instant) <=> ~(pts_at(c, i) <= e)
             /\ (instant < deadline_nanos(c, i, seed)) <=> ~(pts_at(c, i) <= e)
  <2>1. pts_at(c, i) \in Nat /\ deadline_nanos(c, i, seed) = seed + pts_at(c, i)
    BY <1>3
  <2> QED BY <2>1, <1>2
<1>n. ASSUME NEW i \in Nat
      PROVE  pts_at(c, i) <= e <=> i * a + h < (e + 1) * n
  BY <1>2, PtsAtMost
<1>4. /\ est \in Nat /\ est * a <= e * n /\ e * n < (est + 1) * a
  <2>1. e * n \in Nat
    BY <1>1, <1>2
  <2> QED BY <2>1, <1>1, DivBounds
<1>5. cap_resync_floor(c, seed, instant, next) =
        IF pts_at(c, f + 1) <= e THEN f + 1
        ELSE IF f > next /\ ~(pts_at(c, f) <= e) THEN f - 1 ELSE f
  <2>1. (IF instant > seed THEN instant - seed ELSE 0) = e
    BY <1>2
  <2>2. NANOS_PER_SEC * c.den = a
    BY CadenceFacts
  <2>3. f \in Nat
    BY <1>4
  <2>4. deadline_nanos(c, f + 1, seed) <= instant <=> pts_at(c, f + 1) <= e
    BY <2>3, <1>d
  <2>5. deadline_nanos(c, f, seed) > instant <=> ~(pts_at(c, f) <= e)
    BY <2>3, <1>d
  <2> QED BY <2>1, <2>2, <2>4, <2>5 DEF cap_resync_floor
<1> HIDE DEF e, a, n, h, est
<1>p. e * n \in Nat /\ est * a \in Nat /\ (e + 1) * n = e * n + n
  BY <1>1, <1>2, <1>4
\* Two past the estimate is never due, one before it always is.
<1>6. ~(pts_at(c, f + 2) <= e)
  <2> DEFINE k == f + 2
  <2>1. k \in Nat /\ k >= est + 2
    BY <1>4
  <2> HIDE DEF k, f
  <2>2. k * a >= (est + 1) * a + a
    <3>1. k * a >= (est + 2) * a
      BY <2>1, <1>1, <1>4
    <3> QED BY <3>1, <1>1, <1>4
  <2>3. (est + 1) * a \in Nat /\ k * a \in Nat
    BY <2>1, <1>1, <1>4
  <2>4. ~(k * a + h < (e + 1) * n)
    BY <2>2, <2>3, <1>p, <1>4, <1>1
  <2>5. ~(pts_at(c, k) <= e)
    BY <2>1, <2>4, <1>n
  <2> QED BY <2>5 DEF k
<1>7. est > 0 => pts_at(c, est - 1) <= e
  <2> SUFFICES ASSUME est > 0 PROVE pts_at(c, est - 1) <= e
    OBVIOUS
  <2> DEFINE k == est - 1
  <2>1. k \in Nat /\ k * a = est * a - a
    BY <1>1, <1>4
  <2> HIDE DEF k
  <2>2. k * a + h < (e + 1) * n
    BY <2>1, <1>p, <1>1, <1>4
  <2>3. pts_at(c, k) <= e
    BY <2>1, <2>2, <1>n
  <2> QED BY <2>3 DEF k
<1>m. ASSUME NEW i \in Nat, NEW j \in Nat, i <= j, pts_at(c, j) <= e
      PROVE  pts_at(c, i) <= e
  <2>1. CASE i = j
    BY <1>m, <2>1
  <2>2. CASE i < j
    <3>1. pts_at(c, i) < pts_at(c, j)
      BY <2>2, PtsIncreasing
    <3>2. pts_at(c, i) \in Nat /\ pts_at(c, j) \in Nat
      BY <1>3
    <3> QED BY <3>1, <3>2, <1>2, <1>m
  <2> QED BY <1>m, <2>1, <2>2
<1>w. ASSUME NEW g \in Nat, pts_at(c, g) <= e, ~(pts_at(c, g + 1) <= e)
      PROVE  IsWallFloor(c, seed, instant, g) /\ g >= next + 1
  <2>1. IsWallFloor(c, seed, instant, g)
    BY <1>w, <1>d DEF IsWallFloor
  <2>2. g >= next + 1
    <3> SUFFICES ASSUME g + 1 <= next + 1 PROVE FALSE
      OBVIOUS
    <3>1. pts_at(c, g + 1) <= e
      BY <1>2, <1>m
    <3> QED BY <3>1, <1>w
  <2> QED BY <2>1, <2>2
<1>8. CASE pts_at(c, f + 1) <= e
  BY <1>8, <1>5, <1>6, <1>4, <1>w
<1>9. CASE ~(pts_at(c, f + 1) <= e)
  <2>1. f > next /\ f = est
    BY <1>9, <1>2, <1>4
  <2>2. CASE pts_at(c, f) <= e
    BY <1>9, <2>1, <2>2, <1>5, <1>4, <1>w
  <2>3. CASE ~(pts_at(c, f) <= e)
    <3>1. f - 1 \in Nat /\ (f - 1) + 1 = f /\ pts_at(c, f - 1) <= e
      BY <2>1, <1>7, <1>4
    <3>2. cap_resync_floor(c, seed, instant, next) = f - 1
      BY <1>9, <2>1, <2>3, <1>5
    <3> QED BY <3>1, <3>2, <2>3, <1>w
  <2> QED BY <2>2, <2>3
<1> QED BY <1>8, <1>9

-----------------------------------------------------------------------------
(* The tick loop. *)

\* Deadlines are naturals and grow with the tick.
LEMMA DeadlineFacts ==
  /\ \A i \in Nat : Deadline(i) \in Nat
  /\ \A i, j \in Nat : i < j => Deadline(i) < Deadline(j)
<1>1. ASSUME NEW i \in Nat PROVE pts_at(Cadence, i) \in Nat
  BY PtsAtMost, RuntimeAssumption
<1>2. ASSUME NEW i \in Nat, NEW j \in Nat, i < j
      PROVE  pts_at(Cadence, i) < pts_at(Cadence, j)
  BY <1>2, PtsIncreasing, RuntimeAssumption
<1> QED BY <1>1, <1>2, RuntimeAssumption DEF Deadline, deadline_nanos

LEMMA InitRuntimeInv == Init => RuntimeInv
<1> SUFFICES ASSUME Init PROVE RuntimeInv
  OBVIOUS
<1>1. /\ budget \in Nat \cup {NoBudget} /\ stop \in BOOLEAN /\ last_good \in BOOLEAN
      /\ outcome = "none" /\ pc = "idle"
  BY DEF Init
<1>2. /\ repeats \in 0..MAX_REPEATS_PER_TICK /\ burst \in 0..MAX_REPEATS_PER_TICK
      /\ out \in Nat \cup {-1} /\ out < next_index
      /\ now \in Nat /\ now >= Seed /\ emitted \in Nat /\ next_index \in Nat
      /\ tick \in Nat /\ sampled \in Nat /\ ticks_emitted \in Nat
      /\ frames_repeated \in Nat /\ frames_repeated <= ticks_emitted
      /\ calls \in Nat /\ afterStop \in Nat
  BY RuntimeAssumption DEF Init
<1>3. TypeOK
  BY <1>1, <1>2 DEF TypeOK
<1>4. NeverEarly /\ FreshestDue /\ StopIsPrompt
  BY DEF Init, NeverEarly, FreshestDue, StopIsPrompt
<1>5. DueInv /\ StopInv /\ BurstInv
  BY RuntimeAssumption DEF Init, DueInv, StopInv, BurstInv
<1> QED BY <1>3, <1>4, <1>5 DEF RuntimeInv

\* The resync lands past the counter, on the wall-clock floor.
LEMMA ResyncFacts ==
  ASSUME now \in Nat, next_index \in Nat, Deadline(next_index + 1) <= now
  PROVE  LET floor == cap_resync_floor(Cadence, Seed, now, next_index)
         IN  /\ floor \in Nat /\ floor > next_index
             /\ IsWallFloor(Cadence, Seed, now, floor)
             /\ Deadline(floor) <= now
<1> DEFINE floor == cap_resync_floor(Cadence, Seed, now, next_index)
<1>1. /\ floor \in Nat /\ floor >= next_index + 1
      /\ IsWallFloor(Cadence, Seed, now, floor)
  BY ResyncExact, RuntimeAssumption DEF Deadline
<1> HIDE DEF floor
<1>2. Deadline(floor) <= now
  BY <1>1 DEF IsWallFloor, Deadline
<1> QED BY <1>1, <1>2 DEF floor

LEMMA NextRuntimeInv == RuntimeInv /\ [Next]_vars => RuntimeInv'
<1> SUFFICES ASSUME RuntimeInv, [Next]_vars PROVE RuntimeInv'
  OBVIOUS
<1>t. /\ now \in Nat /\ next_index \in Nat /\ tick \in Nat /\ sampled \in Nat
      /\ out \in Int /\ Deadline(next_index) \in Nat
      /\ Deadline(next_index + 1) \in Nat /\ Deadline(tick) \in Nat
      /\ out >= 0 => out \in Nat /\ Deadline(out) \in Nat
  BY DeadlineFacts DEF RuntimeInv, TypeOK
<1>1. CASE UNCHANGED vars
  BY <1>1 DEF vars, RuntimeInv, TypeOK, NeverEarly, FreshestDue, StopIsPrompt,
              DueInv, StopInv, BurstInv, Deadline
<1>2. CASE Elapse
  <2> USE <1>2 DEF Elapse, loopVars, RuntimeInv
  <2>1. now' \in Nat /\ now' > now
    BY <1>t, RuntimeAssumption
  <2>2. TypeOK'
    BY <2>1, RuntimeAssumption DEF TypeOK
  <2>3. NeverEarly' /\ DueInv'
    BY <2>1, <1>t DEF NeverEarly, DueInv, Deadline
  <2>4. FreshestDue' /\ StopIsPrompt' /\ StopInv' /\ BurstInv'
    BY DEF FreshestDue, StopIsPrompt, StopInv, BurstInv
  <2> QED BY <2>2, <2>3, <2>4
<1>3. CASE RaiseStop
  BY <1>3 DEF RaiseStop, loopVars, RuntimeInv, TypeOK, NeverEarly, FreshestDue,
              StopIsPrompt, DueInv, StopInv, BurstInv, Deadline
<1>4. ASSUME NEW b \in Budgets, Call(b) PROVE RuntimeInv'
  <2> USE <1>4 DEF Call, RuntimeInv
  <2>1. b \in Nat \cup {NoBudget}
    BY RuntimeAssumption
  <2>2. TypeOK'
    <3>1. budget' \in Nat \cup {NoBudget} /\ last_good' \in BOOLEAN
      BY <2>1
    <3>2. calls' \in Nat
      BY DEF TypeOK
    <3>3. pc' = "top" /\ emitted' \in Nat
      OBVIOUS
    <3>4. UNCHANGED <<now, stop, repeats, next_index, tick, sampled, out, burst,
                      ticks_emitted, frames_repeated, outcome, afterStop>>
      OBVIOUS
    <3> HIDE DEF Call
    <3> QED BY <3>1, <3>2, <3>3, <3>4 DEF TypeOK
  <2>3. NeverEarly' /\ DueInv'
    BY DEF NeverEarly, DueInv, Deadline
  <2>4. FreshestDue' /\ StopIsPrompt' /\ StopInv' /\ BurstInv'
    BY DEF FreshestDue, StopIsPrompt, StopInv, BurstInv
  <2> QED BY <2>2, <2>3, <2>4
<1>5. ASSUME NEW why \in {"Stopped", "Completed"}, Return(why),
             pc \in {"top", "woken", "hold"}
      PROVE  RuntimeInv'
  <2> USE <1>5 DEF Return, RuntimeInv
  <2>1. TypeOK' /\ FreshestDue' /\ StopIsPrompt' /\ StopInv'
    BY DEF TypeOK, FreshestDue, StopIsPrompt, StopInv
  <2>2. NeverEarly' /\ DueInv' /\ BurstInv'
    BY DEF NeverEarly, DueInv, BurstInv, Deadline
  <2> QED BY <2>1, <2>2
<1>6. CASE Top
  <2>1. ASSUME Goto("wait"), UNCHANGED <<repeats, sampled>>, pc = "top", ~stop
        PROVE  RuntimeInv'
    BY <2>1 DEF Goto, RuntimeInv, TypeOK, NeverEarly, FreshestDue, StopIsPrompt,
                DueInv, StopInv, BurstInv, Deadline
  <2> QED BY <1>6, <1>5, <2>1 DEF Top, CheckStopAndBudget
<1>7. CASE WaitUntil
  BY <1>7 DEF WaitUntil, Goto, RuntimeInv, TypeOK, NeverEarly, FreshestDue,
              StopIsPrompt, DueInv, StopInv, BurstInv, Deadline
<1>8. CASE Woken
  <2>1. ASSUME ~stop, last_good, Goto("hold"), repeats' = 0, UNCHANGED sampled,
               pc = "woken"
        PROVE  RuntimeInv'
    BY <2>1, RuntimeAssumption
       DEF Goto, RuntimeInv, TypeOK, NeverEarly, FreshestDue, StopIsPrompt, DueInv,
           StopInv, BurstInv, Deadline
  <2>2. ASSUME ~stop, ~last_good, Goto("compose"), UNCHANGED <<repeats, sampled>>,
               pc = "woken"
        PROVE  RuntimeInv'
    BY <2>2 DEF Goto, RuntimeInv, TypeOK, NeverEarly, FreshestDue, StopIsPrompt,
                DueInv, StopInv, BurstInv, Deadline
  <2> QED BY <1>8, <1>5, <2>1, <2>2 DEF Woken
<1>9. CASE Hold
  <2>1. ASSUME Goto("sample"), UNCHANGED <<repeats, sampled>>, pc = "hold", ~stop
        PROVE  RuntimeInv'
    BY <2>1 DEF Goto, RuntimeInv, TypeOK, NeverEarly, FreshestDue, StopIsPrompt,
                DueInv, StopInv, BurstInv, Deadline
  <2> QED BY <1>9, <1>5, <2>1 DEF Hold, CheckStopAndBudget
<1>10. CASE SampleClock
  <2> USE <1>10 DEF SampleClock, RuntimeInv
  <2>1. CASE now < Deadline(next_index + 1) /\ pc' = "compose" /\ UNCHANGED next_index
    <3>1. FreshestDue'
      BY <2>1 DEF FreshestDue, IsWallFloor, DueInv, Deadline
    <3>2. TypeOK' /\ StopIsPrompt' /\ StopInv' /\ BurstInv'
      BY <2>1 DEF TypeOK, StopIsPrompt, StopInv, BurstInv
    <3>3. NeverEarly' /\ DueInv'
      BY <2>1, <1>t DEF NeverEarly, DueInv, Deadline
    <3> QED BY <3>1, <3>2, <3>3
  <2>2. CASE now >= Deadline(next_index + 1) /\ repeats >= MAX_REPEATS_PER_TICK
    <3> DEFINE floor == cap_resync_floor(Cadence, Seed, now, next_index)
    <3>1. /\ floor \in Nat /\ floor > next_index
          /\ IsWallFloor(Cadence, Seed, now, floor) /\ Deadline(floor) <= now
      BY <2>2, <1>t, ResyncFacts
    <3>2. next_index' = floor /\ pc' = "compose"
      <4>1. repeats \in Int /\ MAX_REPEATS_PER_TICK \in Int
        BY RuntimeAssumption DEF TypeOK
      <4> HIDE DEF floor, RuntimeInv
      <4>2. /\ next_index' = IF floor > next_index THEN floor ELSE next_index
            /\ pc' = "compose"
        BY <2>2, <1>t, <4>1 DEF floor
      <4> QED BY <4>2, <3>1
    <3> HIDE DEF floor
    <3>3. FreshestDue'
      BY <3>1, <3>2 DEF FreshestDue
    <3>4. TypeOK' /\ StopIsPrompt' /\ StopInv'
      BY <3>1, <3>2, <1>t DEF TypeOK, StopIsPrompt, StopInv
    <3>5. burst = MAX_REPEATS_PER_TICK
      BY <2>2, RuntimeAssumption DEF TypeOK, BurstInv
    <3>6. BurstInv'
      BY <3>2, <3>5 DEF BurstInv, TypeOK
    <3>7. NeverEarly' /\ DueInv'
      BY <3>1, <3>2, <1>t DEF NeverEarly, DueInv, Deadline
    <3> QED BY <3>3, <3>4, <3>6, <3>7
  <2>3. CASE /\ now >= Deadline(next_index + 1) /\ repeats < MAX_REPEATS_PER_TICK
             /\ pc' = "repeat" /\ UNCHANGED next_index
    BY <2>3, <1>t DEF TypeOK, NeverEarly, FreshestDue, StopIsPrompt, DueInv, StopInv,
                      BurstInv, Deadline
  <2> QED BY <2>1, <2>2, <2>3
<1>11. CASE Repeat
  <2> USE <1>11 DEF Repeat, Publish, RuntimeInv
  <2>1. TypeOK'
    <3>1. /\ repeats' \in 0..MAX_REPEATS_PER_TICK
          /\ burst' \in 0..MAX_REPEATS_PER_TICK
      BY RuntimeAssumption DEF TypeOK, BurstInv
    <3>2. /\ emitted' \in Nat /\ next_index' \in Nat /\ afterStop' \in Nat
          /\ out' \in Nat \cup {-1} /\ out' < next_index'
          /\ ticks_emitted' \in Nat /\ frames_repeated' \in Nat
          /\ frames_repeated' <= ticks_emitted'
      BY DEF TypeOK
    <3> QED BY <3>1, <3>2 DEF TypeOK
  <2>2. StopIsPrompt' /\ StopInv' /\ FreshestDue'
    BY DEF StopIsPrompt, StopInv, FreshestDue, TypeOK
  <2>3. BurstInv'
    BY <1>t DEF BurstInv, TypeOK
  <2>4. NeverEarly' /\ DueInv'
    BY <1>t DEF NeverEarly, DueInv, Deadline
  <2> QED BY <2>1, <2>2, <2>3, <2>4
<1>12. CASE Compose
  <2> USE <1>12 DEF Compose, RuntimeInv
  <2>1. TypeOK' /\ StopIsPrompt' /\ StopInv' /\ FreshestDue'
    BY <1>t DEF TypeOK, StopIsPrompt, StopInv, FreshestDue
  <2>2. BurstInv' /\ NeverEarly' /\ DueInv'
    BY <1>t DEF BurstInv, NeverEarly, DueInv, Deadline, TypeOK
  <2> QED BY <2>1, <2>2
<1>13. CASE ComposeError
  BY <1>13 DEF ComposeError, Return, RuntimeInv, TypeOK, NeverEarly, FreshestDue,
               StopIsPrompt, DueInv, StopInv, BurstInv, Deadline
<1>14. CASE PublishFresh
  <2> USE <1>14 DEF PublishFresh, Publish, RuntimeInv
  <2>1. TypeOK'
    BY <1>t, RuntimeAssumption DEF TypeOK, DueInv
  <2>2. StopIsPrompt' /\ StopInv' /\ FreshestDue'
    BY DEF StopIsPrompt, StopInv, FreshestDue, TypeOK
  <2>3. BurstInv' /\ NeverEarly' /\ DueInv'
    BY <1>t DEF BurstInv, NeverEarly, DueInv, Deadline, TypeOK
  <2> QED BY <2>1, <2>2, <2>3
<1> QED BY <1>1, <1>2, <1>3, <1>4, <1>6, <1>7, <1>8, <1>9, <1>10, <1>11, <1>12,
           <1>13, <1>14 DEF Next, Loop

-----------------------------------------------------------------------------
\* The loop's invariant: what is due at each point of run_inner, that a raised
\* stop is about to be noticed, and the counter against the published ticks.
THEOREM RuntimeInvariant == Spec => []RuntimeInv
BY InitRuntimeInv, NextRuntimeInv, PTL DEF Spec

\* Types, with at most MAX_REPEATS_PER_TICK repeats between two fresh frames.
THEOREM RuntimeTypes == Spec => []TypeOK
BY RuntimeInvariant, PTL DEF RuntimeInv

\* No frame leaves before its deadline, resyncs included.
THEOREM EmitsNoFrameEarly == Spec => []NeverEarly
BY RuntimeInvariant, PTL DEF RuntimeInv

\* A fresh frame composed after a catch-up carries the freshest tick due.
THEOREM ComposesFreshestTick == Spec => []FreshestDue
BY RuntimeInvariant, PTL DEF RuntimeInv

\* Both together: the ticks follow the wall clock (TracksClock).
THEOREM TicksTrackClock == Spec => []TracksClock
BY RuntimeInvariant, PTL DEF RuntimeInv, TracksClock

\* A raised stop lets at most one more frame out.
THEOREM StopsPromptly == Spec => []StopIsPrompt
BY RuntimeInvariant, PTL DEF RuntimeInv

\* Whenever the catch-up loop may resync, the estimate with its single step up
\* or down is the wall-clock floor, for every cadence beside the runtime's own.
THEOREM ResyncsToWallFloor == Spec => []ResyncIsWallFloor
<1>1. RuntimeInv => ResyncIsWallFloor
  <2> SUFFICES ASSUME RuntimeInv, NEW c \in Cadences,
                      deadline_nanos(c, next_index + 1, Seed) <= now
               PROVE  LET floor == cap_resync_floor(c, Seed, now, next_index)
                      IN  floor >= next_index + 1 /\ IsWallFloor(c, Seed, now, floor)
    BY DEF ResyncIsWallFloor
  <2>1. ValidCadence(c)
    BY DEF Cadences
  <2>2. now \in Nat /\ next_index \in Nat /\ Seed \in Nat
    BY RuntimeAssumption DEF RuntimeInv, TypeOK
  <2> QED BY <2>1, <2>2, ResyncExact
<1> QED BY <1>1, RuntimeInvariant, PTL

-----------------------------------------------------------------------------
\* The tick published by a step, seen from the state before it.
LEMMA PublishedTick ==
  ASSUME RuntimeInv, [Next]_vars
  PROVE  \/ UNCHANGED <<out, burst, ticks_emitted>>
         \/ Repeat /\ out' = next_index /\ next_index = out + 1
         \/ /\ PublishFresh /\ out' = tick /\ tick > out
            /\ tick = out + 1 \/ burst = MAX_REPEATS_PER_TICK
<1> USE DEF RuntimeInv
<1>1. CASE Repeat
  BY <1>1 DEF Repeat, Publish, BurstInv
<1>2. CASE PublishFresh
  BY <1>2 DEF PublishFresh, Publish, DueInv, BurstInv, TypeOK
<1>3. CASE Elapse \/ RaiseStop \/ UNCHANGED vars
  BY <1>3 DEF Elapse, RaiseStop, loopVars, vars
<1>4. ASSUME NEW b \in Budgets, Call(b) PROVE UNCHANGED <<out, burst, ticks_emitted>>
  BY <1>4 DEF Call
<1>5. CASE Top \/ WaitUntil \/ Woken \/ Hold
  BY <1>5 DEF Top, WaitUntil, Woken, Hold, CheckStopAndBudget, Goto, Return
<1>6. CASE SampleClock \/ Compose \/ ComposeError
  BY <1>6 DEF SampleClock, Compose, ComposeError, Return
<1> HIDE DEF RuntimeInv
<1> QED BY <1>1, <1>2, <1>3, <1>4, <1>5, <1>6 DEF Next, Loop

\* Published frames carry strictly increasing pts, in nanoseconds, for every
\* accepted cadence.
THEOREM PtsNeverRepeats == Spec => PtsStrictlyIncreases
<1> DEFINE A == ticks_emitted' # ticks_emitted /\ out >= 0 =>
                  pts_at(Cadence, out') > pts_at(Cadence, out)
<1>1. ASSUME RuntimeInv, [Next]_vars PROVE [A]_vars
  <2>0. SUFFICES ASSUME ticks_emitted' # ticks_emitted, out >= 0
                 PROVE  pts_at(Cadence, out') > pts_at(Cadence, out)
    OBVIOUS
  <2>1. out \in Nat /\ next_index \in Nat /\ tick \in Nat
    BY <1>1, <2>0 DEF RuntimeInv, TypeOK
  <2>2. out' \in Nat /\ out < out'
    BY <1>1, <2>0, <2>1, PublishedTick
  <2>3. pts_at(Cadence, out) < pts_at(Cadence, out')
    BY <2>1, <2>2, PtsIncreasing, RuntimeAssumption
  <2>4. pts_at(Cadence, out) \in Nat /\ pts_at(Cadence, out') \in Nat
    BY <2>1, <2>2, PtsAtMost, RuntimeAssumption
  <2> QED BY <2>3, <2>4
<1> QED BY <1>1, RuntimeInvariant, PTL DEF Spec, PtsStrictlyIncreases

-----------------------------------------------------------------------------
\* The tick loop implements OutputCadence: ticks are emitted in order, none
\* early, and none is left out but after a full burst of repeats.
THEOREM ImplementsCadence == Spec => KeepsCadence
<1>1. Init => Promise!CadenceInit
  BY DEF Init, Promise!CadenceInit
<1>2. ASSUME RuntimeInv, [Next]_vars
      PROVE  [Promise!Elapse \/ Promise!EmitFresh \/ Promise!EmitRepeat]_(Promise!cadenceVars)
  <2>t. /\ now \in Nat /\ out \in Int /\ next_index \in Nat /\ tick \in Nat
        /\ burst \in Nat /\ MAX_REPEATS_PER_TICK \in Nat
    BY <1>2, RuntimeAssumption DEF RuntimeInv, TypeOK
  <2>1. now' = now \/ (Elapse /\ now' > now)
    BY <1>2, <2>t, RuntimeAssumption
       DEF Next, Loop, Elapse, RaiseStop, Call, Top, WaitUntil, Woken, Hold,
           CheckStopAndBudget, Goto, Return, SampleClock, Repeat, Publish, Compose,
           ComposeError, PublishFresh, vars
  <2>2. CASE Elapse /\ now' > now
    BY <2>2 DEF Elapse, loopVars, Promise!Elapse
  <2>3. CASE now' = now /\ UNCHANGED <<out, burst>>
    BY <2>3 DEF Promise!cadenceVars
  <2>4. CASE Repeat /\ out' = next_index /\ next_index = out + 1
    <3>1. out >= 0 /\ burst < MAX_REPEATS_PER_TICK /\ Deadline(next_index) <= now
      BY <1>2, <2>4, <2>t DEF Repeat, RuntimeInv, BurstInv, DueInv
    <3>2. burst' = burst + 1 /\ now' = now
      BY <2>4 DEF Repeat
    <3>3. Promise!EmitRepeat
      BY <2>4, <3>1, <3>2 DEF Promise!EmitRepeat, Promise!Due, Deadline, deadline_nanos,
         Promise!deadline_nanos, pts_at, Promise!pts_at, rescale, Promise!rescale
    <3> QED BY <3>3
  <2>5. CASE /\ PublishFresh /\ out' = tick /\ tick > out
             /\ tick = out + 1 \/ burst = MAX_REPEATS_PER_TICK
    <3>1. Deadline(tick) <= now /\ burst' = 0 /\ now' = now
      BY <1>2, <2>5 DEF PublishFresh, RuntimeInv, DueInv
    <3>2. Promise!EmitFresh
      BY <2>5, <3>1, <2>t DEF Promise!EmitFresh, Promise!Due, Deadline, deadline_nanos,
         Promise!deadline_nanos, pts_at, Promise!pts_at, rescale, Promise!rescale
    <3> QED BY <3>2
  <2> QED BY <1>2, <2>1, <2>2, <2>3, <2>4, <2>5, PublishedTick DEF Elapse, loopVars
<1> QED BY <1>1, <1>2, RuntimeInvariant, PTL DEF Spec, KeepsCadence, Promise!CadenceSpec
=============================================================================
