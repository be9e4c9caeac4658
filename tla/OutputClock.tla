---------------------------- MODULE OutputClock ----------------------------
(***************************************************************************)
(* The output clock's arithmetic (multiview-engine clock.rs and            *)
(* cap_resync_floor of runtime.rs, multiview-core time.rs): the pts and    *)
(* the deadline of a tick as functions of its index alone, and the         *)
(* constant-time resync to the wall clock.                                 *)
(*                                                                         *)
(* Times are integer nanoseconds; NANOS_PER_SEC is a parameter so that TLC *)
(* can use a short second.  A cadence is a record of its exact rational.   *)
(* The i64 and u64 saturations, centuries away at any real frame rate, are *)
(* left out.                                                               *)
(***************************************************************************)
EXTENDS Integers

CONSTANT NANOS_PER_SEC
ASSUME NanosAssumption == NANOS_PER_SEC \in Nat \ {0}

\* Mutant: any positive rational is accepted.
AnyPositiveCadence(c) == c.num \in Nat \ {0} /\ c.den \in Nat \ {0}

\* What OutputClock::new accepts: a positive rational whose exact period is at
\* least one nanosecond (Rational::has_subnanosecond_period).
ValidCadence(c) ==
  /\ c.num \in Nat \ {0} /\ c.den \in Nat \ {0}
  /\ c.num <= NANOS_PER_SEC * c.den

\* rescale for the positive operands from_tick gives it: round half up.
rescale(value, num, den) == (value * num + den \div 2) \div den

pts_at(c, index) == rescale(index, c.den * NANOS_PER_SEC, c.num)
deadline_nanos(c, index, seed) == seed + pts_at(c, index)

\* Mutant: divides by the rounded period, whose error grows with the index.
ResyncByRoundedPeriod(c, seed, now, next) ==
  LET elapsed == IF now > seed THEN now - seed ELSE 0
      est == elapsed \div pts_at(c, 1)
      floor_idx == IF est > next THEN est ELSE next
  IN  IF deadline_nanos(c, floor_idx + 1, seed) <= now THEN floor_idx + 1
      ELSE IF floor_idx > next /\ deadline_nanos(c, floor_idx, seed) > now
      THEN floor_idx - 1
      ELSE floor_idx

\* Mutant: rounds the estimate up instead of down.
ResyncRoundedUp(c, seed, now, next) ==
  LET elapsed == IF now > seed THEN now - seed ELSE 0
      period == NANOS_PER_SEC * c.den
      est == (elapsed * c.num + period - 1) \div period
  IN  IF est > next THEN est ELSE next

\* The wall-clock floor tick, in constant time: the exact rational estimate,
\* then one step up or one step down against the rounded deadlines.
cap_resync_floor(c, seed, now, next) ==
  LET elapsed == IF now > seed THEN now - seed ELSE 0
      est == (elapsed * c.num) \div (NANOS_PER_SEC * c.den)
      floor_idx == IF est > next THEN est ELSE next
  IN  IF deadline_nanos(c, floor_idx + 1, seed) <= now THEN floor_idx + 1
      ELSE IF floor_idx > next /\ deadline_nanos(c, floor_idx, seed) > now
      THEN floor_idx - 1
      ELSE floor_idx

\* The reference cap_resync_floor is documented to compute: the greatest index
\* whose deadline has passed.
IsWallFloor(c, seed, now, index) ==
  /\ deadline_nanos(c, index, seed) <= now
  /\ now < deadline_nanos(c, index + 1, seed)
=============================================================================
