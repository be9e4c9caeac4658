---------------------------- MODULE EventStream ----------------------------
(***************************************************************************)
(* The engine's outbound event broadcast (multiview-engine isolation.rs):  *)
(* cloned publish handles share one sequence counter and one drop-oldest   *)
(* ring.  A publish is two steps that another producer can come between:   *)
(* fetch_add on the counter, then broadcast send.                          *)
(*                                                                         *)
(* The ring is modelled by the log of everything ever sent, of which a     *)
(* receiver can still read the last Capacity entries.                      *)
(***************************************************************************)
EXTENDS Integers, Sequences

CONSTANTS
  Producers,   \* holders of an EventStream clone
  Capacity     \* the ring's length, a power of two in tokio

ASSUME StreamAssumption == Capacity \in Nat \ {0}

VARIABLES
  seq,        \* the shared AtomicU64
  log,        \* every event sent, with its sequence number
  inflight    \* per producer, the events between fetch_add and send

streamVars == <<seq, log, inflight>>

StreamInit ==
  /\ seq = 0 /\ log = <<>>
  /\ inflight = [p \in Producers |-> <<>>]

Idle(p) == inflight[p] = <<>>

\* publish, first half: take the next sequence number.
FetchAdd(p, event) ==
  /\ Idle(p)
  /\ seq' = seq + 1
  /\ inflight' = [inflight EXCEPT ![p] = <<[seq |-> seq + 1, event |-> event]>>]
  /\ UNCHANGED log

\* publish, second half: broadcast send, which succeeds or finds no receiver.
Send(p) ==
  /\ ~Idle(p)
  /\ log' = log \o inflight[p]
  /\ inflight' = [inflight EXCEPT ![p] = <<>>]
  /\ UNCHANGED seq

\* A receiver's cursor is the index in log of its next event.
End == Len(log) + 1
Oldest == IF Len(log) > Capacity THEN Len(log) - Capacity + 1 ELSE 1
Lagging(pos) == pos < Oldest
Readable(pos) == Oldest <= pos /\ pos < End
=============================================================================
