----------------------------- MODULE ConfigDocs -----------------------------
(***************************************************************************)
(* What the configuration lifecycle of multiview-control is built from:    *)
(* documents and what they differ in, the engine command a difference asks *)
(* for, and the tokens by which a server-side writer announces a write of  *)
(* the config file (ConfigWatchHandle).                                    *)
(*                                                                         *)
(* A document is its source collection.  Overlays ride the same            *)
(* submit-then-adopt path; the layout stays as it is, and with it the      *)
(* sources its cells bind; the other sections have no live path.  A body   *)
(* is synthetic (the engine takes it live) or decoded (on restart).        *)
(***************************************************************************)
EXTENDS Naturals, FiniteSets, SequencesExt

CONSTANTS
  Ids,        \* source ids
  Displayed,  \* ids some cell of the layout binds
  Synthetic,  \* bodies of a kind the engine takes live
  Decoded,    \* bodies of a kind that applies on restart
  Absent,     \* no source under this id
  MaxTokens   \* MAX_EXPECTED_TOKENS, 8 in the code

ASSUME BodyAssumption ==
  /\ Absent \notin Synthetic \cup Decoded
  /\ Synthetic \cap Decoded = {}
  /\ Displayed \subseteq Ids
ASSUME TokenAssumption == MaxTokens \in Nat \ {0}

Bodies == Synthetic \cup Decoded \cup {Absent}
Doc    == [Ids -> Bodies]

\* MultiviewConfig::validate: a cell binds a source that is declared.
ValidDoc == {doc \in Doc : \A i \in Displayed : doc[i] # Absent}

\* ConfigDiff::between, the sources added, changed or removed.
Changed(prev, next) == {i \in Ids : prev[i] # next[i]}

\* A change to a decoded body asks the engine for nothing, unless a synthetic
\* picture has to stop; every other change is an UpsertSource or RemoveSource.
NeedsCommand(prev, next) ==
  next \in Synthetic \/ next = Absent \/ prev \in Synthetic

\* RemoveSource is the upsert of Absent.
Command(i, next) == [id |-> i, body |-> IF next \in Synthetic THEN next ELSE Absent]
Commands == [id : Ids, body : Synthetic \cup {Absent}]

\* adopt_source, unadopt_source, and the engine's upsert_source, remove_source.
Effect(doc, cmd) == [doc EXCEPT ![cmd.id] = cmd.body]

-----------------------------------------------------------------------------
Token == [text : ValidDoc, landed : BOOLEAN]

Matches(tokens, text) == {k \in DOMAIN tokens : tokens[k].text = text}

expect_write(tokens, text) ==
  LET kept == IF Len(tokens) >= MaxTokens THEN Tail(tokens) ELSE tokens
  IN  Append(kept, [text |-> text, landed |-> FALSE])

mark_write_landed(tokens, text) ==
  IF Matches(tokens, text) = {} THEN tokens
  ELSE [tokens EXCEPT ![Max(Matches(tokens, text))].landed = TRUE]

release_write(tokens, text) ==
  IF Matches(tokens, text) = {} THEN tokens
  ELSE RemoveAt(tokens, Min(Matches(tokens, text)))

\* The matching announcement goes, and every one banked before it.
consume_expected_for(tokens, text) ==
  SubSeq(tokens, Min(Matches(tokens, text)) + 1, Len(tokens))

\* Mutant: a write announced but not yet on disk loses its token.
DrainAll(tokens) == <<>>

drain_landed(tokens) ==
  LET kept[k \in 0..Len(tokens)] ==
        IF k = 0 THEN <<>>
        ELSE IF tokens[k].landed THEN kept[k - 1] ELSE Append(kept[k - 1], tokens[k])
  IN  kept[Len(tokens)]

=============================================================================
