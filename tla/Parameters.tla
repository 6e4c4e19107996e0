----------------------------- MODULE Parameters -----------------------------
(***************************************************************************)
(* How a parameter resolves: src/internal/adapter/postgres/params.go.  A   *)
(* table maps a key to the text of its row, or to Absent.  The cache and   *)
(* its reloads are run by Quotes.                                          *)
(***************************************************************************)
EXTENDS Integers

CONSTANTS
  Keys,        \* the parameters told apart
  Texts,       \* the texts a row may hold
  Absent,      \* no row
  Fallbacks,   \* the compiled fallback of each key
  IntOf,       \* what strconv.Atoi makes of the texts it accepts
  BoolOf,      \* what strconv.ParseBool makes of those it accepts
  TTL          \* ticks for which a cache is fresh

ASSUME ParametersAssumption ==
  /\ Absent \notin Texts /\ Fallbacks \in [Keys -> Texts] /\ TTL \in Nat \ {0}
  /\ DOMAIN IntOf \subseteq Texts /\ DOMAIN BoolOf \subseteq Texts
  /\ \A t \in DOMAIN IntOf : IntOf[t] \in Int
  /\ \A t \in DOMAIN BoolOf : BoolOf[t] \in BOOLEAN

Table == [Keys -> Texts \cup {Absent}]

\* A store's row before the group's before the fallback.
Raw(group, stores, key) ==
  IF stores[key] # Absent THEN stores[key]
  ELSE IF group[key] # Absent THEN group[key] ELSE Fallbacks[key]

Source(group, stores, key) ==
  IF stores[key] # Absent THEN "store" ELSE IF group[key] # Absent THEN "group"
  ELSE "fallback"

\* A row that is not a number is passed over for the fallback, never for the group's.
AsInt(text, key) ==
  IF text \in DOMAIN IntOf THEN IntOf[text]
  ELSE IF Fallbacks[key] \in DOMAIN IntOf THEN IntOf[Fallbacks[key]] ELSE 0

AsBool(text) == text \in DOMAIN BoolOf /\ BoolOf[text]

-----------------------------------------------------------------------------
\* A cache has its two tables and the instant it was loaded.

\* Mutant: a cache that was ever loaded is taken as fresh.
FreshOnceLoaded(cache, now) == TRUE

\* ensure's question.  A process does not start without a first Reload (build), so
\* there is always a cache.
Fresh(cache, now) == now - cache.loaded < TTL

\* What a Reload that read these tables leaves.
Loaded(group, stores, now) == [group |-> group, stores |-> stores, loaded |-> now]

Invalidated(cache) == [cache EXCEPT !.loaded = -TTL]
=============================================================================
