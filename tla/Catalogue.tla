----------------------------- MODULE Catalogue -----------------------------
(***************************************************************************)
(* What a store can sell and which options go with it:                     *)
(* src/internal/domain/catalog/catalog.go, which is pure.  A row that need *)
(* not exist is a set of at most one.                                      *)
(***************************************************************************)
EXTENDS Integers, FiniteSets, FiniteSetsExt

\* An 86 without an end stands until it is lifted.
Never == -1

\* Mutant: an 86 without an end is taken for one that is over.
ActiveWithEnd(e, at) == e.starts <= at /\ at < e.ends

Active(e, at) == e.starts <= at /\ (e.ends = Never \/ at < e.ends)

Remaining(stock) == IF stock.total - stock.used < 0 THEN 0 ELSE stock.total - stock.used

\* A rule's times are NULL or a time of day; no weekday named is every weekday.
Admits(rule, weekday, time) ==
  /\ rule.weekdays = {} \/ weekday \in rule.weekdays
  /\ \A from \in rule.from : time >= from
  /\ \A to \in rule.to : time < to

\* The query: the item and its category, the store's override, its 86s, the date's
\* stock and the rules, and the slot's weekday and time of day.
Resolve(q, now) ==
  IF ~q.item.isActive THEN "ITEM_INACTIVE"
  ELSE IF ~q.item.categoryActive THEN "CATEGORY_INACTIVE"
  ELSE IF \E o \in q.override : ~o.available THEN "STORE_UNAVAILABLE"
  ELSE IF \E e \in q.eightySixes : Active(e, now) THEN "OUT_OF_STOCK_86"
  ELSE IF \E s \in q.stock : Remaining(s) < 1 THEN "SOLD_OUT_TODAY"
  ELSE IF q.rules # {} /\ ~\E r \in q.rules : Admits(r, q.weekday, q.time)
    THEN "NOT_AVAILABLE_AT_THIS_TIME"
  ELSE "AVAILABLE"

NoPrice == -1

\* The override's price, if it has one, before the group's.
EffectivePrice(item, override) ==
  IF \E o \in override : o.price # NoPrice
    THEN (CHOOSE o \in override : TRUE).price ELSE item.basePrice

-----------------------------------------------------------------------------
\* A group is a record of its id, selection, isRequired, minSelect, maxSelect and
\* choices; a selection is a set: a choice named twice is refused.
ChosenOf(g, selected) == {c \in g.choices : c.id \in selected}

GroupAccepts(g, selected) ==
  LET n == Cardinality(ChosenOf(g, selected)) IN
  /\ g.isRequired => n > 0
  /\ n > 0 => /\ g.selection = "single" => n <= 1
              /\ n >= g.minSelect
              /\ g.maxSelect > 0 => n <= g.maxSelect

ChoicesOf(groups) == UNION {g.choices : g \in groups}

OptionsValid(groups, selected) ==
  /\ \A id \in selected : \E c \in ChoicesOf(groups) : c.id = id /\ c.isAvailable
  /\ \A g \in groups : GroupAccepts(g, selected)

\* What ValidateOptions adds to a line, of a selection it accepts.
OptionsDelta(groups, selected) ==
  MapThenSumSet(LAMBDA c : c.priceDelta, {c \in ChoicesOf(groups) : c.id \in selected})

OptionsUnits(groups, selected) ==
  MapThenSumSet(LAMBDA c : c.kitchenUnits, {c \in ChoicesOf(groups) : c.id \in selected})
=============================================================================
