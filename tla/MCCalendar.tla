----------------------------- MODULE MCCalendar -----------------------------
(* One day of four ticks, and the day after, beyond the advance window.      *)
EXTENDS Calendar, TLC

Row(mode, index, opens, closes) ==
  [weekday |-> 0, mode |-> mode, index |-> index, isClosed |-> FALSE,
   opens |-> opens, closes |-> closes]

MCFirstHours == {Row("pickup", 0, 1, 4)}

MCHoursInputs == {{Row("pickup", 1, 2, 4)}, {[Row("pickup", 0, 0, 0) EXCEPT !.isClosed = TRUE]}}

Over(opens, closes) ==
  [date |-> 0, mode |-> "pickup", index |-> 0, isClosed |-> FALSE,
   opens |-> opens, closes |-> closes]

MCOverrideInputs == {Over(1, 4), [Over(0, 0) EXCEPT !.isClosed = TRUE]}

MCParams == [slotLength |-> 2, lead |-> 1, cutoff |-> 1, maxAdvance |-> 0, cancelCutoff |-> 1]

MCSymmetry == Permutations(Requests) \cup Permutations(Generators) \cup Permutations(Checkouts)
=============================================================================
