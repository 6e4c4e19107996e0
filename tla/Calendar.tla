------------------------------ MODULE Calendar ------------------------------
(***************************************************************************)
(* A store's calendar while it is edited: administrators change its hours, *)
(* overrides, blackouts, modes, slot length and time zone (adminsvc), the  *)
(* worker and browsing customers materialise slots from it                 *)
(* (materialiseSlots, catalogsvc.Slots), and checkouts book them           *)
(* (ordersvc.Create, SlotRepo.Reserve).                                    *)
(*                                                                         *)
(* A step is a statement, or a transaction where its statements cannot be  *)
(* told apart.  Two of them can: the DELETE and the INSERTs that replace   *)
(* the hours, or the modes, see what was committed when the DELETE began.  *)
(* Who may edit is Sessions' matter, capacity under races is Ordering's.   *)
(***************************************************************************)
EXTENDS Schedule

CONSTANTS
  Requests,        \* administrators' requests, each made once
  Checkouts,       \* customers' checkouts, each made once
  Generators,      \* the worker's passes and the customers who browse
  Dates,           \* the days of the calendar
  FirstHours,      \* the seeded store's weekly rows
  HoursInputs,     \* the weekly patterns administrators may send
  OverrideInputs,  \* the override rows they may send
  ModeInputs,      \* the sets of modes they may send
  LengthInputs,    \* the slot lengths they may set
  ZoneInputs,      \* the time zones they may send
  AskedModes,      \* the fulfilment types that customers ask for
  Params,          \* the parameters in force at the start
  MaxOrders,       \* max_orders of a new slot
  MaxNow           \* the last instant

Seed == "SEED"

\* The zone of the seeded store, and the one clock.Location falls back to.
Jakarta == 0

ASSUME CalendarInputsAssumption ==
  /\ FirstHours \subseteq HoursRow /\ HoursInputs \subseteq SUBSET HoursRow
  /\ OverrideInputs \subseteq OverrideRow(Dates) /\ ModeInputs \subseteq SUBSET Modes
  /\ AskedModes \subseteq Modes
  /\ Dates \subseteq Nat /\ LengthInputs \subseteq Nat /\ ZoneInputs \subseteq Int
  /\ Seed \notin Requests
  /\ {MaxOrders, MaxNow} \subseteq Nat

\* seedStores writes one row for a weekday and a mode.
ASSUME SeedAssumption ==
  /\ \A a, b \in FirstHours :
       (/\ a # b /\ a.weekday = b.weekday /\ a.mode = b.mode
        /\ ~a.isClosed /\ ~b.isClosed) => a.closes <= b.opens \/ b.closes <= a.opens
  /\ Params \in [slotLength : Nat, lead : Int, cutoff : Int, maxAdvance : Int,
                  cancelCutoff : Int]

VARIABLES
  isActive,    \* stores.is_active
  zone,        \* stores.timezone
  modes,       \* table store_fulfilment_modes: the mode and who wrote the row
  hours,       \* table store_hours: the row and who wrote it
  overrides,   \* table store_date_overrides
  blackouts,   \* table store_blackout_dates
  length,      \* the parameter scheduling.slot_length_minutes
  slots,       \* table slots
  now,         \* the clock
  requests,    \* where each administrator's request stands
  todo,        \* the slots each generator has yet to insert
  checkouts,   \* where each checkout stands
  orders,      \* the order each checkout has made
  asked,       \* history: what the last request to set it asked of is_active, zone,
               \* hours and modes
  crossed,     \* history: of those, the ones two overlapping requests wrote
  rescheduled  \* history: the dates whose hours, slot length or zone ever changed

store == <<isActive, zone, modes, hours, overrides, blackouts, length>>
history == <<asked, crossed, rescheduled>>

vars == <<store, slots, now, requests, todo, checkouts, orders, history>>

Group == [deliveryEnabled |-> FALSE]

\* A row of slots, without the kitchen units, which Ordering has.
SlotRow(s) ==
  [date |-> s.date, mode |-> s.mode, starts |-> s.starts, ends |-> s.ends,
   maxOrders |-> MaxOrders, reservedOrders |-> 0, maxUnits |-> MaxOrders,
   reservedUnits |-> 0, isLocked |-> FALSE]

\* The unique index of slots.
SameSlot(a, b) == a.date = b.date /\ a.mode = b.mode /\ a.starts = b.starts

\* Of a request: its step, the row it read, the rows its DELETE saw and the ones
\* it inserts, the date it closes, the orders it was told of, and whether the
\* closure was lifted since.
IdleRequest == [step |-> "IDLE", read |-> [active |-> FALSE, zone |-> Jakarta],
                seen |-> {}, rows |-> {}, date |-> 0, counted |-> {}, lifted |-> FALSE]

\* Of a checkout: its step, the slot it read, the fulfilment type it asks for and when
\* it began; the closures made since it read the schedule, and whether it read an
\* override of the date.
IdleCheckout == [step |-> "IDLE", slot |-> <<>>, mode |-> "pickup", began |-> 0,
                 missed |-> {}, reopened |-> FALSE]

NoOrder == [made |-> FALSE, live |-> FALSE, slot |-> <<>>, mode |-> "pickup",
            missed |-> {}, reopened |-> FALSE]

By(rows, q) == {[row |-> r, by |-> q] : r \in rows}

RowsOf(tagged) == {t.row : t \in tagged}

\* seedStores.
Init ==
  /\ isActive = TRUE /\ zone = Jakarta
  /\ modes = By({"pickup"}, Seed)
  /\ hours = By(FirstHours, Seed)
  /\ overrides = {} /\ blackouts = {} /\ length = Params.slotLength
  /\ slots = {} /\ now = 0
  /\ requests = [q \in Requests |-> IdleRequest]
  /\ todo = [g \in Generators |-> {}]
  /\ checkouts = [c \in Checkouts |-> IdleCheckout]
  /\ orders = [c \in Checkouts |-> NoOrder]
  /\ asked = [active |-> TRUE, zone |-> Jakarta, hours |-> hours, modes |-> modes]
  /\ crossed = {} /\ rescheduled = {}

\* Params and LoadSchedule: the store as the pure rules take it.
LoadSchedule ==
  [zone |-> zone, isActive |-> isActive, supportedModes |-> RowsOf(modes),
   weekly |-> RowsOf(hours), overrides |-> overrides, blackouts |-> blackouts,
   params |-> [Params EXCEPT !.slotLength = length]]

In(q, step) == requests[q].step = step

Done(q) == requests' = [requests EXCEPT ![q].step = "DONE"]

-----------------------------------------------------------------------------
(* Administrators.                                                         *)

\* Service.SetStoreActive.
SetStoreActive(q) ==
  /\ In(q, "IDLE")
  /\ \E active \in BOOLEAN :
       /\ isActive' = active
       /\ asked' = [asked EXCEPT !.active = active]
  /\ crossed' = crossed \ {"active"}
  /\ Done(q)
  /\ UNCHANGED <<zone, modes, hours, overrides, blackouts, length, slots, now, todo, checkouts,
                 orders, rescheduled>>

\* StoreWritePort.Update reads the row ...
ReadStore(q) ==
  /\ In(q, "IDLE")
  /\ requests' = [requests EXCEPT ![q].step = "SAVE",
                                  ![q].read = [active |-> isActive, zone |-> zone]]
  /\ UNCHANGED <<store, slots, now, todo, checkouts, orders, history>>

\* Mutant: the row is saved as the handler sends it, active.
RowToSaveSent(q) == [requests[q].read EXCEPT !.active = TRUE]

\* What the form leaves out is saved as it was read: is_active always, and the zone
\* when the one sent is empty.
RowToSave(q) == requests[q].read

\* What has been written since to those two.
Overwritten(q) ==
  {field \in {"active", "zone"} :
     requests[q].read[field] # [active |-> isActive, zone |-> zone][field]}

\* ... and StoreRepo.Update saves all of it, with the zone the form sends, if any.
SaveStore(q) ==
  /\ In(q, "SAVE")
  /\ isActive' = RowToSave(q).active
  /\ \/ /\ zone' = RowToSave(q).zone
        /\ crossed' = crossed \cup Overwritten(q)
        /\ asked' = asked
     \/ /\ zone' \in ZoneInputs
        /\ crossed' = (crossed \cup Overwritten(q)) \ {"zone"}
        /\ asked' = [asked EXCEPT !.zone = zone']
  /\ rescheduled' = IF zone' = zone THEN rescheduled ELSE Dates
  /\ Done(q)
  /\ UNCHANGED <<modes, hours, overrides, blackouts, length, slots, now, todo, checkouts,
                 orders>>

\* Service.ReplaceHours: the transaction's DELETE, which sees the rows of now.
DeleteHours(q) ==
  /\ In(q, "IDLE")
  /\ \E rows \in HoursInputs :
       requests' = [requests EXCEPT ![q].step = "INSERT_HOURS", ![q].seen = hours,
                                    ![q].rows = rows]
  /\ UNCHANGED <<store, slots, now, todo, checkouts, orders, history>>

SameHours(a, b) == a.weekday = b.weekday /\ a.mode = b.mode /\ a.index = b.index

\* Mutant: only the rows the request names again are replaced.
LeftUnnamed(table, seen, rows) ==
  {h \in table : \A r \in rows : h.row # r}

\* What a request's DELETE leaves: the rows it did not see.
Left(table, seen, rows) == table \ seen

\* The INSERTs, and the commit.  A row that another request has written meanwhile
\* collides with the unique index, and the transaction is rolled back.
InsertHours(q) ==
  LET rows == requests[q].rows
      left == Left(hours, requests[q].seen, rows)
      collides == \E h \in left, r \in rows : SameHours(h.row, r) IN
  /\ In(q, "INSERT_HOURS")
  /\ IF collides
       THEN UNCHANGED <<hours, asked, crossed, rescheduled>>
       ELSE /\ hours' = left \cup By(rows, q)
            /\ asked' = [asked EXCEPT !.hours = By(rows, q)]
            /\ crossed' = IF requests[q].seen = hours THEN crossed \ {"hours"}
                          ELSE crossed \cup {"hours"}
            /\ rescheduled' = Dates
  /\ Done(q)
  /\ UNCHANGED <<isActive, zone, modes, overrides, blackouts, length, slots, now, todo,
                 checkouts, orders>>

\* Service.SetModes, the same way.
DeleteModes(q) ==
  /\ In(q, "IDLE")
  /\ \E rows \in ModeInputs :
       requests' = [requests EXCEPT ![q].step = "INSERT_MODES", ![q].seen = modes,
                                    ![q].rows = rows]
  /\ UNCHANGED <<store, slots, now, todo, checkouts, orders, history>>

InsertModes(q) ==
  LET rows == requests[q].rows
      left == Left(modes, requests[q].seen, rows)
      collides == RowsOf(left) \cap rows # {} IN
  /\ In(q, "INSERT_MODES")
  /\ IF collides
       THEN UNCHANGED <<modes, asked, crossed>>
       ELSE /\ modes' = left \cup By(rows, q)
            /\ asked' = [asked EXCEPT !.modes = By(rows, q)]
            /\ crossed' = IF requests[q].seen = modes THEN crossed \ {"modes"}
                          ELSE crossed \cup {"modes"}
  /\ Done(q)
  /\ UNCHANGED <<isActive, zone, hours, overrides, blackouts, length, slots, now, todo,
                 checkouts, orders, rescheduled>>

SameOverride(a, b) == a.date = b.date /\ a.mode = b.mode /\ a.index = b.index

\* Service.SaveDateOverride: INSERT ... ON CONFLICT DO UPDATE.
SaveDateOverride(q) ==
  /\ In(q, "IDLE")
  /\ \E row \in OverrideInputs :
       /\ overrides' = {o \in overrides : ~SameOverride(o, row)} \cup {row}
       /\ rescheduled' = rescheduled \cup {row.date}
  /\ Done(q)
  /\ UNCHANGED <<isActive, zone, modes, hours, blackouts, length, slots, now, todo, checkouts,
                 orders, asked, crossed>>

\* Service.DeleteDateOverride.
DeleteDateOverride(q) ==
  /\ In(q, "IDLE")
  /\ \E row \in overrides :
       /\ overrides' = overrides \ {row}
       /\ rescheduled' = rescheduled \cup {row.date}
  /\ Done(q)
  /\ UNCHANGED <<isActive, zone, modes, hours, blackouts, length, slots, now, todo, checkouts,
                 orders, asked, crossed>>

\* The orders of a date that CountAffectedOrders counts.
AffectedOrders(d) == {c \in Checkouts : orders[c].live /\ orders[c].slot.date = d}

Closing(q) == requests[q].step \in {"COUNT", "TOLD"}

\* A checkout that has read the schedule does not see a closure of its date.
Miss(q, d) ==
  checkouts' = [c \in Checkouts |->
    IF checkouts[c].step = "COMMIT" /\ checkouts[c].slot.date = d
      THEN [checkouts[c] EXCEPT !.missed = @ \cup {q}] ELSE checkouts[c]]

\* Service.AddBlackout stores the closure, today's or a later day's ...
AddBlackout(q) ==
  /\ In(q, "IDLE")
  /\ \E d \in Dates :
       /\ blackouts' = blackouts \cup {d}
       /\ requests' = [requests EXCEPT ![q].step = "COUNT", ![q].date = d]
       /\ Miss(q, d)
  /\ UNCHANGED <<isActive, zone, modes, hours, overrides, length, slots, now, todo, orders,
                 history>>

\* ... and then counts the orders it touches, and says how many.
CountAffected(q) ==
  /\ In(q, "COUNT")
  /\ requests' = [requests EXCEPT ![q].step = "TOLD", ![q].counted = AffectedOrders(requests[q].date)]
  /\ UNCHANGED <<store, slots, now, todo, checkouts, orders, history>>

\* Service.RemoveBlackout.
RemoveBlackout(q) ==
  /\ In(q, "IDLE")
  /\ \E d \in blackouts :
       /\ blackouts' = blackouts \ {d}
       /\ requests' = [r \in Requests |->
            IF r = q THEN [requests[r] EXCEPT !.step = "DONE"]
            ELSE IF Closing(r) /\ requests[r].date = d
              THEN [requests[r] EXCEPT !.lifted = TRUE] ELSE requests[r]]
  /\ UNCHANGED <<isActive, zone, modes, hours, overrides, length, slots, now, todo, checkouts,
                 orders, history>>

\* Service.SetStoreParameter, of the slot length.
SetSlotLength(q) ==
  /\ In(q, "IDLE")
  /\ \E n \in LengthInputs : length' = n
  /\ rescheduled' = Dates
  /\ Done(q)
  /\ UNCHANGED <<isActive, zone, modes, hours, overrides, blackouts, slots, now, todo, checkouts,
                 orders, asked, crossed>>

Administer(q) ==
  \/ SetStoreActive(q) \/ ReadStore(q) \/ SaveStore(q)
  \/ DeleteHours(q) \/ InsertHours(q) \/ DeleteModes(q) \/ InsertModes(q)
  \/ SaveDateOverride(q) \/ DeleteDateOverride(q)
  \/ AddBlackout(q) \/ CountAffected(q) \/ RemoveBlackout(q)
  \/ SetSlotLength(q)

-----------------------------------------------------------------------------
(* Slots are cut from the schedule as it was read.                         *)

Offered(s) == {m \in s.supportedModes : m = "delivery" => Group.deliveryEnabled}

\* The days of the rolling window.
Window ==
  {d \in Dates : DateOf(now, zone) <= d /\ d <= DateOf(now, zone) + Params.maxAdvance}

\* materialiseSlots, of an active store.
LoadForWindow(g) ==
  /\ todo[g] = {}
  /\ isActive
  /\ todo' = [todo EXCEPT ![g] =
       UNION {Generate(LoadSchedule, d, m) : d \in Window, m \in Offered(LoadSchedule)}]
  /\ UNCHANGED <<store, slots, now, requests, checkouts, orders, history>>

\* catalogsvc.Slots, of a date that is bookable.
LoadForDate(g) ==
  /\ todo[g] = {}
  /\ \E d \in Dates, m \in Modes :
       /\ DateBookable(LoadSchedule, Group, d, m, now) = "OK"
       /\ todo' = [todo EXCEPT ![g] = Generate(LoadSchedule, d, m)]
  /\ UNCHANGED <<store, slots, now, requests, checkouts, orders, history>>

\* SlotRepo.Materialise: ON CONFLICT DO NOTHING.
Materialise(g) ==
  /\ \E s \in todo[g] :
       /\ slots' = IF \E old \in slots : SameSlot(old, s) THEN slots
                   ELSE slots \cup {SlotRow(s)}
       /\ todo' = [todo EXCEPT ![g] = @ \ {s}]
  /\ UNCHANGED <<store, now, requests, checkouts, orders, history>>

\* The process dies, or a statement fails: the rest of the pass is given up.
GiveUp(g) ==
  /\ todo[g] # {}
  /\ todo' = [todo EXCEPT ![g] = {}]
  /\ UNCHANGED <<store, slots, now, requests, checkouts, orders, history>>

Offer(g) == LoadForWindow(g) \/ LoadForDate(g) \/ Materialise(g) \/ GiveUp(g)

-----------------------------------------------------------------------------
(* Checkouts.                                                              *)

Cart == [units |-> 1, itemLead |-> 0, itemBlocked |-> FALSE]

\* ordersvc.Create reads the slot ...
ReadSlot(c) ==
  /\ checkouts[c].step = "IDLE"
  /\ \E s \in slots, m \in AskedModes :
       checkouts' = [checkouts EXCEPT ![c] =
         [IdleCheckout EXCEPT !.step = "SCHEDULE", !.slot = s, !.mode = m, !.began = now]]
  /\ UNCHANGED <<store, slots, now, requests, todo, orders, history>>

\* ... then the schedule, and judges by both and by the time it began.  The slot's
\* mode is judged; the fulfilment type asked for is only written to the order.
ReadSchedule(c) ==
  LET slot == checkouts[c].slot
      reason == Bookable(LoadSchedule, Group, slot, Cart, checkouts[c].began) IN
  /\ checkouts[c].step = "SCHEDULE"
  /\ checkouts' = [checkouts EXCEPT ![c] =
       IF reason # "OK" THEN [IdleCheckout EXCEPT !.step = "REFUSED"]
       ELSE [@ EXCEPT !.step = "COMMIT",
                      !.reopened = OverridesOf(LoadSchedule, slot.date, slot.mode) # {}]]
  /\ UNCHANGED <<store, slots, now, requests, todo, orders, history>>

\* SlotRepo.Reserve, on the row as it is by then.
Reserve(s) == [s EXCEPT !.reservedOrders = @ + 1, !.reservedUnits = @ + 1]

HasRoom(s) ==
  ~s.isLocked /\ s.reservedOrders + 1 <= s.maxOrders /\ s.reservedUnits + 1 <= s.maxUnits

\* OrderRepo.Create, and its commit.
Commit(c) ==
  /\ checkouts[c].step = "COMMIT"
  /\ \E s \in slots :
       /\ SameSlot(s, checkouts[c].slot)
       /\ IF HasRoom(s)
            THEN /\ slots' = (slots \ {s}) \cup {Reserve(s)}
                 /\ orders' = [orders EXCEPT ![c] =
                      [made |-> TRUE, live |-> TRUE, slot |-> checkouts[c].slot,
                       mode |-> checkouts[c].mode, missed |-> checkouts[c].missed,
                       reopened |-> checkouts[c].reopened]]
            ELSE UNCHANGED <<slots, orders>>
  /\ checkouts' = [checkouts EXCEPT ![c] = [IdleCheckout EXCEPT !.step = "DONE"]]
  /\ UNCHANGED <<store, now, requests, todo, history>>

Release(s) == [s EXCEPT !.reservedOrders = NonNegative(@ - 1),
                        !.reservedUnits = NonNegative(@ - 1)]

\* The order is cancelled, by whoever may.
Cancel(c) ==
  /\ orders[c].live
  /\ orders' = [orders EXCEPT ![c].live = FALSE]
  /\ slots' = {IF SameSlot(s, orders[c].slot) THEN Release(s) ELSE s : s \in slots}
  /\ UNCHANGED <<store, now, requests, todo, checkouts, history>>

Book(c) == ReadSlot(c) \/ ReadSchedule(c) \/ Commit(c) \/ Cancel(c)

Tick ==
  /\ now < MaxNow
  /\ now' = now + 1
  /\ UNCHANGED <<store, slots, requests, todo, checkouts, orders, history>>

Next ==
  \/ \E q \in Requests : Administer(q)
  \/ \E g \in Generators : Offer(g)
  \/ \E c \in Checkouts : Book(c)
  \/ Tick

Spec == Init /\ [][Next]_vars

-----------------------------------------------------------------------------
\* A manager who closes a date is told of every order that stays on it, but for
\* those whose checkout had read the schedule before the closure was stored and
\* those let in by an override or after the closure was lifted: no order slips in
\* between the closure and its count (AddBlackout, CountAffectedOrders).
ClosuresAreCounted ==
  \A q \in Requests, c \in Checkouts :
    (/\ requests[q].step = "TOLD" /\ ~requests[q].lifted
     /\ orders[c].live /\ orders[c].slot.date = requests[q].date
     /\ c \notin requests[q].counted)
      => q \in orders[c].missed \/ orders[c].reopened

Overlap(a, b) == a.starts < b.ends /\ b.starts < a.ends

\* While a date's hours, its slot length and the store's time zone stay what they were,
\* no two slots of one mode share a minute, whoever cut them, how often and however late:
\* a window is sold once (Generate, Materialise and their stale reads of the schedule).
\* An edit of any of the three, or a saved row that puts back the zone it read, leaves
\* old slots beside the new, shifted ones: nothing removes a slot.  The seeded rows of a
\* weekday do not overlap: nothing in the code asks that of later ones.
WindowsSoldOnce ==
  \A a, b \in slots :
    (a.date = b.date /\ a.mode = b.mode /\ a.date \notin rescheduled /\ a # b)
      => ~Overlap(a, b)

\* What an administrator set last is what is in force, for is_active, the time zone, the
\* hours and the modes: an edit is undone, or mixed with another, by none but an edit that it
\* overlapped in time (UpdateStore, SetStoreActive, ReplaceHours, ReplaceModes).
LastEditStands ==
  /\ "active" \in crossed \/ isActive = asked.active
  /\ "zone" \in crossed \/ zone = asked.zone
  /\ "hours" \in crossed \/ hours = asked.hours
  /\ "modes" \in crossed \/ modes = asked.modes

-----------------------------------------------------------------------------
\* The hours in force are those of one request, never a mixture of two, as
\* StoreRepo.ReplaceHours says of its transaction.
HoursOfOneRequest == \A a, b \in hours : a.by = b.by

\* "Prevents: two rows counting the same physical window" (BR-2.3.4): no two slots of a
\* mode share a minute, whatever was edited meanwhile.
OneRowPerWindow ==
  \A a, b \in slots : a.mode = b.mode /\ a # b => ~Overlap(a, b)

\* No order is made once its date is closed, unless an override reopens it
\* (BR-2.1.7).
NoOrderAfterClosure ==
  \A c \in Checkouts : orders[c].made => orders[c].missed = {} \/ orders[c].reopened

\* While delivery is disabled for the group no delivery is ordered (BR-2.1.3).
DeliveryIsRefused ==
  \A c \in Checkouts :
    orders[c].made /\ orders[c].mode = "delivery" => Group.deliveryEnabled
=============================================================================
