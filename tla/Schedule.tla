------------------------------ MODULE Schedule ------------------------------
(***************************************************************************)
(* What a store is open for and which slots can be booked:                 *)
(* src/internal/domain/schedule/schedule.go, which is pure.  A time of day *)
(* is a number of ticks below DayLength.  A zone (clock.Location) is the   *)
(* ticks it is ahead of Jakarta, in which instant 0 is the first midnight. *)
(* Zones have no summer time: local time and instants advance together.    *)
(***************************************************************************)
EXTENDS Integers, FiniteSets

CONSTANTS
  DayLength,   \* ticks of a day
  WeekLength   \* weekdays told apart

ASSUME CalendarAssumption == DayLength \in Nat \ {0} /\ WeekLength \in Nat \ {0}

Modes == {"pickup", "delivery"}

TimeOfDay == 0 .. DayLength

DateOf(t, zone) == (t + zone) \div DayLength

\* Date.Time: the instant at which it is that time of that date in the zone.
TimeAt(d, time, zone) == d * DayLength + time - zone

Weekday(d) == d % WeekLength

\* A row of the weekly pattern or of a date's override.  Of a closed row the
\* times are NULL: nothing reads them.
HoursRow ==
  {r \in [weekday: 0 .. WeekLength - 1, mode: Modes, index: {0, 1}, isClosed: BOOLEAN,
          opens: TimeOfDay, closes: TimeOfDay] : r.isClosed \/ r.opens < r.closes}

OverrideRow(Dates) ==
  {r \in [date: Dates, mode: Modes, index: {0, 1}, isClosed: BOOLEAN,
          opens: TimeOfDay, closes: TimeOfDay] : r.isClosed \/ r.opens < r.closes}

-----------------------------------------------------------------------------
\* A store is a record of zone, isActive, supportedModes, weekly, overrides,
\* blackouts and params; a group is a record of deliveryEnabled.

ModeAllowed(s, g, mode) ==
  IF mode = "delivery" /\ ~g.deliveryEnabled THEN "MODE_DISABLED"
  ELSE IF mode \notin s.supportedModes THEN "MODE_UNSUPPORTED" ELSE "OK"

Blocks(rows) == {[opens |-> r.opens, closes |-> r.closes] : r \in rows}

\* One closed row closes the date or the weekday whatever its other rows say.
BlocksOf(rows) ==
  IF rows = {} \/ \E r \in rows : r.isClosed
    THEN [blocks |-> {}, reason |-> "CLOSED"]
    ELSE [blocks |-> Blocks(rows), reason |-> "OK"]

OverridesOf(s, d, mode) == {o \in s.overrides : o.mode = mode /\ o.date = d}

WeeklyOf(s, d, mode) == {h \in s.weekly : h.mode = mode /\ h.weekday = Weekday(d)}

\* Mutant: the blackout is looked at only when the weekday is closed.
EffectiveBlocksLate(s, d, mode) ==
  IF OverridesOf(s, d, mode) # {} THEN BlocksOf(OverridesOf(s, d, mode))
  ELSE IF d \in s.blackouts /\ WeeklyOf(s, d, mode) = {}
    THEN [blocks |-> {}, reason |-> "BLACKOUT"]
  ELSE BlocksOf(WeeklyOf(s, d, mode))

\* A date's override before a blackout before the weekday's pattern.
EffectiveBlocks(s, d, mode) ==
  IF OverridesOf(s, d, mode) # {} THEN BlocksOf(OverridesOf(s, d, mode))
  ELSE IF d \in s.blackouts THEN [blocks |-> {}, reason |-> "BLACKOUT"]
  ELSE BlocksOf(WeeklyOf(s, d, mode))

DateBookable(s, g, d, mode, now) ==
  IF ~s.isActive THEN "STORE_INACTIVE"
  ELSE IF ModeAllowed(s, g, mode) # "OK" THEN ModeAllowed(s, g, mode)
  ELSE IF d < DateOf(now, s.zone) THEN "PAST"
  ELSE IF d > DateOf(now, s.zone) + s.params.maxAdvance THEN "BEYOND_ADVANCE"
  ELSE EffectiveBlocks(s, d, mode).reason

-----------------------------------------------------------------------------
\* The slots cut out of a block from its opening on; a remainder shorter than a
\* slot is discarded.
Cut(d, mode, block, length, zone) ==
  {[date |-> d, mode |-> mode, starts |-> TimeAt(d, block.opens + k * length, zone),
    ends |-> TimeAt(d, block.opens + (k + 1) * length, zone)] :
     k \in {j \in 0 .. DayLength : block.opens + (j + 1) * length <= block.closes}}

\* Mutant: slots start at every tick of the block.
GenerateDense(s, d, mode) ==
  {[date |-> d, mode |-> mode, starts |-> TimeAt(d, t, s.zone),
    ends |-> TimeAt(d, t + s.params.slotLength, s.zone)] : t \in
      {t \in TimeOfDay : \E b \in EffectiveBlocks(s, d, mode).blocks :
          b.opens <= t /\ t + s.params.slotLength <= b.closes}}

Generate(s, d, mode) ==
  IF s.params.slotLength <= 0 THEN {}
  ELSE UNION {Cut(d, mode, b, s.params.slotLength, s.zone) :
                b \in EffectiveBlocks(s, d, mode).blocks}

-----------------------------------------------------------------------------
NonNegative(n) == IF n < 0 THEN 0 ELSE n

RemainingOrders(slot) == NonNegative(slot.maxOrders - slot.reservedOrders)

RemainingKitchenUnits(slot) == NonNegative(slot.maxUnits - slot.reservedUnits)

\* The stricter of the store's and the cart's lead time.
Lead(s, req) == IF req.itemLead > s.params.lead THEN req.itemLead ELSE s.params.lead

\* Every gate in the order a human would explain them; the first that fails is
\* the answer.  That the slot lies within the blocks is not among them.
Bookable(s, g, slot, req, now) ==
  IF ~s.isActive THEN "STORE_INACTIVE"
  ELSE IF ModeAllowed(s, g, slot.mode) # "OK" THEN ModeAllowed(s, g, slot.mode)
  ELSE IF EffectiveBlocks(s, slot.date, slot.mode).reason # "OK"
    THEN EffectiveBlocks(s, slot.date, slot.mode).reason
  ELSE IF slot.isLocked THEN "SLOT_LOCKED"
  ELSE IF slot.starts <= now THEN "PAST"
  ELSE IF now + Lead(s, req) > slot.starts THEN "LEAD_TIME"
  ELSE IF now > slot.starts - s.params.cutoff THEN "CUTOFF"
  ELSE IF req.itemBlocked THEN "ITEM_CONSTRAINT"
  ELSE IF RemainingOrders(slot) < 1 \/ req.units > RemainingKitchenUnits(slot) THEN "FULL"
  ELSE IF DateOf(now, s.zone) + s.params.maxAdvance < slot.date THEN "BEYOND_ADVANCE"
  ELSE "OK"

AlmostFull(slot) ==
  slot.maxOrders > 0 /\ RemainingOrders(slot) > 0 /\ RemainingOrders(slot) * 4 <= slot.maxOrders

CancellableByCustomer(s, starts, now) == now < starts - s.params.cancelCutoff
=============================================================================
