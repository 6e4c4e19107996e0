--------------------------- MODULE CalendarProofs ---------------------------
(***************************************************************************)
(* What Calendar promises, for any number of administrators, customers and *)
(* generators, any hours and any number of days.                           *)
(***************************************************************************)
EXTENDS Calendar, TLAPS

\* What the steps update are records.
Shaped ==
  /\ DOMAIN requests = Requests
  /\ \A q \in Requests : DOMAIN requests[q] = {"step", "read", "seen", "rows", "date", "counted",
                                               "lifted"}
  /\ DOMAIN checkouts = Checkouts
  /\ \A c \in Checkouts : DOMAIN checkouts[c] = {"step", "slot", "mode", "began", "missed",
                                                 "reopened"}
  /\ DOMAIN orders = Checkouts
  /\ \A c \in Checkouts : DOMAIN orders[c] = {"made", "live", "slot", "mode", "missed", "reopened"}
  /\ DOMAIN asked = {"active", "zone", "hours", "modes"}

LEMMA InitShaped == Init => Shaped
  BY DEF Init, Shaped, IdleRequest, IdleCheckout, NoOrder

LEMMA StepShaped == Shaped /\ [Next]_vars => Shaped'
<1> SUFFICES ASSUME Shaped, [Next]_vars PROVE Shaped'
  OBVIOUS
<1> USE DEF Shaped
<1>1. ASSUME NEW q \in Requests, Administer(q) PROVE Shaped'
  <2>1. CASE SetStoreActive(q) \/ ReadStore(q) \/ SaveStore(q)
    BY <2>1 DEF SetStoreActive, ReadStore, SaveStore, Done, history
  <2>2. CASE DeleteHours(q) \/ InsertHours(q)
    BY <2>2 DEF DeleteHours, InsertHours, Done, history
  <2>3. CASE DeleteModes(q) \/ InsertModes(q)
    BY <2>3 DEF DeleteModes, InsertModes, Done, history
  <2>4. CASE SaveDateOverride(q) \/ DeleteDateOverride(q) \/ SetSlotLength(q)
    BY <2>4 DEF SaveDateOverride, DeleteDateOverride, SetSlotLength, Done
  <2>5. CASE AddBlackout(q)
    BY <2>5 DEF AddBlackout, Miss, history
  <2>6. CASE CountAffected(q)
    BY <2>6 DEF CountAffected, history
  <2>7. CASE RemoveBlackout(q)
    BY <2>7 DEF RemoveBlackout, history
  <2> QED BY <1>1, <2>1, <2>2, <2>3, <2>4, <2>5, <2>6, <2>7 DEF Administer
<1>2. ASSUME NEW g \in Generators, Offer(g) PROVE Shaped'
  BY <1>2 DEF Offer, LoadForWindow, LoadForDate, Materialise, GiveUp, history
<1>3. ASSUME NEW c \in Checkouts, Book(c) PROVE Shaped'
  <2>1. CASE ReadSlot(c)
    BY <2>1 DEF ReadSlot, IdleCheckout, history
  <2>2. CASE ReadSchedule(c)
    BY <2>2 DEF ReadSchedule, IdleCheckout, history
  <2>3. CASE Commit(c)
    BY <2>3 DEF Commit, IdleCheckout, history
  <2>4. CASE Cancel(c)
    BY <2>4 DEF Cancel, history
  <2> QED BY <1>3, <2>1, <2>2, <2>3, <2>4 DEF Book
<1>4. CASE Tick \/ UNCHANGED vars
  BY <1>4 DEF Tick, vars, history
<1> QED BY <1>1, <1>2, <1>3, <1>4 DEF Next

-----------------------------------------------------------------------------
(* Edits.                                                                  *)

InvEdits == Shaped /\ LastEditStands

LEMMA StepEdits == InvEdits /\ [Next]_vars => InvEdits'
<1> SUFFICES ASSUME InvEdits, [Next]_vars PROVE LastEditStands'
  BY StepShaped DEF InvEdits
<1> USE DEF InvEdits, LastEditStands, Shaped
<1>1. ASSUME NEW q \in Requests, Administer(q) PROVE LastEditStands'
  <2>1. CASE SetStoreActive(q)
    BY <2>1 DEF SetStoreActive
  <2>2. CASE SaveStore(q)
    <3>1. isActive' = requests[q].read["active"] /\ UNCHANGED <<hours, modes>>
      BY <2>2 DEF SaveStore, RowToSave
    <3>2. CASE zone' = requests[q].read["zone"] /\ asked' = asked
                /\ crossed' = crossed \cup Overwritten(q)
      BY <3>1, <3>2 DEF Overwritten
    <3>3. CASE /\ crossed' = (crossed \cup Overwritten(q)) \ {"zone"}
               /\ asked' = [asked EXCEPT !.zone = zone']
      BY <3>1, <3>3 DEF Overwritten
    <3> QED BY <2>2, <3>2, <3>3 DEF SaveStore, RowToSave
  <2>3. CASE InsertHours(q)
    BY <2>3 DEF InsertHours, Left
  <2>4. CASE InsertModes(q)
    <3>1. \/ UNCHANGED <<modes, asked, crossed>>
          \/ /\ modes' = (modes \ requests[q].seen) \cup By(requests[q].rows, q)
             /\ asked' = [asked EXCEPT !.modes = By(requests[q].rows, q)]
             /\ crossed' = IF requests[q].seen = modes THEN crossed \ {"modes"}
                           ELSE crossed \cup {"modes"}
      BY <2>4 DEF InsertModes, Left
    <3>2. UNCHANGED <<isActive, zone, hours>>
      BY <2>4 DEF InsertModes
    <3>3. CASE UNCHANGED <<modes, asked, crossed>>
      BY <3>2, <3>3
    <3>4. CASE requests[q].seen # modes
      BY <3>1, <3>2, <3>4
    <3>5. CASE requests[q].seen = modes
      <4>1. modes' = By(requests[q].rows, q) \/ UNCHANGED <<modes, asked, crossed>>
        BY <3>1, <3>5
      <4> QED BY <3>1, <3>2, <3>3, <4>1
    <3> QED BY <3>1, <3>3, <3>4, <3>5
  <2>5. CASE ReadStore(q) \/ DeleteHours(q) \/ DeleteModes(q) \/ CountAffected(q)
    BY <2>5 DEF ReadStore, DeleteHours, DeleteModes, CountAffected, store, history
  <2>6. CASE SaveDateOverride(q) \/ DeleteDateOverride(q) \/ SetSlotLength(q)
             \/ AddBlackout(q) \/ RemoveBlackout(q)
    BY <2>6 DEF SaveDateOverride, DeleteDateOverride, SetSlotLength, AddBlackout,
       RemoveBlackout, history
  <2> QED BY <1>1, <2>1, <2>2, <2>3, <2>4, <2>5, <2>6 DEF Administer
<1>2. ASSUME NEW g \in Generators, Offer(g) PROVE LastEditStands'
  BY <1>2 DEF Offer, LoadForWindow, LoadForDate, Materialise, GiveUp, store, history
<1>3. ASSUME NEW c \in Checkouts, Book(c) PROVE LastEditStands'
  BY <1>3 DEF Book, ReadSlot, ReadSchedule, Commit, Cancel, store, history
<1>4. CASE Tick \/ UNCHANGED vars
  BY <1>4 DEF Tick, vars, store, history
<1> QED BY <1>1, <1>2, <1>3, <1>4 DEF Next

\* What was set last is in force, but for what an edit that overlapped it in time undid.
THEOREM EditsStand == Spec => []LastEditStands
<1>1. Init => InvEdits
  BY InitShaped DEF Init, InvEdits, LastEditStands
<1>2. InvEdits => LastEditStands
  BY DEF InvEdits
<1> QED BY <1>1, <1>2, StepEdits, PTL DEF Spec

-----------------------------------------------------------------------------
(* Closures.                                                               *)

\* A closure is in force until it is lifted.
ClosedUntilLifted ==
  \A q \in Requests :
    Closing(q) /\ ~requests[q].lifted => requests[q].date \in blackouts

\* A checkout that will commit on a closed date read the schedule before the closure
\* or an override that reopens it.
CommitsKnowClosures ==
  \A q \in Requests, c \in Checkouts :
    (/\ Closing(q) /\ ~requests[q].lifted
     /\ checkouts[c].step = "COMMIT" /\ checkouts[c].slot.date = requests[q].date)
      => q \in checkouts[c].missed \/ checkouts[c].reopened

InvClosures == Shaped /\ ClosedUntilLifted /\ CommitsKnowClosures /\ ClosuresAreCounted

\* Bookable of a closed date says OK only where an override reopens it.
LEMMA ClosedIsRefused ==
  ASSUME NEW s, NEW g, NEW slot, NEW req, NEW t, slot.date \in s.blackouts,
         Bookable(s, g, slot, req, t) = "OK"
  PROVE  OverridesOf(s, slot.date, slot.mode) # {}
<1>1. EffectiveBlocks(s, slot.date, slot.mode).reason = "OK"
  BY DEF Bookable
<1> QED BY <1>1 DEF EffectiveBlocks

LEMMA StepClosures == InvClosures /\ [Next]_vars => InvClosures'
<1> SUFFICES ASSUME InvClosures, [Next]_vars
             PROVE  ClosedUntilLifted' /\ CommitsKnowClosures' /\ ClosuresAreCounted'
  BY StepShaped DEF InvClosures
<1> USE DEF InvClosures, Shaped, ClosedUntilLifted, CommitsKnowClosures, ClosuresAreCounted,
        Closing
<1>1. ASSUME NEW q \in Requests,
             \/ /\ UNCHANGED <<blackouts, checkouts, orders>>
                /\ \E step \in {"DONE", "SAVE", "INSERT_HOURS", "INSERT_MODES"} :
                     requests'[q].step = step
                /\ \A r \in Requests \ {q} : requests'[r] = requests[r]
      PROVE  ClosedUntilLifted' /\ CommitsKnowClosures' /\ ClosuresAreCounted'
  BY <1>1
<1>2. ASSUME NEW q \in Requests, AddBlackout(q)
      PROVE  ClosedUntilLifted' /\ CommitsKnowClosures' /\ ClosuresAreCounted'
  BY <1>2 DEF AddBlackout, Miss, In
<1>3. ASSUME NEW q \in Requests, CountAffected(q)
      PROVE  ClosedUntilLifted' /\ CommitsKnowClosures' /\ ClosuresAreCounted'
  <2>1. UNCHANGED <<blackouts, checkouts, orders>>
    BY <1>3 DEF CountAffected, store
  <2>2. /\ requests'[q].date = requests[q].date /\ requests'[q].lifted = requests[q].lifted
        /\ requests'[q].counted = AffectedOrders(requests[q].date)
        /\ requests[q].step = "COUNT" /\ requests'[q].step = "TOLD"
        /\ \A r \in Requests \ {q} : requests'[r] = requests[r]
    BY <1>3 DEF CountAffected, In
  <2> QED BY <2>1, <2>2 DEF AffectedOrders
<1>4. ASSUME NEW q \in Requests, RemoveBlackout(q)
      PROVE  ClosedUntilLifted' /\ CommitsKnowClosures' /\ ClosuresAreCounted'
  BY <1>4 DEF RemoveBlackout, In
<1>5. ASSUME NEW q \in Requests, Administer(q)
      PROVE  ClosedUntilLifted' /\ CommitsKnowClosures' /\ ClosuresAreCounted'
  <2>1. CASE SetStoreActive(q) \/ ReadStore(q) \/ SaveStore(q)
    BY <1>1, <2>1 DEF SetStoreActive, ReadStore, SaveStore, Done, store
  <2>2. CASE DeleteHours(q) \/ InsertHours(q)
    BY <1>1, <2>2 DEF DeleteHours, InsertHours, Done, store
  <2>3. CASE DeleteModes(q) \/ InsertModes(q)
    BY <1>1, <2>3 DEF DeleteModes, InsertModes, Done, store
  <2>4. CASE SaveDateOverride(q) \/ DeleteDateOverride(q) \/ SetSlotLength(q)
    BY <1>1, <2>4 DEF SaveDateOverride, DeleteDateOverride, SetSlotLength, Done
  <2> QED BY <1>2, <1>3, <1>4, <1>5, <2>1, <2>2, <2>3, <2>4 DEF Administer
<1>6. ASSUME NEW g \in Generators, Offer(g)
      PROVE  ClosedUntilLifted' /\ CommitsKnowClosures' /\ ClosuresAreCounted'
  BY <1>6 DEF Offer, LoadForWindow, LoadForDate, Materialise, GiveUp, store
<1>7. ASSUME NEW c \in Checkouts, ReadSlot(c)
      PROVE  ClosedUntilLifted' /\ CommitsKnowClosures' /\ ClosuresAreCounted'
  BY <1>7 DEF ReadSlot, IdleCheckout, store
<1>8. ASSUME NEW c \in Checkouts, ReadSchedule(c)
      PROVE  ClosedUntilLifted' /\ CommitsKnowClosures' /\ ClosuresAreCounted'
  <2> DEFINE slot == checkouts[c].slot
  <2>1. UNCHANGED <<blackouts, requests, orders>>
        /\ \A d \in Checkouts \ {c} : checkouts'[d] = checkouts[d]
    BY <1>8 DEF ReadSchedule, store
  <2>2. ASSUME checkouts'[c].step = "COMMIT"
        PROVE  /\ checkouts'[c].slot = slot
               /\ slot.date \in blackouts => checkouts'[c].reopened
    <3>1. Bookable(LoadSchedule, Group, slot, Cart, checkouts[c].began) = "OK"
          /\ checkouts'[c].slot = slot
          /\ checkouts'[c].reopened = (OverridesOf(LoadSchedule, slot.date, slot.mode) # {})
      BY <1>8, <2>2 DEF ReadSchedule, IdleCheckout
    <3>2. LoadSchedule.blackouts = blackouts
      BY DEF LoadSchedule
    <3>3. slot.date \in blackouts => OverridesOf(LoadSchedule, slot.date, slot.mode) # {}
      BY <3>1, <3>2, ClosedIsRefused
    <3> QED BY <3>1, <3>3
  <2> QED BY <2>1, <2>2
<1>9. ASSUME NEW c \in Checkouts, Commit(c)
      PROVE  ClosedUntilLifted' /\ CommitsKnowClosures' /\ ClosuresAreCounted'
  <2>1. UNCHANGED <<blackouts, requests>> /\ checkouts'[c].step = "DONE"
        /\ checkouts[c].step = "COMMIT"
        /\ \A d \in Checkouts \ {c} : checkouts'[d] = checkouts[d] /\ orders'[d] = orders[d]
    BY <1>9 DEF Commit, store, IdleCheckout
  <2>2. \/ orders'[c] = orders[c]
        \/ /\ orders'[c].slot = checkouts[c].slot /\ orders'[c].missed = checkouts[c].missed
           /\ orders'[c].reopened = checkouts[c].reopened
    BY <1>9 DEF Commit
  <2> QED BY <2>1, <2>2
<1>10. ASSUME NEW c \in Checkouts, Cancel(c)
       PROVE  ClosedUntilLifted' /\ CommitsKnowClosures' /\ ClosuresAreCounted'
  BY <1>10 DEF Cancel, store
<1>11. CASE Tick \/ UNCHANGED vars
  BY <1>11 DEF Tick, vars, store
<1> QED BY <1>5, <1>6, <1>7, <1>8, <1>9, <1>10, <1>11 DEF Next, Book

\* A manager who closes a date is told of every order that stays on it, but for those of
\* checkouts in flight, those an override let in and those after the closure was lifted.
THEOREM ClosuresCountOrders == Spec => []ClosuresAreCounted
<1>1. Init => InvClosures
  BY InitShaped DEF Init, InvClosures, ClosedUntilLifted, CommitsKnowClosures,
     ClosuresAreCounted, Closing, IdleRequest, IdleCheckout
<1>2. InvClosures => ClosuresAreCounted
  BY DEF InvClosures
<1> QED BY <1>1, <1>2, StepClosures, PTL DEF Spec

-----------------------------------------------------------------------------
(* Windows.                                                                *)

\* The slot s is one of those that the seeded hours are cut into.
OnGrid(s) ==
  \E h \in FirstHours, k \in Nat :
    /\ h.mode = s.mode /\ h.weekday = Weekday(s.date) /\ ~h.isClosed
    /\ h.opens + (k + 1) * Params.slotLength <= h.closes
    /\ s.starts = TimeAt(s.date, h.opens + k * Params.slotLength, Jakarta)
    /\ s.ends = TimeAt(s.date, h.opens + (k + 1) * Params.slotLength, Jakarta)

\* A slot of a date whose hours, slot length and zone are still the seeded ones is on
\* their grid, stored or yet to be stored.
Planned(s) == s.date \in Dates /\ (s.date \notin rescheduled => OnGrid(s))

SlotFields == {"date", "mode", "starts", "ends", "maxOrders", "reservedOrders", "maxUnits",
               "reservedUnits", "isLocked"}

\* What governs such a date has not been edited.
Unedited ==
  /\ (\E d \in Dates : d \notin rescheduled)
       => hours = By(FirstHours, Seed) /\ length = Params.slotLength /\ zone = Jakarta
  /\ \A o \in overrides : o.date \in Dates \cap rescheduled

InvWindows ==
  /\ Shaped
  /\ DOMAIN todo = Generators
  /\ Unedited
  /\ \A g \in Generators : \A s \in todo[g] : Planned(s)
  /\ \A s \in slots : DOMAIN s = SlotFields /\ Planned(s)
  /\ \A a, b \in slots : SameSlot(a, b) => a = b

LEMMA LengthsApart ==
  ASSUME NEW i \in Nat, NEW j \in Nat, NEW n \in Nat, i < j
  PROVE  (i + 1) * n <= j * n /\ i * n \in Nat /\ j * n \in Nat /\ (i + 1) * n \in Nat
<1>1. PICK m \in Nat : j = i + 1 + m
  <2>1. j - (i + 1) \in Nat /\ j = i + 1 + (j - (i + 1))
    OBVIOUS
  <2> QED BY <2>1
<1>2. j * n = (i + 1) * n + m * n
  BY <1>1
<1>3. m * n \in Nat /\ i * n \in Nat /\ j * n \in Nat /\ (i + 1) * n \in Nat
  OBVIOUS
<1> HIDE <1>1
<1> QED BY <1>2, <1>3

\* Two slots of the grid that begin at different times do not overlap.
LEMMA GridApart ==
  ASSUME NEW a, NEW b, OnGrid(a), OnGrid(b), a.date = b.date, a.date \in Dates,
         a.mode = b.mode, a.starts # b.starts
  PROVE  ~Overlap(a, b)
<1> DEFINE n == Params.slotLength
<1>1. PICK h \in FirstHours, i \in Nat :
        /\ h.mode = a.mode /\ h.weekday = Weekday(a.date) /\ ~h.isClosed
        /\ h.opens + (i + 1) * n <= h.closes
        /\ a.starts = TimeAt(a.date, h.opens + i * n, Jakarta)
        /\ a.ends = TimeAt(a.date, h.opens + (i + 1) * n, Jakarta)
  BY DEF OnGrid
<1>2. PICK r \in FirstHours, j \in Nat :
        /\ r.mode = b.mode /\ r.weekday = Weekday(b.date) /\ ~r.isClosed
        /\ r.opens + (j + 1) * n <= r.closes
        /\ b.starts = TimeAt(b.date, r.opens + j * n, Jakarta)
        /\ b.ends = TimeAt(b.date, r.opens + (j + 1) * n, Jakarta)
  BY DEF OnGrid
<1>3. n \in Nat
  BY SeedAssumption
<1>4. /\ h.opens \in Nat /\ h.closes \in Nat /\ r.opens \in Nat /\ r.closes \in Nat
  BY CalendarInputsAssumption, CalendarAssumption DEF HoursRow, TimeOfDay
<1>5. PICK base \in Nat : base = a.date * DayLength
  <2>1. a.date \in Nat /\ DayLength \in Nat
    BY CalendarInputsAssumption, CalendarAssumption
  <2>2. \A x, y \in Nat : x * y \in Nat
    OBVIOUS
  <2> QED BY <2>1, <2>2
<1> HIDE DEF n
<1>6. PICK p \in Nat, q \in Nat, u \in Nat, v \in Nat :
        p = i * n /\ q = (i + 1) * n /\ u = j * n /\ v = (j + 1) * n
  <2>1. \A x, y \in Nat : x * y \in Nat /\ (x + 1) * y \in Nat
    OBVIOUS
  <2> QED BY <1>3, <2>1
<1>7. /\ a.starts = base + (h.opens + p) /\ a.ends = base + (h.opens + q)
      /\ b.starts = base + (r.opens + u) /\ b.ends = base + (r.opens + v)
      /\ h.opens + q <= h.closes /\ r.opens + v <= r.closes
  BY <1>1, <1>2, <1>4, <1>5, <1>6 DEF TimeAt, Jakarta
<1>8. CASE h = r
  <2>1. i # j
    BY <1>6, <1>7, <1>8
  <2>2. CASE i < j
    <3>1. q <= u
      BY <1>3, <1>6, <2>2, LengthsApart
    <3> QED BY <1>4, <1>7, <1>8, <3>1 DEF Overlap
  <2>3. CASE j < i
    <3>1. v <= p
      BY <1>3, <1>6, <2>3, LengthsApart
    <3> QED BY <1>4, <1>7, <1>8, <3>1 DEF Overlap
  <2> QED BY <2>1, <2>2, <2>3
<1>9. CASE h # r
  <2>1. h.closes <= r.opens \/ r.closes <= h.opens
    BY <1>1, <1>2, <1>9, SeedAssumption
  <2> QED BY <1>4, <1>7, <2>1 DEF Overlap
<1> QED BY <1>8, <1>9

LEMMA SeededRows == ASSUME NEW F, NEW q PROVE RowsOf(By(F, q)) = F
<1>1. \A r \in F : [row |-> r, by |-> q] \in By(F, q) /\ [row |-> r, by |-> q].row = r
  BY DEF By
<1>2. \A r \in F : r \in RowsOf(By(F, q))
  BY <1>1 DEF RowsOf
<1>3. \A r \in RowsOf(By(F, q)) : r \in F
  BY DEF RowsOf, By
<1> QED BY <1>2, <1>3

\* What is cut from the schedule as it is now is planned.
LEMMA GeneratedIsPlanned ==
  ASSUME Unedited, NEW d \in Dates, NEW m, NEW s \in Generate(LoadSchedule, d, m)
  PROVE  Planned(s)
<1> DEFINE schedule == LoadSchedule
           rows == WeeklyOf(schedule, d, m)
           n == schedule.params.slotLength
<1>1. PICK b \in EffectiveBlocks(schedule, d, m).blocks : s \in Cut(d, m, b, n, schedule.zone)
  BY DEF Generate
<1>2. PICK k \in Nat :
        /\ b.opens + (k + 1) * n <= b.closes
        /\ s = [date |-> d, mode |-> m, starts |-> TimeAt(d, b.opens + k * n, schedule.zone),
                ends |-> TimeAt(d, b.opens + (k + 1) * n, schedule.zone)]
  BY <1>1, CalendarAssumption DEF Cut
<1>3. s.date = d /\ s.mode = m
  BY <1>2
<1>4. ASSUME d \notin rescheduled PROVE OnGrid(s)
  <2>1. OverridesOf(schedule, d, m) = {}
    BY <1>4 DEF Unedited, OverridesOf, LoadSchedule
  <2>2. b \in BlocksOf(rows).blocks
    BY <1>1, <2>1 DEF EffectiveBlocks
  <2>3. PICK h \in rows : ~h.isClosed /\ b = [opens |-> h.opens, closes |-> h.closes]
    BY <2>2 DEF BlocksOf, Blocks
  <2>4. hours = By(FirstHours, Seed) /\ length = Params.slotLength /\ zone = Jakarta
    BY <1>4 DEF Unedited
  <2>5. schedule.weekly = FirstHours
    <3>1. schedule.weekly = RowsOf(By(FirstHours, Seed))
      BY <2>4 DEF LoadSchedule
    <3>2. RowsOf(By(FirstHours, Seed)) = FirstHours
      BY SeededRows
    <3> QED BY <3>1, <3>2
  <2>6. h \in FirstHours /\ h.mode = m /\ h.weekday = Weekday(d)
    BY <2>3, <2>5 DEF WeeklyOf
  <2>7. n = Params.slotLength
    <3>1. schedule.params = [Params EXCEPT !.slotLength = Params.slotLength]
      BY <2>4 DEF LoadSchedule
    <3> QED BY <3>1, SeedAssumption
  <2>8. schedule.zone = Jakarta
    BY <2>4 DEF LoadSchedule
  <2> QED BY <1>2, <2>3, <2>6, <2>7, <2>8 DEF OnGrid
<1> QED BY <1>3, <1>4 DEF Planned

\* An edit only takes dates away from the seeded grid.
LEMMA EditKeepsWindows ==
  ASSUME InvWindows, UNCHANGED <<slots, todo>>, Shaped', Unedited',
         rescheduled \subseteq rescheduled' \/ rescheduled' = Dates
  PROVE  InvWindows'
<1>1. ASSUME NEW s, Planned(s) PROVE Planned(s)'
  BY <1>1 DEF Planned, OnGrid
<1>2. /\ DOMAIN todo' = Generators
      /\ \A g \in Generators : \A s \in todo'[g] : Planned(s)
      /\ \A s \in slots' : DOMAIN s = SlotFields /\ Planned(s)
      /\ \A a, b \in slots' : SameSlot(a, b) => a = b
  BY DEF InvWindows
<1> QED BY <1>1, <1>2 DEF InvWindows

LEMMA AdministerWindows ==
  ASSUME InvWindows, Shaped', NEW q \in Requests, Administer(q)
  PROVE  InvWindows'
<1>1. UNCHANGED <<slots, todo>>
  BY DEF Administer, SetStoreActive, ReadStore, SaveStore, DeleteHours, InsertHours,
     DeleteModes, InsertModes, SaveDateOverride, DeleteDateOverride, AddBlackout,
     CountAffected, RemoveBlackout, SetSlotLength
<1>2. Unedited
  BY DEF InvWindows
<1>3. CASE UNCHANGED <<zone, hours, length, overrides, rescheduled>>
  <2>1. Unedited'
    BY <1>2, <1>3 DEF Unedited
  <2> QED BY <1>1, <1>3, <2>1, EditKeepsWindows
<1>4. CASE InsertHours(q) \/ SetSlotLength(q) \/ SaveStore(q)
  <2>1. \/ UNCHANGED <<zone, hours, length, overrides, rescheduled>>
        \/ rescheduled' = Dates /\ overrides' = overrides
    BY <1>4 DEF InsertHours, SetSlotLength, SaveStore
  <2>2. ASSUME rescheduled' = Dates, overrides' = overrides PROVE Unedited'
    <3>1. \A o \in overrides : o.date \in Dates
      BY <1>2 DEF Unedited
    <3> QED BY <2>2, <3>1 DEF Unedited
  <2> QED BY <1>1, <1>3, <2>1, <2>2, EditKeepsWindows
<1>5. CASE SaveDateOverride(q) \/ DeleteDateOverride(q)
  <2>1. PICK row : /\ rescheduled' = rescheduled \cup {row.date}
                   /\ overrides' \subseteq overrides \cup {row}
                   /\ row.date \in Dates
    <3>1. \A row \in OverrideInputs \cup overrides : row.date \in Dates
      BY <1>2, CalendarInputsAssumption DEF Unedited, OverrideRow
    <3> QED BY <1>5, <3>1 DEF SaveDateOverride, DeleteDateOverride
  <2>2. UNCHANGED <<zone, hours, length>>
    BY <1>5 DEF SaveDateOverride, DeleteDateOverride
  <2>3. Unedited'
    BY <1>2, <2>1, <2>2 DEF Unedited
  <2> QED BY <1>1, <2>1, <2>3, EditKeepsWindows
<1>6. CASE \/ SetStoreActive(q) \/ ReadStore(q) \/ DeleteHours(q)
           \/ DeleteModes(q) \/ InsertModes(q) \/ AddBlackout(q) \/ CountAffected(q)
           \/ RemoveBlackout(q)
  <2>1. UNCHANGED <<zone, hours, length, overrides, rescheduled>>
    BY <1>6 DEF SetStoreActive, ReadStore, DeleteHours, DeleteModes, InsertModes,
       AddBlackout, CountAffected, RemoveBlackout, store, history
  <2> QED BY <1>3, <2>1
<1> QED BY <1>4, <1>5, <1>6 DEF Administer

\* Steps that leave the schedule alone.
LEMMA ScheduleStands ==
  ASSUME InvWindows, Shaped', UNCHANGED <<store, rescheduled>>,
         DOMAIN todo' = Generators,
         \A g \in Generators : \A s \in todo'[g] : Planned(s),
         \A s \in slots' : DOMAIN s = SlotFields /\ Planned(s),
         \A a, b \in slots' : SameSlot(a, b) => a = b
  PROVE  InvWindows'
<1>1. Unedited'
  BY DEF InvWindows, Unedited, store
<1>2. ASSUME NEW s, Planned(s) PROVE Planned(s)'
  BY <1>2 DEF Planned, OnGrid
<1> QED BY <1>1, <1>2 DEF InvWindows

LEMMA OfferWindows ==
  ASSUME InvWindows, Shaped', NEW g \in Generators, Offer(g)
  PROVE  InvWindows'
<1>1. UNCHANGED <<store, rescheduled>>
  BY DEF Offer, LoadForWindow, LoadForDate, Materialise, GiveUp, history
<1>2. /\ DOMAIN todo = Generators /\ Unedited
      /\ \A r \in Generators : \A s \in todo[r] : Planned(s)
      /\ \A s \in slots : DOMAIN s = SlotFields /\ Planned(s)
      /\ \A a, b \in slots : SameSlot(a, b) => a = b
  BY DEF InvWindows
<1>3. ASSUME NEW T, todo' = [todo EXCEPT ![g] = T], \A s \in T : Planned(s)
      PROVE  /\ DOMAIN todo' = Generators
             /\ \A r \in Generators : \A s \in todo'[r] : Planned(s)
  BY <1>2, <1>3
<1>4. CASE LoadForWindow(g)
  <2> DEFINE T == UNION {Generate(LoadSchedule, d, m) : d \in Window, m \in Offered(LoadSchedule)}
  <2>1. \A s \in T : Planned(s)
    <3>1. Window \subseteq Dates
      BY DEF Window
    <3> QED BY <1>2, <3>1, GeneratedIsPlanned
  <2>2. todo' = [todo EXCEPT ![g] = T] /\ slots' = slots
    BY <1>4 DEF LoadForWindow
  <2> HIDE DEF T
  <2> QED BY <1>1, <1>2, <1>3, <2>1, <2>2, ScheduleStands
<1>5. CASE LoadForDate(g)
  <2>1. PICK d \in Dates, m \in Modes : todo' = [todo EXCEPT ![g] = Generate(LoadSchedule, d, m)]
    BY <1>5 DEF LoadForDate
  <2>2. \A s \in Generate(LoadSchedule, d, m) : Planned(s)
    BY <1>2, GeneratedIsPlanned
  <2>3. slots' = slots
    BY <1>5 DEF LoadForDate
  <2> QED BY <1>1, <1>2, <1>3, <2>1, <2>2, <2>3, ScheduleStands
<1>6. CASE Materialise(g)
  <2>1. PICK s \in todo[g] :
          /\ slots' = IF \E old \in slots : SameSlot(old, s) THEN slots
                      ELSE slots \cup {SlotRow(s)}
          /\ todo' = [todo EXCEPT ![g] = @ \ {s}]
    BY <1>6 DEF Materialise
  <2>2. /\ DOMAIN todo' = Generators
        /\ \A r \in Generators : \A x \in todo'[r] : Planned(x)
    BY <1>2, <2>1
  <2>3. DOMAIN SlotRow(s) = SlotFields /\ Planned(SlotRow(s))
    BY <1>2 DEF SlotRow, SlotFields, Planned, OnGrid
  <2>4. \A x : SameSlot(x, SlotRow(s)) \/ SameSlot(SlotRow(s), x) => SameSlot(x, s)
    BY DEF SameSlot, SlotRow
  <2>5. /\ \A x \in slots' : DOMAIN x = SlotFields /\ Planned(x)
        /\ \A a, b \in slots' : SameSlot(a, b) => a = b
    BY <1>2, <2>1, <2>3, <2>4
  <2> QED BY <1>1, <2>2, <2>5, ScheduleStands
<1>7. CASE GiveUp(g)
  BY <1>1, <1>2, <1>3, <1>7, ScheduleStands DEF GiveUp
<1> QED BY <1>4, <1>5, <1>6, <1>7 DEF Offer

\* Reserving and releasing leave a slot the place and time it has.
LEMMA CountsOnly ==
  ASSUME NEW s, DOMAIN s = SlotFields
  PROVE  \A r \in {Reserve(s), Release(s)} :
           /\ DOMAIN r = SlotFields
           /\ r.date = s.date /\ r.mode = s.mode /\ r.starts = s.starts /\ r.ends = s.ends
BY DEF SlotFields, Reserve, Release

LEMMA BookWindows ==
  ASSUME InvWindows, Shaped', NEW c \in Checkouts, Book(c)
  PROVE  InvWindows'
<1>1. UNCHANGED <<store, rescheduled, todo>>
  BY DEF Book, ReadSlot, ReadSchedule, Commit, Cancel, history
<1>2. /\ DOMAIN todo = Generators
      /\ \A r \in Generators : \A s \in todo[r] : Planned(s)
      /\ \A s \in slots : DOMAIN s = SlotFields /\ Planned(s)
      /\ \A a, b \in slots : SameSlot(a, b) => a = b
  BY DEF InvWindows
<1>3. CASE slots' = slots
  BY <1>1, <1>2, <1>3, ScheduleStands
<1>4. ASSUME NEW s \in slots, slots' = (slots \ {s}) \cup {Reserve(s)} PROVE InvWindows'
  <2>1. PICK r : r = Reserve(s)
    OBVIOUS
  <2>2. /\ DOMAIN r = SlotFields
        /\ r.date = s.date /\ r.mode = s.mode /\ r.starts = s.starts /\ r.ends = s.ends
    BY <1>2, <2>1, CountsOnly
  <2>3. Planned(r)
    BY <1>2, <2>2 DEF Planned, OnGrid
  <2>4. \A x \in slots : SameSlot(x, r) \/ SameSlot(r, x) => x = s
    BY <1>2, <2>2 DEF SameSlot
  <2>5. /\ \A x \in slots' : DOMAIN x = SlotFields /\ Planned(x)
        /\ \A a, b \in slots' : SameSlot(a, b) => a = b
    BY <1>2, <1>4, <2>1, <2>2, <2>3, <2>4
  <2> QED BY <1>1, <1>2, <2>5, ScheduleStands
<1>5. CASE Commit(c)
  BY <1>3, <1>4, <1>5 DEF Commit
<1>6. CASE Cancel(c)
  <2>1. slots' = {IF SameSlot(s, orders[c].slot) THEN Release(s) ELSE s : s \in slots}
    BY <1>6 DEF Cancel
  <2>2. \A x \in slots' : \E s \in slots :
          /\ x = IF SameSlot(s, orders[c].slot) THEN Release(s) ELSE s
          /\ DOMAIN x = SlotFields
          /\ x.date = s.date /\ x.mode = s.mode /\ x.starts = s.starts /\ x.ends = s.ends
    BY <1>2, <2>1, CountsOnly
  <2>3. \A x \in slots' : DOMAIN x = SlotFields /\ Planned(x)
    BY <1>2, <2>2 DEF Planned, OnGrid
  <2>4. \A a, b \in slots' : SameSlot(a, b) => a = b
    BY <1>2, <2>2 DEF SameSlot
  <2> QED BY <1>1, <1>2, <2>3, <2>4, ScheduleStands
<1>7. CASE ReadSlot(c) \/ ReadSchedule(c)
  BY <1>3, <1>7 DEF ReadSlot, ReadSchedule
<1> QED BY <1>5, <1>6, <1>7 DEF Book

LEMMA StepWindows == InvWindows /\ [Next]_vars => InvWindows'
<1> SUFFICES ASSUME InvWindows, [Next]_vars PROVE InvWindows'
  OBVIOUS
<1>1. Shaped'
  BY StepShaped DEF InvWindows
<1>2. CASE Tick \/ UNCHANGED vars
  <2>1. UNCHANGED <<store, rescheduled, todo, slots>>
    BY <1>2 DEF Tick, vars, history
  <2> QED BY <1>1, <2>1, ScheduleStands DEF InvWindows
<1> QED BY <1>1, <1>2, AdministerWindows, OfferWindows, BookWindows DEF Next

\* A window of a date whose hours, slot length and time zone never changed is sold once:
\* no two of its slots share a minute, whoever cut them and however stale the schedule
\* they read (Generate, Materialise).
THEOREM WindowsStandApart == Spec => []WindowsSoldOnce
<1>1. Init => InvWindows
  BY InitShaped DEF Init, InvWindows, Unedited
<1>2. InvWindows => WindowsSoldOnce
  <2> SUFFICES ASSUME InvWindows, NEW a \in slots, NEW b \in slots, a.date = b.date,
                      a.mode = b.mode, a.date \notin rescheduled, a # b
               PROVE  ~Overlap(a, b)
    BY DEF WindowsSoldOnce
  <2>1. a.starts # b.starts /\ OnGrid(a) /\ OnGrid(b) /\ a.date \in Dates
    BY DEF InvWindows, Planned, SameSlot
  <2> QED BY <2>1, GridApart
<1> QED BY <1>1, <1>2, StepWindows, PTL DEF Spec
=============================================================================
