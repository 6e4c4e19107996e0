--------------------------- MODULE OrderingSafety ---------------------------
(***************************************************************************)
(* What the ordering transactions promise.  The first group holds however  *)
(* many sessions run at once; the second holds when transactions run one   *)
(* at a time; the last is said of the program, and not so.                 *)
(***************************************************************************)
EXTENDS Ordering

Sums == INSTANCE FiniteSetsExt

Placed == {o \in Orders : Exists(o)}

\* Orders whose capacity has not been given back.
Holding(k) == {o \in Orders : Exists(o) /\ Cart[o].slot = k /\ ~orders[o].released}

UnitsOf(S) == Sums!MapThenSumSet(LAMBDA o : Cart[o].units, S)

EventSet(o) == {events[o][i] : i \in 1 .. Len(events[o])}

WasPaid(o) == \E e \in EventSet(o) : e.to = "PAID"

WasCancelled(o) == \E e \in EventSet(o) : e.to = "CANCELLED"

-----------------------------------------------------------------------------
(* With any number of sessions.                                            *)

\* However checkouts, cancellations and managers' edits interleave, no counter
\* passes its limit: the two axes of a slot (BR-2.3.7, BR-2.3.9), the daily
\* countdown (BR-2.2.4) and the total cap of a promotion (BR-2.5.11).
NeverOversold ==
  /\ \A k \in Slots : /\ slots[k].orders <= slots[k].maxOrders
                      /\ slots[k].units <= slots[k].maxUnits
  /\ \A r \in StockRows : stock[r].used <= stock[r].total
  /\ \A p \in Promos : PromoCap[p] # 0 => used[p] <= PromoCap[p]

\* Capacity never leaks: a cancelled order has given its place back, and a slot
\* counts no more places than there are orders still holding one (BR-2.3.12).
\* Racing cancellations may release too much (CapacityConserved), never too
\* little.
CancelledIsReleased ==
  \A o \in Orders : orders[o].status = "CANCELLED" => orders[o].released

PlacesAreHeld ==
  \A k \in Slots : slots[k].orders <= Cardinality(Holding(k))

NoCapacityLeak == CancelledIsReleased /\ PlacesAreHeld

\* The same on the kitchen-units axis, for the daily countdown and for a
\* promotion's uses: none of these counters exceeds what the orders account for.
UsesAreHeld ==
  /\ \A k \in Slots : slots[k].units <= UnitsOf(Holding(k))
  /\ \A r \in StockRows :
       stock[r].used <= Sums!MapThenSumSet(LAMBDA o : Cart[o].qty[r], Placed)
  /\ \A p \in Promos :
       used[p] <= Cardinality({o \in Orders : /\ Cart[o].promo = p
                                              /\ orders[o].redemption = "HELD"})

\* Finance matches a transfer to one order: no two orders of a store waiting
\* for money share a kode unik, even when a stale proof upload or rejection
\* makes a closed order wait again (BR-2.6.2).
OpenCodesUnique ==
  \A o, p \in Orders :
    o # p /\ Open(o) /\ Open(p) /\ StoreOfOrder(o) = StoreOfOrder(p)
      => orders[o].code # orders[p].code

\* Nothing reaches the kitchen, the counter or a refund without a verification
\* in the order's history, whatever raced (BR-2.8.5, BR-2.4.6).
PaidBeforeKitchen ==
  \A o \in Orders :
    orders[o].status \notin Unpaid \cup {"NONE", "CANCELLED"} => WasPaid(o)

\* What a transaction has read and may still rely on when it writes, because
\* nobody else can make it untrue: a checkout's order is not there yet and is
\* nobody else's; any other order it works on exists; a released capacity stays
\* released; and whoever was told that the order may go to the kitchen, to the
\* counter or be refunded will always find the verification in its history.
Knows(s) ==
  LET w == session[s] IN
  /\ w.at # "IDLE" => w.order \in Orders
  /\ w.at \in {"QUOTED", "COUNTED"} =>
       /\ ~Exists(w.order)
       /\ \A t \in Sessions \ {s} : session[t].order # w.order
  /\ w.at \in {"CHECKED", "MOVING", "ATTACHING", "LOADED", "DECIDING"} => Exists(w.order)
  /\ w.at = "ATTACHING" => w.to = "AWAITING_VERIFICATION"
  /\ w.at = "MOVING" =>
       /\ w.to \in AdvanceTargets \cup {"CANCELLED"}
       /\ w.to \in AdvanceTargets => WasPaid(w.order)
       /\ w.released => orders[w.order].released
  /\ w.at = "DECIDING" /\ w.to = "REFUNDED" => WasPaid(w.order)

StableKnowledge == \A s \in Sessions : Knows(s)

-----------------------------------------------------------------------------
(* When transactions run one at a time.                                    *)

\* A slot's two counters are exactly what the orders holding it take
\* (BR-2.3.12: released exactly once).
CapacityConserved ==
  \A k \in Slots : /\ slots[k].orders = Cardinality(Holding(k))
                   /\ slots[k].units = UnitsOf(Holding(k))

\* The slot counters implement the ledger of bookings: a checkout succeeds only
\* where there really is room on both axes, an order takes its place once and
\* gives it back once, and a manager's limit never undercuts what is booked
\* (BR-2.3.7, BR-2.3.12, BR-2.3.16).
Ledger ==
  INSTANCE SlotLedger WITH
    SlotOf <- [o \in Orders |-> Cart[o].slot],
    Units <- [o \in Orders |-> Cart[o].units],
    limit <- [k \in Slots |-> [orders |-> slots[k].maxOrders, units |-> slots[k].maxUnits]],
    booked <- [k \in Slots |-> Holding(k)],
    gone <- {o \in Orders : orders[o].released}

SlotsAreALedger == Ledger!LSpec

\* The history reconstructs the order (BR-2.4.4): each event starts where the
\* one before ended, each is a legal transition (BR-2.4.2, BR-2.4.3), and the
\* last one led to the present state.
HistoryFaithful ==
  \A o \in Placed :
    LET h == events[o] IN
    /\ h # <<>>
    /\ h[1].from = "NONE"
    /\ \A i \in 2 .. Len(h) : /\ h[i].from = h[i - 1].to
                              /\ CanTransition(h[i].from, h[i].to)
    /\ h[Len(h)].to = orders[o].status

\* Replaying a verification never appends a second PAID event (BR-2.6.13).
PaidOnce ==
  \A o \in Orders :
    Cardinality({i \in 1 .. Len(events[o]) : events[o][i].to = "PAID"}) <= 1

\* The payment row and the order row tell the same story.
PaymentMatchesOrder ==
  \A o \in Placed :
    LET p == payments[o].status
        t == orders[o].status
    IN /\ t = "PENDING_PAYMENT" => p \in {"PENDING", "REJECTED"}
       /\ t = "AWAITING_VERIFICATION" => p = "SUBMITTED"
       /\ t \in VisibleToKitchen \cup {"PICKED_UP", "COMPLETED"} => p = "VERIFIED"
       /\ t = "REFUNDED" <=> p = "REFUNDED"

\* A payment verified for another amount than was due says who accepted that
\* (BR-2.6.7).
MismatchOnRecord ==
  \A o \in Orders :
    payments[o].status = "VERIFIED" /\ payments[o].declared # "EXACT"
      => payments[o].mismatch

\* A customer holds at most MaxUnpaid orders waiting for money (BR-2.3.15).
UnpaidWithinCap ==
  MaxUnpaid # 0 => \A c \in Customers : Cardinality(OpenOrdersOf(c)) <= MaxUnpaid

\* A promotion's counter is the number of its unreleased redemptions, and no
\* customer holds more than the cap for one customer (BR-2.5.11).
PromoConserved ==
  \A p \in Promos :
    used[p] = Cardinality({o \in Orders : /\ Cart[o].promo = p
                                          /\ orders[o].redemption = "HELD"})

PromoCustomerCap ==
  \A p \in Promos, c \in Customers :
    PromoPerCustomer[p] # 0 => Cardinality(HeldBy(c, p)) <= PromoPerCustomer[p]

\* The orders that hold a slot fit its limits on both axes (BR-2.3.7): the
\* promise behind NeverOversold's counters.
SlotsWithinLimits ==
  \A k \in Slots : /\ Cardinality(Holding(k)) <= slots[k].maxOrders
                   /\ UnitsOf(Holding(k)) <= slots[k].maxUnits

-----------------------------------------------------------------------------
(* Said by the documents of the program, and not so.  Of the group above,  *)
(* PaidOnce, MismatchOnRecord, UnpaidWithinCap and PromoCustomerCap are    *)
(* said without the premise, and not so either.                            *)

\* "CANCELLED -> (terminal)" (BR-2.4.2): a cancelled order stays cancelled.
CancelledIsTerminal ==
  \A o \in Orders : WasCancelled(o) => orders[o].status = "CANCELLED"

\* "CustomerCancellable reports whether a customer may cancel from this state at all"
\* (order.go:126-127): a customer's cancellation starts from a state it lists.
CustomerCancelsEarly ==
  \A o \in Orders : \A e \in EventSet(o) :
    e.to = "CANCELLED" /\ e.by = "customer" => e.from \in CustomerCancellable

\* Cancel the orders of a closed day, then "refund any verified payments via
\* Finance -> Refund" (docs/06, 2.1): a verified payment can be refunded.
VerifiedIsRefundable ==
  \A o \in Orders : payments[o].status = "VERIFIED"
                      => CanTransition(orders[o].status, "REFUNDED")
=============================================================================
