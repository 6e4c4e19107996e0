------------------------------ MODULE Ordering ------------------------------
(***************************************************************************)
(* The transactions that move an order, its payment, its slot's capacity,  *)
(* the daily stock and a promotion's use together: OrderRepo, PaymentRepo, *)
(* SlotRepo and the steps the services take before calling them.           *)
(*                                                                         *)
(* PostgreSQL runs them at READ COMMITTED.  A transaction therefore is, in *)
(* the order the code has them, one step for each committed read it later  *)
(* relies on and one step for its writes: the writes stay invisible until  *)
(* commit, the conditions written in SQL are evaluated on the current row  *)
(* under its lock, and the conditions written in Go on what was read.  A   *)
(* service call that reads before it opens the transaction has a step for  *)
(* that read too.  A request refused by a guard changes nothing; a         *)
(* transaction may also roll back at any point (Abort).                    *)
(***************************************************************************)
EXTENDS Integers, FiniteSets, Sequences, OrderStatus, PaymentRules

CONSTANTS
  Sessions,          \* database connections serving requests
  Orders,            \* order identifiers: one per checkout attempt
  Customers,
  Slots,
  Stores,
  StockRows,         \* (store, item, date) rows of item_daily_stock
  Promos,
  NoPromo,           \* orders.promotion_id IS NULL
  NoOrder,           \* an idle session works on no order
  Codes,             \* the kode unik values, 1 .. 999 in the source
  StoreOf,           \* StoreOf[k] is the store slot k belongs to
  Cart,              \* Cart[o] is what order o asks for; immutable (BR-2.4.8)
  Capacities,        \* the slot limits managers set, those raised to what is booked too
  StockTotals,       \* the daily totals managers enter
  Amounts,           \* what customers declare, against what is due
  MaxUnpaid,         \* orders.max_unpaid_per_customer; 0 is no limit
  PromoCap,          \* usage_cap_total of a promotion; 0 is no limit
  PromoPerCustomer,  \* usage_cap_per_customer; 0 is no limit
  MaxEvents          \* MaxEvents[o] bounds the history of o, for model checking

CartType == [customer : Customers, slot : Slots, units : Nat,
             qty : [StockRows -> Nat], promo : Promos \cup {NoPromo}]

ASSUME CartAssumption == Cart \in [Orders -> CartType]
ASSUME StoreAssumption == StoreOf \in [Slots -> Stores]
ASSUME LimitAssumption ==
  /\ Capacities \subseteq [orders : Nat, units : Nat]
  /\ StockTotals \subseteq Nat
  /\ Amounts \subseteq Declared \ {"NONE"}
  /\ MaxUnpaid \in Nat
  /\ PromoCap \in [Promos -> Nat]
  /\ PromoPerCustomer \in [Promos -> Nat]
  /\ MaxEvents \in [Orders -> Nat]
ASSUME NullAssumption == NoPromo \notin Promos /\ NoOrder \notin Orders
ASSUME FiniteAssumption == IsFiniteSet(Orders)

VARIABLES
  slots,      \* table slots
  stock,      \* table item_daily_stock
  used,       \* promotions.used_count
  orders,     \* table orders, with the redemption row of each order
  payments,   \* table payments: one row per order
  events,     \* table order_events, in commit order
  session     \* what each connection has read and is about to write

vars == <<slots, stock, used, orders, payments, events, session>>
tables == <<slots, stock, used, orders, payments, events>>

-----------------------------------------------------------------------------
(* The rows.                                                               *)

Slot == [present : BOOLEAN, locked : BOOLEAN, maxOrders : Nat, maxUnits : Nat,
         orders : Nat, units : Nat]

Stock == [counted : BOOLEAN, total : Nat, used : Nat]

Order == [status : Status \cup {"NONE"}, code : Codes \cup {0},
          released : BOOLEAN, redemption : {"NONE", "HELD", "RELEASED"}]

Event == [from : Status \cup {"NONE"}, to : Status,
          by : {"customer", "staff", "system"}]

Work == [at : {"IDLE", "QUOTED", "COUNTED", "CHECKED", "MOVING", "ATTACHING",
               "LOADED", "DECIDING"},
         order : Orders \cup {NoOrder},
         to : Status \cup {"NONE"},
         by : {"customer", "staff", "system"},
         status : Status \cup {"NONE"},
         released : BOOLEAN,
         payment : Payment]

Idle == [at |-> "IDLE", order |-> NoOrder, to |-> "NONE", by |-> "system",
         status |-> "NONE", released |-> FALSE, payment |-> NewPayment]

AbsentSlot == [present |-> FALSE, locked |-> FALSE, maxOrders |-> 0,
               maxUnits |-> 0, orders |-> 0, units |-> 0]

NoRow == [status |-> "NONE", code |-> 0, released |-> FALSE, redemption |-> "NONE"]

TypeOK ==
  /\ slots \in [Slots -> Slot]
  /\ stock \in [StockRows -> Stock]
  /\ used \in [Promos -> Nat]
  /\ orders \in [Orders -> Order]
  /\ payments \in [Orders -> Payment]
  /\ events \in [Orders -> Seq(Event)]
  /\ session \in [Sessions -> Work]

Init ==
  /\ slots = [k \in Slots |-> AbsentSlot]
  /\ stock = [r \in StockRows |-> [counted |-> FALSE, total |-> 0, used |-> 0]]
  /\ used = [p \in Promos |-> 0]
  /\ orders = [o \in Orders |-> NoRow]
  /\ payments = [o \in Orders |-> NewPayment]
  /\ events = [o \in Orders |-> <<>>]
  /\ session = [s \in Sessions |-> Idle]

-----------------------------------------------------------------------------
(* What the statements read.                                               *)

Exists(o) == orders[o].status # "NONE"

Open(o) == orders[o].status \in Unpaid

StoreOfOrder(o) == StoreOf[Cart[o].slot]

OpenOrdersOf(c) == {o \in Orders : Cart[o].customer = c /\ Open(o)}

HeldBy(c, p) == {o \in Orders : /\ Cart[o].customer = c
                                /\ Cart[o].promo = p
                                /\ orders[o].redemption = "HELD"}

\* Mutant: the index forgets the orders awaiting verification.
CodeFreePending(o, c) ==
  \A p \in Orders \ {o} :
    orders[p].status = "PENDING_PAYMENT" /\ StoreOfOrder(p) = StoreOfOrder(o)
      => orders[p].code # c

\* The partial unique index on (store_id, unique_code) would accept order o
\* with code c among the open orders.
CodeFree(o, c) ==
  \A p \in Orders \ {o} : Open(p) /\ StoreOfOrder(p) = StoreOfOrder(o)
                            => orders[p].code # c

\* Mutant: the kitchen-units axis is not looked at.
FitsOrders(k, n) == ~slots[k].locked /\ slots[k].orders + 1 <= slots[k].maxOrders

Fits(k, n) == /\ ~slots[k].locked
              /\ slots[k].orders + 1 <= slots[k].maxOrders
              /\ slots[k].units + n <= slots[k].maxUnits

StockFits(o) ==
  \A r \in StockRows : stock[r].counted
                         => stock[r].used + Cart[o].qty[r] <= stock[r].total

\* Mutant: the customer's cap is off by one.
PromoAppliesOnceMore(o) ==
  LET p == Cart[o].promo IN
  p # NoPromo =>
    /\ PromoCap[p] = 0 \/ used[p] < PromoCap[p]
    /\ \/ PromoPerCustomer[p] = 0
       \/ Cardinality(HeldBy(Cart[o].customer, p)) <= PromoPerCustomer[p]

\* EvaluatePromotion's two caps, on the counts PromoRepo.ByCode read.
PromoApplies(o) ==
  LET p == Cart[o].promo IN
  p # NoPromo =>
    /\ PromoCap[p] = 0 \/ used[p] < PromoCap[p]
    /\ \/ PromoPerCustomer[p] = 0
       \/ Cardinality(HeldBy(Cart[o].customer, p)) < PromoPerCustomer[p]

\* Mutant: GREATEST(..., 0) is left out.
NoFloor(n) == n

Floor(n) == IF n < 0 THEN 0 ELSE n

\* SlotRepo.Reserve, once Fits has held, and SlotRepo.Release.
Reserve(k, n) == [slots EXCEPT ![k].orders = @ + 1, ![k].units = @ + n]

\* Mutant: the place is given back, its kitchen units are not.
ReleasePlace(k, n) == [slots EXCEPT ![k].orders = Floor(@ - 1)]

Release(k, n) == [slots EXCEPT ![k].orders = Floor(@ - 1), ![k].units = Floor(@ - n)]

\* Mutant: a cancelled order keeps its use of the promotion.
CountUseOnce(p, n) ==
  [q \in Promos |-> IF q = p /\ n > 0 THEN used[q] + n ELSE used[q]]

\* The promotion's counter moves by n.
CountUse(p, n) == [q \in Promos |-> IF q = p THEN Floor(used[q] + n) ELSE used[q]]

Record(o, e) == /\ Len(events[o]) + Len(e) <= MaxEvents[o]
                /\ events' = [events EXCEPT ![o] = @ \o e]

Begin(s, w) == /\ session[s] = Idle
               /\ session' = [session EXCEPT ![s] = w]
               /\ UNCHANGED tables

Continue(s, w) == /\ session' = [session EXCEPT ![s] = w]
                  /\ UNCHANGED tables

Finish(s) == session' = [session EXCEPT ![s] = Idle]

-----------------------------------------------------------------------------
(* Slots and stock, maintained by the worker and the managers.             *)

\* Materialise inserts a missing slot row with the limits in force, and leaves
\* an existing one alone (ON CONFLICT DO NOTHING).
Materialise(k) ==
  /\ ~slots[k].present
  /\ \E m \in Capacities :
       slots' = [slots EXCEPT ![k] =
                   [AbsentSlot EXCEPT !.present = TRUE, !.maxOrders = m.orders,
                                      !.maxUnits = m.units]]
  /\ UNCHANGED <<stock, used, orders, payments, events, session>>

\* SetCapacity clamps the wanted limits to the reservations it read without a
\* lock; the table's CHECKs then refuse a limit below the current ones.  Every
\* limit the CHECKs accept can be the outcome, whatever was read.
SetCapacity(k) ==
  /\ slots[k].present
  /\ \E m \in Capacities :
       /\ slots[k].orders <= m.orders
       /\ slots[k].units <= m.units
       /\ slots' = [slots EXCEPT ![k].maxOrders = m.orders, ![k].maxUnits = m.units]
  /\ UNCHANGED <<stock, used, orders, payments, events, session>>

SetLocked(k) ==
  /\ slots[k].present
  /\ \E locked \in BOOLEAN : slots' = [slots EXCEPT ![k].locked = locked]
  /\ UNCHANGED <<stock, used, orders, payments, events, session>>

\* An upsert that never lowers the total below what is sold.
SetDailyStock(r) ==
  /\ \E total \in StockTotals :
       stock' = [stock EXCEPT ![r].counted = TRUE,
                              ![r].total = IF total < stock[r].used
                                             THEN stock[r].used ELSE total]
  /\ UNCHANGED <<slots, used, orders, payments, events, session>>

-----------------------------------------------------------------------------
(* Checkout: ordersvc.Create, then OrderRepo.Create.                       *)

\* The cart is priced and the slot judged on what the tables show now, before
\* the transaction opens.
Quote(s, o) ==
  /\ ~Exists(o)
  /\ \A t \in Sessions : session[t].order # o
  /\ slots[Cart[o].slot].present
  /\ Fits(Cart[o].slot, Cart[o].units)
  /\ \A r \in StockRows : Cart[o].qty[r] > 0 /\ stock[r].counted
                            => stock[r].used < stock[r].total
  /\ PromoApplies(o)
  /\ Begin(s, [Idle EXCEPT !.at = "QUOTED", !.order = o, !.by = "customer"])

\* Mutant: only PENDING_PAYMENT orders count, as BR-2.3.15 puts it.
CountPending(s) ==
  LET c == Cart[session[s].order].customer IN
  /\ session[s].at = "QUOTED"
  /\ \/ MaxUnpaid = 0
     \/ Cardinality({o \in OpenOrdersOf(c) : orders[o].status = "PENDING_PAYMENT"})
          < MaxUnpaid
  /\ Continue(s, [session[s] EXCEPT !.at = "COUNTED"])

\* The transaction opens and counts the customer's unpaid orders, taking no
\* lock on them.
CountUnpaid(s) ==
  LET c == Cart[session[s].order].customer IN
  /\ session[s].at = "QUOTED"
  /\ MaxUnpaid = 0 \/ Cardinality(OpenOrdersOf(c)) < MaxUnpaid
  /\ Continue(s, [session[s] EXCEPT !.at = "COUNTED"])

\* Its writes, in one commit: reserve the slot, count the stock, insert the
\* order under a free kode unik, its payment, its first event and its
\* redemption.
Create(s) ==
  LET o == session[s].order
      k == Cart[o].slot
      p == Cart[o].promo
  IN
  /\ session[s].at = "COUNTED"
  /\ Fits(k, Cart[o].units)
  /\ StockFits(o)
  /\ p # NoPromo => PromoCap[p] = 0 \/ used[p] + 1 <= PromoCap[p]
  /\ \E c \in Codes :
       /\ CodeFree(o, c)
       /\ orders' = [orders EXCEPT ![o] =
                       [status |-> "PENDING_PAYMENT", code |-> c, released |-> FALSE,
                        redemption |-> IF p = NoPromo THEN "NONE" ELSE "HELD"]]
  /\ slots' = Reserve(k, Cart[o].units)
  /\ stock' = [r \in StockRows |->
                 IF stock[r].counted
                   THEN [stock[r] EXCEPT !.used = @ + Cart[o].qty[r]] ELSE stock[r]]
  /\ used' = CountUse(p, 1)
  /\ payments' = [payments EXCEPT ![o] = NewPayment]
  /\ Record(o, <<[from |-> "NONE", to |-> "PENDING_PAYMENT", by |-> "customer"]>>)
  /\ Finish(s)

-----------------------------------------------------------------------------
(* Moving an order: OrderRepo.Transition, called by the customer's and the *)
(* staff's cancellation and by the kitchen and the counter.                *)

\* What the Transition transaction keeps of the row it reads without a lock.
Move(o, to, by) ==
  [Idle EXCEPT !.at = "MOVING", !.order = o, !.to = to, !.by = by,
               !.status = orders[o].status, !.released = orders[o].released]

\* ordersvc.Cancel judges the customer's right to cancel on a first read.
CheckCancel(s, o) ==
  /\ orders[o].status \in CustomerCancellable
  /\ Begin(s, [Idle EXCEPT !.at = "CHECKED", !.order = o, !.to = "CANCELLED",
                           !.by = "customer"])

CustomerRead(s) ==
  LET o == session[s].order IN
  /\ session[s].at = "CHECKED"
  /\ CanTransition(orders[o].status, "CANCELLED")
  /\ Continue(s, Move(o, "CANCELLED", "customer"))

\* Mutant: the state machine is not consulted.
StaffReadAny(s, o) ==
  \E to \in AdvanceTargets \cup {"CANCELLED"} :
    /\ Exists(o)
    /\ Begin(s, Move(o, to, "staff"))

StaffRead(s, o) ==
  \E to \in AdvanceTargets \cup {"CANCELLED"} :
    /\ CanTransition(orders[o].status, to)
    /\ Begin(s, Move(o, to, "staff"))

\* Mutant: only a customer's cancellation gives the capacity back.
ReleasesByCustomer(w) == w.to = "CANCELLED" /\ ~w.released /\ w.by = "customer"

\* The row read says this cancellation has the capacity to give back.
Releases(w) == w.to = "CANCELLED" /\ ~w.released

\* A redemption not yet released is released.
Returned(redemption) == IF redemption = "HELD" THEN "RELEASED" ELSE redemption

\* The UPDATE names the order alone, not the status that was read.
WriteMove(s) ==
  LET w == session[s] IN
  /\ w.at = "MOVING"
  /\ ~Releases(w)
  /\ orders' = [orders EXCEPT ![w.order].status = w.to]
  /\ Record(w.order, <<[from |-> w.status, to |-> w.to, by |-> w.by]>>)
  /\ Finish(s)
  /\ UNCHANGED <<slots, stock, used, payments>>

WriteCancel(s) ==
  LET w == session[s]
      o == w.order
  IN
  /\ w.at = "MOVING"
  /\ Releases(w)
  /\ orders' = [orders EXCEPT ![o] =
                  [status |-> w.to, code |-> orders[o].code, released |-> TRUE,
                   redemption |-> Returned(orders[o].redemption)]]
  /\ slots' = Release(Cart[o].slot, Cart[o].units)
  /\ used' = CountUse(Cart[o].promo, -1)
  /\ Record(o, <<[from |-> w.status, to |-> w.to, by |-> w.by]>>)
  /\ Finish(s)
  /\ UNCHANGED <<stock, payments>>

-----------------------------------------------------------------------------
(* Paying: PaymentRepo.                                                    *)

\* Mutant: a proof is taken whatever the order's state.
ReadForProofAny(s, o) ==
  /\ Exists(o)
  /\ Begin(s, [Idle EXCEPT !.at = "ATTACHING", !.order = o, !.by = "customer",
                           !.to = "AWAITING_VERIFICATION",
                           !.status = orders[o].status])

ReadForProof(s, o) ==
  /\ orders[o].status = "PENDING_PAYMENT"
  /\ Begin(s, [Idle EXCEPT !.at = "ATTACHING", !.order = o, !.by = "customer",
                           !.to = "AWAITING_VERIFICATION",
                           !.status = orders[o].status])

\* The upload, stating an amount.  The UPDATE keeps or puts the order among the
\* open ones, so the kode unik index has its say.
AttachProof(s) ==
  LET w == session[s] IN
  /\ w.at = "ATTACHING"
  /\ CodeFree(w.order, orders[w.order].code)
  /\ \E declared \in Amounts :
       payments' = [payments EXCEPT ![w.order].status = "SUBMITTED",
                                    ![w.order].declared = declared]
  /\ orders' = [orders EXCEPT ![w.order].status = w.to]
  /\ Record(w.order, <<[from |-> w.status, to |-> w.to, by |-> "customer"]>>)
  /\ Finish(s)
  /\ UNCHANGED <<slots, stock, used>>

\* The order state each finance decision leads to, and the rule it must pass.
MayDecide(to, p) == \/ to = "PAID" /\ MayVerify(p)
                    \/ to = "PENDING_PAYMENT" /\ MayReject(p)
                    \/ to = "REFUNDED" /\ MayRefund(p)

\* loadForDecision reads the payment and then, in a second statement that sees
\* whatever has been committed meanwhile, its order.
LoadPayment(s, o) ==
  \E to \in {"PAID", "PENDING_PAYMENT", "REFUNDED"} :
    /\ Exists(o)
    /\ MayDecide(to, payments[o])
    /\ Begin(s, [Idle EXCEPT !.at = "LOADED", !.order = o, !.to = to, !.by = "staff",
                             !.payment = payments[o]])

\* Mutant: the payment's rule is thought enough.
LoadOrderUnchecked(s) ==
  LET w == session[s] IN
  /\ w.at = "LOADED"
  /\ Continue(s, [w EXCEPT !.at = "DECIDING", !.status = orders[w.order].status])

LoadOrder(s) ==
  LET w == session[s] IN
  /\ w.at = "LOADED"
  /\ CanTransition(orders[w.order].status, w.to)
  /\ Continue(s, [w EXCEPT !.at = "DECIDING", !.status = orders[w.order].status])

Verify(s) ==
  LET w == session[s]
      o == w.order
  IN
  /\ w.at = "DECIDING"
  /\ w.to = "PAID"
  /\ payments' = [payments EXCEPT ![o].status = "VERIFIED",
                                  ![o].mismatch = @ \/ NeedsAcceptance(w.payment)]
  /\ orders' = [orders EXCEPT ![o].status = "ACCEPTED"]
  /\ Record(o, <<[from |-> w.status, to |-> "PAID", by |-> "staff"],
                 [from |-> "PAID", to |-> "ACCEPTED", by |-> "system"]>>)
  /\ Finish(s)
  /\ UNCHANGED <<slots, stock, used>>

Reject(s) ==
  LET w == session[s]
      o == w.order
  IN
  /\ w.at = "DECIDING"
  /\ w.to = "PENDING_PAYMENT"
  /\ CodeFree(o, orders[o].code)
  /\ payments' = [payments EXCEPT ![o].status = "REJECTED"]
  /\ orders' = [orders EXCEPT ![o].status = w.to]
  /\ Record(o, <<[from |-> w.status, to |-> w.to, by |-> "staff"]>>)
  /\ Finish(s)
  /\ UNCHANGED <<slots, stock, used>>

Refund(s) ==
  LET w == session[s]
      o == w.order
  IN
  /\ w.at = "DECIDING"
  /\ w.to = "REFUNDED"
  /\ payments' = [payments EXCEPT ![o].status = "REFUNDED"]
  /\ orders' = [orders EXCEPT ![o].status = w.to]
  /\ Record(o, <<[from |-> w.status, to |-> w.to, by |-> "staff"]>>)
  /\ Finish(s)
  /\ UNCHANGED <<slots, stock, used>>

-----------------------------------------------------------------------------
\* A refusal inside the transaction, a database error, a deadlock victim, a lost
\* connection: everything rolls back.
Abort(s) ==
  /\ session[s] # Idle
  /\ Continue(s, Idle)

Request(s, o) == \/ Quote(s, o)
                 \/ CheckCancel(s, o)
                 \/ StaffRead(s, o)
                 \/ ReadForProof(s, o)
                 \/ LoadPayment(s, o)

Proceed(s) == \/ CountUnpaid(s)
              \/ CustomerRead(s)
              \/ LoadOrder(s)

Commit(s) == \/ Create(s)
             \/ WriteMove(s)
             \/ WriteCancel(s)
             \/ AttachProof(s)
             \/ Verify(s)
             \/ Reject(s)
             \/ Refund(s)

Manage == \/ \E k \in Slots : Materialise(k) \/ SetCapacity(k) \/ SetLocked(k)
          \/ \E r \in StockRows : SetDailyStock(r)

Next == \/ \E s \in Sessions, o \in Orders : Request(s, o)
        \/ \E s \in Sessions : Proceed(s) \/ Commit(s) \/ Abort(s)
        \/ Manage

Spec == Init /\ [][Next]_vars
=============================================================================
