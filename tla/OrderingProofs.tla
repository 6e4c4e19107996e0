--------------------------- MODULE OrderingProofs ---------------------------
(***************************************************************************)
(* For any number of connections, orders, slots, stock rows and promotions *)
(* and any limits: the transactions of Ordering keep their types, never    *)
(* pass a limit, never leak a place, never let two waiting orders of a     *)
(* store share a kode unik, and send nothing unpaid to the kitchen.        *)
(***************************************************************************)
EXTENDS OrderingSafety, TLAPS, FiniteSetTheorems

\* The inductive invariant.  StableKnowledge is what makes it inductive: it
\* says which facts a transaction may rely on between its read and its write.
IInv == /\ TypeOK
        /\ StableKnowledge
        /\ PaidBeforeKitchen
        /\ NoCapacityLeak
        /\ NeverOversold
        /\ OpenCodesUnique

USE DEF tables, Unpaid

-----------------------------------------------------------------------------
(* The vocabulary.                                                         *)

\* The state machine leads only to states, from states.
LEMMA TransitionsAreStates ==
  ASSUME NEW from \in Status \cup {"NONE"}, NEW to, CanTransition(from, to)
  PROVE  to \in Status /\ from \in Status
BY DEF CanTransition, Transitions, Status

\* The counter, the kitchen and a refund take an order only from a state that
\* follows a verification.
LEMMA LeavesPaidState ==
  ASSUME NEW from \in Status \cup {"NONE"}, NEW to \in AdvanceTargets \cup {"REFUNDED"},
         CanTransition(from, to)
  PROVE  from \notin Unpaid \cup {"NONE", "CANCELLED"}
BY DEF CanTransition, Transitions, Status, AdvanceTargets

LEMMA IdleTyped == Idle \in Work
BY DEF Idle, Work, NewPayment, Payment, PaymentStatus, Declared

-----------------------------------------------------------------------------
(* Types.                                                                  *)

LEMMA InitTyped == Init => TypeOK
<1> SUFFICES ASSUME Init PROVE TypeOK
  OBVIOUS
<1> USE DEF Init
<1>1. slots \in [Slots -> Slot]
  BY DEF AbsentSlot, Slot
<1>2. stock \in [StockRows -> Stock] /\ used \in [Promos -> Nat]
  BY DEF Stock
<1>3. orders \in [Orders -> Order]
  BY DEF NoRow, Order, Status
<1>4. payments \in [Orders -> Payment]
  BY DEF NewPayment, Payment, PaymentStatus, Declared
<1>5. events \in [Orders -> Seq(Event)]
  OBVIOUS
<1>6. session \in [Sessions -> Work]
  BY IdleTyped
<1> QED
  BY <1>1, <1>2, <1>3, <1>4, <1>5, <1>6 DEF TypeOK

\* A request that only reads leaves the tables alone.
LEMMA BeginTyped ==
  ASSUME TypeOK, NEW s \in Sessions, NEW w \in Work, Begin(s, w) \/ Continue(s, w)
  PROVE  TypeOK'
BY DEF TypeOK, Begin, Continue

LEMMA FinishTyped ==
  ASSUME TypeOK, NEW s \in Sessions, Finish(s)
  PROVE  session' \in [Sessions -> Work]
BY IdleTyped DEF TypeOK, Finish

LEMMA RecordTyped ==
  ASSUME TypeOK, NEW o \in Orders, NEW e \in Seq(Event), Record(o, e)
  PROVE  events' \in [Orders -> Seq(Event)]
<1>1. events[o] \o e \in Seq(Event)
  BY DEF TypeOK
<1> QED
  BY <1>1 DEF TypeOK, Record

LEMMA RequestTyped ==
  ASSUME TypeOK, NEW s \in Sessions, NEW o \in Orders, Request(s, o)
  PROVE  TypeOK'
<1> USE DEF Work, Status
<1>1. orders[o] \in Order /\ payments[o] \in Payment
  BY DEF TypeOK
<1>2. CASE Quote(s, o)
  BY <1>2, IdleTyped, BeginTyped DEF Quote, Idle
<1>3. CASE CheckCancel(s, o)
  BY <1>3, IdleTyped, BeginTyped DEF CheckCancel, Idle
<1>4. CASE StaffRead(s, o)
  BY <1>1, <1>4, IdleTyped, BeginTyped DEF StaffRead, Idle, Move, AdvanceTargets, Order
<1>5. CASE ReadForProof(s, o)
  BY <1>1, <1>5, IdleTyped, BeginTyped DEF ReadForProof, Idle, Order
<1>6. CASE LoadPayment(s, o)
  BY <1>1, <1>6, IdleTyped, BeginTyped DEF LoadPayment, Idle
<1> QED
  BY <1>2, <1>3, <1>4, <1>5, <1>6 DEF Request

LEMMA ProceedTyped ==
  ASSUME TypeOK, StableKnowledge, NEW s \in Sessions, Proceed(s)
  PROVE  TypeOK'
<1> DEFINE o == session[s].order
<1>1. session[s] \in Work /\ (session[s].at # "IDLE" => o \in Orders)
  BY DEF TypeOK, StableKnowledge, Knows
<1>2. CASE CountUnpaid(s)
  <2>1. [session[s] EXCEPT !.at = "COUNTED"] \in Work
    BY <1>1 DEF Work
  <2> QED
    BY <1>2, <2>1, BeginTyped DEF CountUnpaid
<1>3. CASE CustomerRead(s)
  <2>1. orders[o] \in Order
    BY <1>1, <1>3 DEF TypeOK, CustomerRead
  <2>2. Move(o, "CANCELLED", "customer") \in Work
    BY <1>1, <1>3, <2>1, IdleTyped, ZenonT(60) DEF CustomerRead, Move, Idle, Work, Order, Status
  <2> QED
    BY <1>3, <2>2, BeginTyped DEF CustomerRead
<1>4. CASE LoadOrder(s)
  <2>1. orders[o] \in Order
    BY <1>1, <1>4 DEF TypeOK, LoadOrder
  <2>2. [session[s] EXCEPT !.at = "DECIDING", !.status = orders[o].status] \in Work
    BY <1>1, <2>1 DEF Work, Order
  <2> QED
    BY <1>4, <2>2, BeginTyped DEF LoadOrder
<1> QED
  BY <1>2, <1>3, <1>4 DEF Proceed

LEMMA FloorTyped == \A n \in Int : Floor(n) \in Nat /\ Floor(n) >= n
BY DEF Floor

\* Reserving, releasing and counting a use keep the counters natural numbers.
LEMMA CountersTyped ==
  ASSUME TypeOK, NEW k \in Slots, NEW n \in Nat, NEW p
  PROVE  /\ Reserve(k, n) \in [Slots -> Slot]
         /\ Release(k, n) \in [Slots -> Slot]
         /\ CountUse(p, 1) \in [Promos -> Nat]
         /\ CountUse(p, -1) \in [Promos -> Nat]
<1>1. slots[k] \in Slot /\ slots \in [Slots -> Slot] /\ used \in [Promos -> Nat]
  BY DEF TypeOK
<1>2. Reserve(k, n) \in [Slots -> Slot]
  <2>1. slots[k].orders + 1 \in Nat /\ slots[k].units + n \in Nat
    BY <1>1 DEF Slot
  <2> QED
    BY <1>1, <2>1 DEF Reserve, Slot
<1>3. Release(k, n) \in [Slots -> Slot]
  <2>1. Floor(slots[k].orders - 1) \in Nat /\ Floor(slots[k].units - n) \in Nat
    BY <1>1, FloorTyped DEF Slot
  <2> QED
    BY <1>1, <2>1 DEF Release, Slot
<1>4. CountUse(p, 1) \in [Promos -> Nat] /\ CountUse(p, -1) \in [Promos -> Nat]
  BY <1>1, FloorTyped DEF CountUse
<1> QED
  BY <1>2, <1>3, <1>4

\* The order a busy session works on, and what its cart says.
LEMMA BusyTyped ==
  ASSUME TypeOK, StableKnowledge, NEW s \in Sessions, session[s].at # "IDLE"
  PROVE  LET o == session[s].order IN
         /\ session[s] \in Work
         /\ o \in Orders
         /\ Cart[o].slot \in Slots /\ Cart[o].units \in Nat
         /\ Cart[o].qty \in [StockRows -> Nat]
         /\ Cart[o].customer \in Customers
         /\ Cart[o].promo \in Promos \cup {NoPromo}
         /\ orders[o] \in Order /\ payments[o] \in Payment
BY CartAssumption DEF TypeOK, StableKnowledge, Knows, CartType

LEMMA CreateTyped ==
  ASSUME TypeOK, StableKnowledge, NEW s \in Sessions, Create(s)
  PROVE  TypeOK'
<1> DEFINE o == session[s].order
           k == Cart[o].slot
<1>1. session[s].at = "COUNTED"
  BY DEF Create
<1>2. o \in Orders /\ k \in Slots /\ Cart[o].units \in Nat /\ Cart[o].qty \in [StockRows -> Nat]
  BY <1>1, BusyTyped
<1>3. slots' \in [Slots -> Slot] /\ used' \in [Promos -> Nat]
  BY <1>2, CountersTyped DEF Create
<1>4. stock' \in [StockRows -> Stock]
  <2>1. \A r \in StockRows : stock[r] \in Stock /\ Cart[o].qty[r] \in Nat
    BY <1>2 DEF TypeOK
  <2>2. \A r \in StockRows : [stock[r] EXCEPT !.used = @ + Cart[o].qty[r]] \in Stock
    BY <2>1 DEF Stock
  <2> QED
    BY <2>1, <2>2 DEF Create
<1>5. orders' \in [Orders -> Order]
  <2>1. PICK c \in Codes :
          orders' = [orders EXCEPT ![o] =
                       [status |-> "PENDING_PAYMENT", code |-> c, released |-> FALSE,
                        redemption |-> IF Cart[o].promo = NoPromo THEN "NONE" ELSE "HELD"]]
    BY DEF Create
  <2> QED
    BY <2>1 DEF TypeOK, Order, Status
<1>6. payments' \in [Orders -> Payment]
  BY DEF Create, TypeOK, NewPayment, Payment, PaymentStatus, Declared
<1>7. events' \in [Orders -> Seq(Event)]
  <2>1. <<[from |-> "NONE", to |-> "PENDING_PAYMENT", by |-> "customer"]>> \in Seq(Event)
    BY DEF Event, Status
  <2> QED
    BY <1>2, <2>1, RecordTyped DEF Create
<1>8. session' \in [Sessions -> Work]
  BY FinishTyped DEF Create
<1> QED
  BY <1>3, <1>4, <1>5, <1>6, <1>7, <1>8 DEF TypeOK

\* One event whose target is a state.
LEMMA OneEventTyped ==
  ASSUME NEW w \in Work, NEW to \in Status, NEW by \in {"customer", "staff", "system"}
  PROVE  <<[from |-> w.status, to |-> to, by |-> by]>> \in Seq(Event)
<1>1. [from |-> w.status, to |-> to, by |-> by] \in Event
  BY DEF Work, Event
<1> QED
  BY <1>1

\* What a transaction that moves an order writes to it, by kind of write.
LEMMA MoveTyped ==
  ASSUME TypeOK, StableKnowledge, NEW s \in Sessions, WriteMove(s)
  PROVE  TypeOK'
<1> DEFINE w == session[s]
<1>1. w \in Work /\ w.order \in Orders /\ w.to \in Status
  BY BusyTyped DEF WriteMove, StableKnowledge, Knows, AdvanceTargets, Status
<1>2. orders' \in [Orders -> Order]
  <2>1. [orders[w.order] EXCEPT !.status = w.to] \in Order
    BY <1>1, ZenonT(60) DEF TypeOK, Order
  <2> QED
    BY <1>1, <2>1 DEF WriteMove, TypeOK
<1>3. events' \in [Orders -> Seq(Event)]
  BY <1>1, OneEventTyped, RecordTyped DEF WriteMove, Work
<1>4. session' \in [Sessions -> Work]
  BY FinishTyped DEF WriteMove
<1> QED
  BY <1>2, <1>3, <1>4 DEF TypeOK, WriteMove

LEMMA CancelTyped ==
  ASSUME TypeOK, StableKnowledge, NEW s \in Sessions, WriteCancel(s)
  PROVE  TypeOK'
<1> DEFINE w == session[s]
<1>1. /\ w \in Work /\ w.order \in Orders /\ w.to \in Status
      /\ Cart[w.order].slot \in Slots /\ Cart[w.order].units \in Nat
  BY BusyTyped DEF WriteCancel, Releases, Status
<1>2. orders' \in [Orders -> Order]
  <2>1. orders[w.order] \in Order
    BY <1>1 DEF TypeOK
  <2>2. [status |-> w.to, code |-> orders[w.order].code, released |-> TRUE,
         redemption |-> Returned(orders[w.order].redemption)] \in Order
    BY <1>1, <2>1 DEF Order, Returned
  <2> QED
    BY <1>1, <2>2 DEF WriteCancel, TypeOK
<1>3. events' \in [Orders -> Seq(Event)]
  BY <1>1, OneEventTyped, RecordTyped DEF WriteCancel, Work
<1>4. session' \in [Sessions -> Work]
  BY FinishTyped DEF WriteCancel
<1>5. slots' \in [Slots -> Slot] /\ used' \in [Promos -> Nat]
  BY <1>1, CountersTyped DEF WriteCancel
<1> QED
  BY <1>2, <1>3, <1>4, <1>5 DEF TypeOK, WriteCancel

LEMMA AttachTyped ==
  ASSUME TypeOK, StableKnowledge, NEW s \in Sessions, AttachProof(s)
  PROVE  TypeOK'
<1> DEFINE w == session[s]
<1>1. w \in Work /\ w.order \in Orders /\ w.to \in Status
  BY BusyTyped DEF AttachProof, StableKnowledge, Knows, Status
<1>2. orders' \in [Orders -> Order]
  <2>1. [orders[w.order] EXCEPT !.status = w.to] \in Order
    BY <1>1, ZenonT(60) DEF TypeOK, Order
  <2> QED
    BY <1>1, <2>1 DEF AttachProof, TypeOK
<1>3. payments' \in [Orders -> Payment]
  <2>1. PICK declared \in Amounts :
          payments' = [payments EXCEPT ![w.order].status = "SUBMITTED",
                                       ![w.order].declared = declared]
    BY DEF AttachProof
  <2>2. declared \in Declared
    BY LimitAssumption
  <2>3. [payments[w.order] EXCEPT !.status = "SUBMITTED", !.declared = declared] \in Payment
    BY <1>1, <2>2 DEF TypeOK, Payment, PaymentStatus
  <2> QED
    BY <1>1, <2>1, <2>2, <2>3 DEF TypeOK, Payment, PaymentStatus
<1>4. events' \in [Orders -> Seq(Event)]
  BY <1>1, OneEventTyped, RecordTyped DEF AttachProof
<1>5. session' \in [Sessions -> Work]
  BY FinishTyped DEF AttachProof
<1> QED
  BY <1>2, <1>3, <1>4, <1>5 DEF TypeOK, AttachProof

LEMMA VerifyTyped ==
  ASSUME TypeOK, StableKnowledge, NEW s \in Sessions, Verify(s)
  PROVE  TypeOK'
<1> DEFINE w == session[s]
           verified == <<[from |-> w.status, to |-> "PAID", by |-> "staff"],
                         [from |-> "PAID", to |-> "ACCEPTED", by |-> "system"]>>
<1>1. w \in Work /\ w.order \in Orders
  BY BusyTyped DEF Verify
<1>2. orders' \in [Orders -> Order]
  BY <1>1, ZenonT(60) DEF Verify, TypeOK, Order, Status
<1>3. payments' \in [Orders -> Payment]
  <2>1. (payments[w.order].mismatch \/ NeedsAcceptance(w.payment)) \in BOOLEAN
    BY <1>1 DEF TypeOK, Payment
  <2> QED
    BY <1>1, <2>1, ZenonT(60) DEF Verify, TypeOK, Payment, PaymentStatus
<1>4. events' \in [Orders -> Seq(Event)]
  <2>1. verified \in Seq(Event)
    BY <1>1 DEF Event, Work, Status
  <2> QED
    BY <1>1, <2>1, RecordTyped DEF Verify
<1>5. session' \in [Sessions -> Work]
  BY FinishTyped DEF Verify
<1> QED
  BY <1>2, <1>3, <1>4, <1>5 DEF TypeOK, Verify

LEMMA RejectTyped ==
  ASSUME TypeOK, StableKnowledge, NEW s \in Sessions, Reject(s) \/ Refund(s)
  PROVE  TypeOK'
<1> DEFINE w == session[s]
<1>1. w \in Work /\ w.order \in Orders /\ w.to \in Status
  BY BusyTyped DEF Reject, Refund, Status
<1>2. orders' \in [Orders -> Order]
  <2>1. [orders[w.order] EXCEPT !.status = w.to] \in Order
    BY <1>1, ZenonT(60) DEF TypeOK, Order
  <2> QED
    BY <1>1, <2>1 DEF Reject, Refund, TypeOK
<1>3. payments' \in [Orders -> Payment]
  <2>1. \A p \in {"REJECTED", "REFUNDED"} : [payments[w.order] EXCEPT !.status = p] \in Payment
    BY <1>1 DEF TypeOK, Payment, PaymentStatus
  <2> QED
    BY <1>1, <2>1 DEF Reject, Refund, TypeOK
<1>4. events' \in [Orders -> Seq(Event)]
  BY <1>1, OneEventTyped, RecordTyped DEF Reject, Refund
<1>5. session' \in [Sessions -> Work]
  BY FinishTyped DEF Reject, Refund
<1> QED
  BY <1>2, <1>3, <1>4, <1>5 DEF TypeOK, Reject, Refund

LEMMA ManageTyped ==
  ASSUME TypeOK, Manage
  PROVE  TypeOK'
<1>1. CASE \E k \in Slots : Materialise(k)
  <2>1. PICK k \in Slots : Materialise(k)
    BY <1>1
  <2>2. PICK m \in Capacities :
          slots' = [slots EXCEPT ![k] = [AbsentSlot EXCEPT !.present = TRUE,
                      !.maxOrders = m.orders, !.maxUnits = m.units]]
    BY <2>1 DEF Materialise
  <2>3. m.orders \in Nat /\ m.units \in Nat
    BY LimitAssumption
  <2> QED
    BY <2>1, <2>2, <2>3 DEF TypeOK, Slot, AbsentSlot, Materialise
<1>2. CASE \E k \in Slots : SetCapacity(k)
  <2>1. PICK k \in Slots : SetCapacity(k)
    BY <1>2
  <2>2. PICK m \in Capacities :
          slots' = [slots EXCEPT ![k].maxOrders = m.orders, ![k].maxUnits = m.units]
    BY <2>1 DEF SetCapacity
  <2>3. m.orders \in Nat /\ m.units \in Nat
    BY LimitAssumption
  <2>4. [slots[k] EXCEPT !.maxOrders = m.orders, !.maxUnits = m.units] \in Slot
    BY <2>3 DEF TypeOK, Slot
  <2> QED
    BY <2>1, <2>2, <2>4 DEF TypeOK, SetCapacity
<1>3. CASE \E k \in Slots : SetLocked(k)
  <2>1. \A k \in Slots, locked \in BOOLEAN : [slots[k] EXCEPT !.locked = locked] \in Slot
    BY DEF TypeOK, Slot
  <2> QED
    BY <1>3, <2>1 DEF TypeOK, SetLocked
<1>4. CASE \E r \in StockRows : SetDailyStock(r)
  <2>1. PICK r \in StockRows : SetDailyStock(r)
    BY <1>4
  <2>2. PICK total \in StockTotals :
          stock' = [stock EXCEPT ![r].counted = TRUE,
                                 ![r].total = IF total < stock[r].used
                                                THEN stock[r].used ELSE total]
    BY <2>1 DEF SetDailyStock
  <2>3. total \in Nat
    BY LimitAssumption
  <2> QED
    BY <2>1, <2>2, <2>3, ZenonT(60) DEF TypeOK, Stock, SetDailyStock
<1> QED
  BY <1>1, <1>2, <1>3, <1>4 DEF Manage

\* Every step keeps the types.
LEMMA StepTyped ==
  ASSUME TypeOK, StableKnowledge, [Next]_vars
  PROVE  TypeOK'
<1>1. CASE \E s \in Sessions, o \in Orders : Request(s, o)
  BY <1>1, RequestTyped
<1>2. CASE \E s \in Sessions : Proceed(s)
  BY <1>2, ProceedTyped
<1>3. CASE \E s \in Sessions : Commit(s)
  BY <1>3, CreateTyped, MoveTyped, CancelTyped, AttachTyped, VerifyTyped, RejectTyped DEF Commit
<1>4. CASE \E s \in Sessions : Abort(s)
  BY <1>4, BeginTyped, IdleTyped DEF Abort
<1>5. CASE Manage
  BY <1>5, ManageTyped
<1>6. CASE UNCHANGED vars
  BY <1>6 DEF vars, TypeOK
<1> QED
  BY <1>1, <1>2, <1>3, <1>4, <1>5, <1>6 DEF Next

-----------------------------------------------------------------------------
(* What a step may do to the orders: the facts the invariants rest on.     *)

\* Only a commit touches the orders and their history.
LEMMA OnlyCommitsWrite ==
  ASSUME [Next]_vars, \A s \in Sessions : ~Commit(s)
  PROVE  UNCHANGED <<orders, events>>
<1>1. CASE \E s \in Sessions, o \in Orders : Request(s, o)
  BY <1>1 DEF Request, Quote, CheckCancel, StaffRead, ReadForProof, LoadPayment, Begin
<1>2. CASE \E s \in Sessions : Proceed(s) \/ Abort(s)
  BY <1>2 DEF Proceed, Abort, CountUnpaid, CustomerRead, LoadOrder, Continue
<1>3. CASE Manage
  BY <1>3 DEF Manage, Materialise, SetCapacity, SetLocked, SetDailyStock
<1>4. CASE UNCHANGED vars
  BY <1>4 DEF vars
<1> QED
  BY <1>1, <1>2, <1>3, <1>4 DEF Next

\* An appended history keeps the verifications it had.
LEMMA HistoryGrows ==
  ASSUME TypeOK, NEW o \in Orders, NEW e \in Seq(Event), Record(o, e)
  PROVE  /\ \A p \in Orders : WasPaid(p) => WasPaid(p)'
         /\ (\E i \in 1 .. Len(e) : e[i].to = "PAID") => WasPaid(o)'
<1>1. events[o] \in Seq(Event) /\ events' = [events EXCEPT ![o] = events[o] \o e]
  BY DEF TypeOK, Record
<1>2. events'[o] = events[o] \o e
  BY <1>1 DEF TypeOK
<1>3. Len(events'[o]) = Len(events[o]) + Len(e)
  BY <1>1, <1>2
<1>4. \A i \in 1 .. Len(events[o]) : events'[o][i] = events[o][i]
  BY <1>1, <1>2
<1>5. \A i \in 1 .. Len(e) : events'[o][Len(events[o]) + i] = e[i]
  BY <1>1, <1>2
<1>6. Len(events[o]) \in Nat /\ Len(e) \in Nat
  BY <1>1
<1>7. WasPaid(o) => WasPaid(o)'
  <2>1. \A i \in 1 .. Len(events[o]) : i \in 1 .. Len(events'[o])
    BY <1>3, <1>6
  <2> QED
    BY <2>1, <1>4 DEF WasPaid, EventSet
<1>8. \A p \in Orders : WasPaid(p) => WasPaid(p)'
  <2>1. \A p \in Orders \ {o} : events'[p] = events[p]
    BY <1>1 DEF TypeOK
  <2> QED
    BY <1>7, <2>1 DEF WasPaid, EventSet
<1>9. (\E i \in 1 .. Len(e) : e[i].to = "PAID") => WasPaid(o)'
  <2>1. \A i \in 1 .. Len(e) : Len(events[o]) + i \in 1 .. Len(events'[o])
    BY <1>3, <1>6
  <2> QED
    BY <2>1, <1>5 DEF WasPaid, EventSet
<1> QED
  BY <1>8, <1>9

\* A commit ends its session, writes one order, keeps every order that exists,
\* its kode unik, its release and its verifications.
LEMMA CommitEffect ==
  ASSUME TypeOK, StableKnowledge, NEW s \in Sessions, Commit(s)
  PROVE  LET o == session[s].order IN
         /\ session[s].at # "IDLE" /\ o \in Orders
         /\ session' = [session EXCEPT ![s] = Idle]
         /\ \A p \in Orders \ {o} : orders'[p] = orders[p]
         /\ orders'[o].status \in Status
         /\ \A p \in Orders : WasPaid(p) => WasPaid(p)'
         /\ ~Create(s) => /\ Exists(o)
                          /\ orders'[o].code = orders[o].code
                          /\ orders[o].released => orders'[o].released
         /\ Create(s) => session[s].at = "COUNTED"
<1> DEFINE w == session[s]
           o == w.order
<1>1. w.at # "IDLE" /\ session' = [session EXCEPT ![s] = Idle]
  BY DEF Commit, Create, WriteMove, WriteCancel, AttachProof, Verify, Reject, Refund, Finish
<1>2. w \in Work /\ o \in Orders /\ orders[o] \in Order
  BY <1>1, BusyTyped
<1>3. ~Create(s) => Exists(o)
  BY DEF Commit, WriteMove, WriteCancel, AttachProof, Verify, Reject, Refund, StableKnowledge, Knows
<1>4. \A p \in Orders \ {o} : orders'[p] = orders[p]
  BY <1>2 DEF Commit, Create, WriteMove, WriteCancel, AttachProof, Verify, Reject, Refund, TypeOK
<1>5. w.at = "MOVING" \/ w.at = "ATTACHING" => w.to \in Status
  BY DEF StableKnowledge, Knows, AdvanceTargets, Status
<1>6. orders'[o].status \in Status
  <2>1. CASE Create(s)
    BY <1>2, <2>1 DEF Create, TypeOK, Status
  <2>2. CASE ~Create(s)
    <3>1. w.to \in Status \/ Verify(s)
      BY <1>5, <2>2 DEF Commit, WriteMove, WriteCancel, AttachProof, Reject, Refund, Status
    <3>2. orders'[o].status = w.to \/ orders'[o].status = "ACCEPTED"
      BY <1>2, <2>2 DEF Commit, WriteMove, WriteCancel, AttachProof, Verify, Reject, Refund, TypeOK, Order
    <3>3. Verify(s) => orders'[o].status = "ACCEPTED"
      BY <1>2 DEF Verify, TypeOK, Order
    <3> QED
      BY <3>1, <3>2, <3>3 DEF Status
  <2> QED
    BY <2>1, <2>2
<1>7. ~Create(s) => /\ orders'[o].code = orders[o].code
                    /\ orders[o].released => orders'[o].released
  <2>1. CASE WriteCancel(s)
    BY <1>2, <2>1 DEF WriteCancel, TypeOK, Order
  <2>2. CASE WriteMove(s) \/ AttachProof(s) \/ Verify(s) \/ Reject(s) \/ Refund(s)
    <3>1. \E to : orders' = [orders EXCEPT ![o].status = to]
      BY <2>2 DEF WriteMove, AttachProof, Verify, Reject, Refund
    <3> QED
      BY <1>2, <3>1 DEF TypeOK, Order
  <2> QED
    BY <2>1, <2>2 DEF Commit
<1>8. \A p \in Orders : WasPaid(p) => WasPaid(p)'
  <2>1. \A to \in Status, by \in {"customer", "staff", "system"} :
          <<[from |-> w.status, to |-> to, by |-> by]>> \in Seq(Event)
    BY <1>2, OneEventTyped
  <2>2. w.by \in {"customer", "staff", "system"}
    BY <1>2 DEF Work
  <2>3. CASE Create(s)
    <3>1. <<[from |-> "NONE", to |-> "PENDING_PAYMENT", by |-> "customer"]>> \in Seq(Event)
      BY DEF Event, Status
    <3> QED
      BY <1>2, <2>3, <3>1, HistoryGrows DEF Create
  <2>4. CASE Verify(s)
    <3>1. <<[from |-> w.status, to |-> "PAID", by |-> "staff"],
            [from |-> "PAID", to |-> "ACCEPTED", by |-> "system"]>> \in Seq(Event)
      BY <1>2 DEF Event, Work, Status
    <3> QED
      BY <1>2, <2>4, <3>1, HistoryGrows DEF Verify
  <2>5. CASE WriteMove(s) \/ WriteCancel(s)
    BY <1>2, <1>5, <2>1, <2>2, <2>5, HistoryGrows DEF WriteMove, WriteCancel
  <2>6. CASE AttachProof(s)
    BY <1>2, <1>5, <2>1, <2>6, HistoryGrows DEF AttachProof
  <2>7. CASE Reject(s) \/ Refund(s)
    <3>1. w.to \in Status
      BY <2>7 DEF Reject, Refund, Status
    <3> QED
      BY <1>2, <2>1, <2>7, <3>1, HistoryGrows DEF Reject, Refund
  <2> QED
    BY <2>3, <2>4, <2>5, <2>6, <2>7 DEF Commit
<1>9. Create(s) => w.at = "COUNTED"
  BY DEF Create
<1> QED
  BY <1>1, <1>2, <1>3, <1>4, <1>6, <1>7, <1>8, <1>9

-----------------------------------------------------------------------------
(* What a transaction knows stays true.                                    *)

\* A session that does not move keeps what it knows, as long as orders stay,
\* verifications stay, releases stay, and nobody takes up its checkout.
LEMMA KeepsKnowing ==
  ASSUME StableKnowledge, NEW t \in Sessions, session'[t] = session[t],
         \A p \in Orders : /\ Exists(p) => Exists(p)'
                           /\ Exists(p) /\ orders[p].released => orders'[p].released
                           /\ WasPaid(p) => WasPaid(p)',
         session[t].at \in {"QUOTED", "COUNTED"} =>
           /\ ~Exists(session[t].order)'
           /\ \A u \in Sessions \ {t} : session'[u].order # session[t].order
  PROVE  Knows(t)'
<1>1. Knows(t)
  BY DEF StableKnowledge
<1> QED
  BY <1>1 DEF Knows

\* Taking up a request, or going on with one: the tables do not move.
LEMMA ReadKnowledge ==
  ASSUME StableKnowledge, TypeOK, NEW s \in Sessions, NEW w,
         session' = [session EXCEPT ![s] = w], UNCHANGED <<orders, events>>,
         \A t \in Sessions \ {s} :
           session[t].at \in {"QUOTED", "COUNTED"} => w.order # session[t].order,
         Knows(s)'
  PROVE  StableKnowledge'
<1>1. \A p \in Orders : /\ Exists(p)' = Exists(p)
                        /\ WasPaid(p)' = WasPaid(p)
  BY DEF Exists, WasPaid, EventSet
<1>2. \A t \in Sessions \ {s} : session'[t] = session[t]
  BY DEF TypeOK
<1>3. session'[s] = w
  BY DEF TypeOK
<1>4. SUFFICES ASSUME NEW t \in Sessions \ {s} PROVE Knows(t)'
  BY DEF StableKnowledge
<1>5. CASE session[t].at \in {"QUOTED", "COUNTED"}
  <2>1. /\ session[t].order \in Orders
        /\ ~Exists(session[t].order)
        /\ \A u \in Sessions \ {t} : session[u].order # session[t].order
    BY <1>5 DEF StableKnowledge, Knows
  <2>2. \A u \in Sessions \ {t} : session'[u].order # session[t].order
    BY <1>2, <1>3, <1>5, <2>1
  <2> QED
    BY <1>1, <1>2, <2>1, <2>2, KeepsKnowing
<1>6. CASE session[t].at \notin {"QUOTED", "COUNTED"}
  BY <1>1, <1>2, <1>6, KeepsKnowing
<1> QED
  BY <1>5, <1>6

\* A session that is idle again knows nothing it could be wrong about.
LEMMA IdleKnows ==
  ASSUME TypeOK, NEW s \in Sessions, session' = [session EXCEPT ![s] = Idle]
  PROVE  Knows(s)'
<1>1. session'[s].at = "IDLE"
  BY DEF TypeOK, Idle
<1> QED
  BY <1>1 DEF Knows

\* A session that reads an order that is there knows what it needs.
LEMMA ReaderKnowledge ==
  ASSUME TypeOK, StableKnowledge, PaidBeforeKitchen,
         NEW s \in Sessions, NEW o \in Orders, NEW w,
         session' = [session EXCEPT ![s] = w], UNCHANGED <<orders, events>>,
         Exists(o), w.order = o,
         w.at \in {"CHECKED", "MOVING", "ATTACHING", "LOADED", "DECIDING"},
         w.at = "ATTACHING" => w.to = "AWAITING_VERIFICATION",
         w.at = "MOVING" => /\ w.to \in AdvanceTargets \cup {"CANCELLED"}
                            /\ w.released => orders[o].released,
         w.at \in {"MOVING", "DECIDING"} => CanTransition(orders[o].status, w.to)
  PROVE  StableKnowledge'
<1>1. /\ orders[o].status \in Status \cup {"NONE"}
      /\ orders'[o] = orders[o] /\ Exists(o)' = Exists(o) /\ WasPaid(o)' = WasPaid(o)
  BY DEF TypeOK, Order, Exists, WasPaid, EventSet
<1>2. session'[s] = w
  BY DEF TypeOK
<1>3. /\ w.at = "MOVING" /\ w.to \in AdvanceTargets => WasPaid(o)
      /\ w.at = "DECIDING" /\ w.to = "REFUNDED" => WasPaid(o)
  BY <1>1, LeavesPaidState DEF PaidBeforeKitchen
<1>4. Knows(s)'
  BY <1>1, <1>2, <1>3 DEF Knows
<1>5. \A t \in Sessions \ {s} :
        session[t].at \in {"QUOTED", "COUNTED"} => w.order # session[t].order
  BY DEF StableKnowledge, Knows
<1> QED
  BY <1>4, <1>5, ReadKnowledge

LEMMA RequestKnowledge ==
  ASSUME TypeOK, StableKnowledge, PaidBeforeKitchen,
         NEW s \in Sessions, NEW o \in Orders, Request(s, o)
  PROVE  StableKnowledge'
<1>1. /\ UNCHANGED <<orders, events>> /\ Exists(o)' = Exists(o)
      /\ orders[o].status \in Status \cup {"NONE"}
  <2>1. UNCHANGED <<orders, events>>
    BY DEF Request, Quote, CheckCancel, StaffRead, ReadForProof, LoadPayment, Begin
  <2> QED
    BY <2>1 DEF Exists, TypeOK, Order
<1>2. CASE Quote(s, o)
  <2> DEFINE w == [Idle EXCEPT !.at = "QUOTED", !.order = o, !.by = "customer"]
  <2>1. session' = [session EXCEPT ![s] = w] /\ ~Exists(o)
        /\ \A t \in Sessions : session[t].order # o
    BY <1>2 DEF Quote, Begin
  <2>2. w.at = "QUOTED" /\ w.order = o
    BY DEF Idle
  <2>3. session'[s] = w /\ \A t \in Sessions \ {s} : session'[t] = session[t]
    BY <2>1 DEF TypeOK
  <2>4. Knows(s)'
    BY <1>1, <2>1, <2>2, <2>3 DEF Knows
  <2> QED
    BY <1>1, <2>1, <2>2, <2>4, ReadKnowledge
<1>3. CASE CheckCancel(s, o)
  <2> DEFINE w == [Idle EXCEPT !.at = "CHECKED", !.order = o, !.to = "CANCELLED",
                               !.by = "customer"]
  <2>1. session' = [session EXCEPT ![s] = w] /\ Exists(o)
    BY <1>3 DEF CheckCancel, Begin, Exists, CustomerCancellable
  <2>2. w.at = "CHECKED" /\ w.order = o
    BY DEF Idle
  <2> QED
    BY <1>1, <2>1, <2>2, ReaderKnowledge
<1>4. CASE StaffRead(s, o)
  <2>1. PICK to \in AdvanceTargets \cup {"CANCELLED"} :
          CanTransition(orders[o].status, to) /\ Begin(s, Move(o, to, "staff"))
    BY <1>4 DEF StaffRead
  <2> DEFINE w == Move(o, to, "staff")
  <2>2. Exists(o)
    BY <1>1, <2>1, TransitionsAreStates DEF Exists, Status
  <2>3. w.at = "MOVING" /\ w.order = o /\ w.to = to /\ w.released = orders[o].released
    BY DEF Move, Idle
  <2>4. session' = [session EXCEPT ![s] = w]
    BY <2>1 DEF Begin
  <2> QED
    BY <1>1, <2>1, <2>2, <2>3, <2>4, ReaderKnowledge
<1>5. CASE ReadForProof(s, o)
  <2> DEFINE w == [Idle EXCEPT !.at = "ATTACHING", !.order = o, !.by = "customer",
                               !.to = "AWAITING_VERIFICATION",
                               !.status = orders[o].status]
  <2>1. session' = [session EXCEPT ![s] = w] /\ Exists(o)
    BY <1>5 DEF ReadForProof, Begin, Exists
  <2>2. w.at = "ATTACHING" /\ w.order = o /\ w.to = "AWAITING_VERIFICATION"
    BY DEF Idle
  <2> QED
    BY <1>1, <2>1, <2>2, ReaderKnowledge
<1>6. CASE LoadPayment(s, o)
  <2>1. PICK to : Exists(o) /\ Begin(s, [Idle EXCEPT !.at = "LOADED", !.order = o, !.to = to,
                                                    !.by = "staff", !.payment = payments[o]])
    BY <1>6 DEF LoadPayment
  <2> DEFINE w == [Idle EXCEPT !.at = "LOADED", !.order = o, !.to = to, !.by = "staff",
                               !.payment = payments[o]]
  <2>2. w.at = "LOADED" /\ w.order = o
    BY DEF Idle
  <2>3. session' = [session EXCEPT ![s] = w]
    BY <2>1 DEF Begin
  <2> QED
    BY <1>1, <2>1, <2>2, <2>3, ReaderKnowledge
<1> QED
  BY <1>2, <1>3, <1>4, <1>5, <1>6 DEF Request

LEMMA ProceedKnowledge ==
  ASSUME TypeOK, StableKnowledge, PaidBeforeKitchen,
         NEW s \in Sessions, Proceed(s)
  PROVE  StableKnowledge'
<1>1. /\ session[s].at # "IDLE" /\ session[s] \in Work
      /\ session[s].order \in Orders /\ UNCHANGED <<orders, events>>
  <2>1. session[s].at # "IDLE" /\ UNCHANGED <<orders, events>>
    BY DEF Proceed, CountUnpaid, CustomerRead, LoadOrder, Continue
  <2> QED
    BY <2>1, BusyTyped
<1>2. PICK o \in Orders : o = session[s].order
  BY <1>1
<1>3. /\ Exists(o)' = Exists(o)
      /\ session[s].at \in {"CHECKED", "LOADED"} => Exists(o)
  BY <1>1, <1>2 DEF Exists, StableKnowledge, Knows
<1>4. CASE CountUnpaid(s)
  <2> DEFINE w == [session[s] EXCEPT !.at = "COUNTED"]
  <2>1. session' = [session EXCEPT ![s] = w] /\ session[s].at = "QUOTED"
    BY <1>4 DEF CountUnpaid, Continue
  <2>2. w.at = "COUNTED" /\ w.order = o
    BY <1>1, <1>2 DEF Work
  <2>3. session'[s] = w /\ \A t \in Sessions \ {s} : session'[t] = session[t]
    BY <2>1 DEF TypeOK
  <2>4. ~Exists(o) /\ \A t \in Sessions \ {s} : session[t].order # o
    BY <1>2, <2>1 DEF StableKnowledge, Knows
  <2>5. Knows(s)'
    BY <1>3, <2>2, <2>3, <2>4 DEF Knows
  <2> QED
    BY <1>1, <2>1, <2>2, <2>4, <2>5, ReadKnowledge
<1>5. CASE CustomerRead(s)
  <2> DEFINE w == Move(o, "CANCELLED", "customer")
  <2>1. /\ session' = [session EXCEPT ![s] = w] /\ session[s].at = "CHECKED"
        /\ CanTransition(orders[o].status, "CANCELLED")
    BY <1>2, <1>5 DEF CustomerRead, Continue
  <2>2. /\ w.at = "MOVING" /\ w.order = o /\ w.to = "CANCELLED"
        /\ w.released = orders[o].released
    BY DEF Move, Idle
  <2> QED
    BY <1>1, <1>3, <2>1, <2>2, ReaderKnowledge
<1>6. CASE LoadOrder(s)
  <2> DEFINE w == [session[s] EXCEPT !.at = "DECIDING", !.status = orders[o].status]
  <2>1. /\ session' = [session EXCEPT ![s] = w] /\ session[s].at = "LOADED"
        /\ CanTransition(orders[o].status, session[s].to)
    BY <1>2, <1>6 DEF LoadOrder, Continue
  <2>2. w.at = "DECIDING" /\ w.order = o /\ w.to = session[s].to
    BY <1>1, <1>2 DEF Work
  <2> QED
    BY <1>1, <1>3, <2>1, <2>2, ReaderKnowledge
<1> QED
  BY <1>4, <1>5, <1>6 DEF Proceed

LEMMA CommitKnowledge ==
  ASSUME TypeOK, StableKnowledge, NEW s \in Sessions, Commit(s)
  PROVE  StableKnowledge'
<1>1. PICK o \in Orders : o = session[s].order
  BY CommitEffect
<1>2. /\ session' = [session EXCEPT ![s] = Idle]
      /\ session[s].at # "IDLE"
      /\ \A p \in Orders \ {o} : orders'[p] = orders[p]
      /\ orders'[o].status \in Status
      /\ \A p \in Orders : WasPaid(p) => WasPaid(p)'
      /\ ~Create(s) => Exists(o) /\ (orders[o].released => orders'[o].released)
      /\ Create(s) => session[s].at = "COUNTED"
  BY <1>1, CommitEffect
<1>3. Exists(o)' /\ \A p \in Orders \ {o} : Exists(p)' = Exists(p)
  BY <1>2 DEF Exists, Status
<1>4. Create(s) => ~Exists(o) /\ \A t \in Sessions \ {s} : session[t].order # o
  BY <1>1, <1>2 DEF StableKnowledge, Knows
<1>5. \A p \in Orders : /\ Exists(p) => Exists(p)'
                        /\ Exists(p) /\ orders[p].released => orders'[p].released
                        /\ WasPaid(p) => WasPaid(p)'
  BY <1>2, <1>3, <1>4
<1>6. SUFFICES ASSUME NEW t \in Sessions \ {s} PROVE Knows(t)'
  BY <1>2, IdleKnows DEF StableKnowledge
<1>7. session'[t] = session[t] /\ session'[s].order = NoOrder
  BY <1>2 DEF TypeOK, Idle
<1>8. CASE session[t].at \in {"QUOTED", "COUNTED"}
  <2>1. PICK p \in Orders : p = session[t].order
    BY <1>8 DEF StableKnowledge, Knows
  <2>2. ~Exists(p) /\ \A u \in Sessions \ {t} : session[u].order # p
    BY <1>8, <2>1 DEF StableKnowledge, Knows
  <2>3. ~Exists(p)'
    BY <1>1, <1>3, <2>2
  <2>4. \A u \in Sessions \ {t} : session'[u].order # p
    BY <1>2, <1>7, <2>2, NullAssumption DEF TypeOK
  <2>5. /\ ~Exists(session[t].order)'
        /\ \A u \in Sessions \ {t} : session'[u].order # session[t].order
    BY <1>7, <2>1, <2>3, <2>4 DEF Exists
  <2> QED
    BY <1>5, <1>7, <2>5, KeepsKnowing
<1>9. CASE session[t].at \notin {"QUOTED", "COUNTED"}
  BY <1>5, <1>7, <1>9, KeepsKnowing
<1> QED
  BY <1>8, <1>9

LEMMA StepKnowledge ==
  ASSUME TypeOK, StableKnowledge, PaidBeforeKitchen, [Next]_vars
  PROVE  StableKnowledge'
<1>1. CASE \E s \in Sessions, o \in Orders : Request(s, o)
  BY <1>1, RequestKnowledge
<1>2. CASE \E s \in Sessions : Proceed(s)
  BY <1>2, ProceedKnowledge
<1>3. CASE \E s \in Sessions : Commit(s)
  BY <1>3, CommitKnowledge
<1>4. CASE \E s \in Sessions : Abort(s)
  <2>1. PICK s \in Sessions : Abort(s)
    BY <1>4
  <2>2. session' = [session EXCEPT ![s] = Idle] /\ UNCHANGED <<orders, events>>
    BY <2>1 DEF Abort, Continue
  <2>3. \A t \in Sessions \ {s} :
          session[t].at \in {"QUOTED", "COUNTED"} => Idle.order # session[t].order
    BY NullAssumption DEF StableKnowledge, Knows, Idle
  <2> QED
    BY <2>2, <2>3, IdleKnows, ReadKnowledge
<1>5. CASE Manage \/ UNCHANGED vars
  <2>1. UNCHANGED <<session, orders, events>>
    BY <1>5 DEF Manage, Materialise, SetCapacity, SetLocked, SetDailyStock, vars
  <2> QED
    BY <2>1 DEF StableKnowledge, Knows, Exists, WasPaid, EventSet
<1> QED
  BY <1>1, <1>2, <1>3, <1>4, <1>5 DEF Next

-----------------------------------------------------------------------------
(* Where a commit may take its order.                                      *)

\* Beyond waiting and cancellation only with a verification in the history; to
\* waiting only under a free kode unik; to cancellation only with the capacity
\* released.
LEMMA CommitLeads ==
  ASSUME TypeOK, StableKnowledge, NEW s \in Sessions, Commit(s),
         NEW o \in Orders, o = session[s].order
  PROVE  /\ orders'[o].status \notin Unpaid \cup {"CANCELLED"} => WasPaid(o)'
         /\ orders'[o].status \in Unpaid => CodeFree(o, orders'[o].code)
         /\ orders'[o].status = "CANCELLED" => orders'[o].released
<1> DEFINE w == session[s]
<1>1. orders[o] \in Order /\ w \in Work
  BY CommitEffect DEF TypeOK
<1>2. WasPaid(o) => WasPaid(o)'
  BY CommitEffect
<1>3. CASE Create(s)
  <2>1. PICK c \in Codes :
          /\ CodeFree(o, c)
          /\ orders' = [orders EXCEPT ![o] =
                          [status |-> "PENDING_PAYMENT", code |-> c, released |-> FALSE,
                           redemption |-> IF Cart[o].promo = NoPromo THEN "NONE" ELSE "HELD"]]
    BY <1>3 DEF Create
  <2>2. orders'[o].status = "PENDING_PAYMENT" /\ orders'[o].code = c
    BY <2>1 DEF TypeOK
  <2> QED
    BY <2>1, <2>2
<1>4. CASE WriteMove(s)
  <2>1. orders'[o].status = w.to /\ orders'[o].released = orders[o].released
    BY <1>1, <1>4 DEF WriteMove, TypeOK, Order
  <2>2. /\ w.to \in AdvanceTargets \cup {"CANCELLED"}
        /\ w.to \in AdvanceTargets => WasPaid(o)
        /\ w.to = "CANCELLED" => orders[o].released
    BY <1>4 DEF WriteMove, Releases, StableKnowledge, Knows
  <2> QED
    BY <1>2, <2>1, <2>2 DEF AdvanceTargets
<1>5. CASE WriteCancel(s)
  <2>1. w.to = "CANCELLED"
    BY <1>5 DEF WriteCancel, Releases
  <2>2. orders'[o].status = "CANCELLED" /\ orders'[o].released
    BY <1>5, <2>1 DEF WriteCancel, TypeOK
  <2> QED
    BY <2>2
<1>6. CASE AttachProof(s)
  <2>1. w.to = "AWAITING_VERIFICATION"
    BY <1>6 DEF AttachProof, StableKnowledge, Knows
  <2>2. orders'[o].status = "AWAITING_VERIFICATION" /\ orders'[o].code = orders[o].code
    BY <1>1, <1>6, <2>1 DEF AttachProof, TypeOK, Order
  <2> QED
    BY <1>6, <2>2 DEF AttachProof
<1>7. CASE Verify(s)
  <2> DEFINE e == <<[from |-> w.status, to |-> "PAID", by |-> "staff"],
                    [from |-> "PAID", to |-> "ACCEPTED", by |-> "system"]>>
  <2>1. orders'[o].status = "ACCEPTED"
    BY <1>1, <1>7 DEF Verify, TypeOK, Order
  <2>2. e \in Seq(Event)
    BY <1>1 DEF Event, Work, Status
  <2>3. 1 \in 1 .. Len(e) /\ e[1].to = "PAID"
    OBVIOUS
  <2>4. Record(o, e)
    BY <1>7 DEF Verify
  <2>5. WasPaid(o)'
    BY <2>2, <2>3, <2>4, HistoryGrows
  <2> QED
    BY <2>1, <2>5
<1>8. CASE Reject(s)
  <2>1. orders'[o].status = "PENDING_PAYMENT" /\ orders'[o].code = orders[o].code
    BY <1>1, <1>8 DEF Reject, TypeOK, Order
  <2> QED
    BY <1>8, <2>1 DEF Reject
<1>9. CASE Refund(s)
  <2>1. orders'[o].status = "REFUNDED"
    BY <1>1, <1>9 DEF Refund, TypeOK, Order
  <2>2. WasPaid(o)
    BY <1>9 DEF Refund, StableKnowledge, Knows
  <2> QED
    BY <1>2, <2>1, <2>2
<1> QED
  BY <1>3, <1>4, <1>5, <1>6, <1>7, <1>8, <1>9 DEF Commit

LEMMA StepPaid ==
  ASSUME TypeOK, StableKnowledge, PaidBeforeKitchen, [Next]_vars
  PROVE  PaidBeforeKitchen'
<1>1. CASE \E s \in Sessions : Commit(s)
  <2>1. PICK s \in Sessions : Commit(s)
    BY <1>1
  <2>2. PICK o \in Orders : o = session[s].order
    BY <2>1, CommitEffect
  <2>3. /\ \A p \in Orders \ {o} : orders'[p] = orders[p]
        /\ \A p \in Orders : WasPaid(p) => WasPaid(p)'
    BY <2>1, <2>2, CommitEffect
  <2> QED
    BY <2>1, <2>2, <2>3, CommitLeads DEF PaidBeforeKitchen
<1>2. CASE \A s \in Sessions : ~Commit(s)
  BY <1>2, OnlyCommitsWrite DEF PaidBeforeKitchen, WasPaid, EventSet
<1> QED
  BY <1>1, <1>2

LEMMA StepCodes ==
  ASSUME TypeOK, StableKnowledge, OpenCodesUnique, [Next]_vars
  PROVE  OpenCodesUnique'
<1>1. CASE \E s \in Sessions : Commit(s)
  <2>1. PICK s \in Sessions : Commit(s)
    BY <1>1
  <2>2. PICK o \in Orders : o = session[s].order
    BY <2>1, CommitEffect
  <2>3. \A p \in Orders \ {o} : orders'[p] = orders[p]
    BY <2>1, <2>2, CommitEffect
  <2>4. Open(o)' => CodeFree(o, orders'[o].code)
    BY <2>1, <2>2, CommitLeads DEF Open
  <2>5. \A p \in Orders \ {o} :
          Open(o)' /\ Open(p)' /\ StoreOfOrder(o) = StoreOfOrder(p)
            => orders'[o].code # orders'[p].code
    BY <2>3, <2>4 DEF CodeFree, Open
  <2> QED
    BY <2>3, <2>5 DEF OpenCodesUnique, Open, StoreOfOrder
<1>2. CASE \A s \in Sessions : ~Commit(s)
  BY <1>2, OnlyCommitsWrite DEF OpenCodesUnique, Open, StoreOfOrder
<1> QED
  BY <1>1, <1>2

LEMMA StepReleased ==
  ASSUME TypeOK, StableKnowledge, CancelledIsReleased, [Next]_vars
  PROVE  CancelledIsReleased'
<1>1. CASE \E s \in Sessions : Commit(s)
  <2>1. PICK s \in Sessions : Commit(s)
    BY <1>1
  <2>2. PICK o \in Orders : o = session[s].order
    BY <2>1, CommitEffect
  <2>3. \A p \in Orders \ {o} : orders'[p] = orders[p]
    BY <2>1, <2>2, CommitEffect
  <2> QED
    BY <2>1, <2>2, <2>3, CommitLeads DEF CancelledIsReleased
<1>2. CASE \A s \in Sessions : ~Commit(s)
  BY <1>2, OnlyCommitsWrite DEF CancelledIsReleased
<1> QED
  BY <1>1, <1>2

-----------------------------------------------------------------------------
(* Counting the places.                                                    *)

\* A slot's row after reserving and after releasing.
LEMMA CounterValues ==
  ASSUME TypeOK, NEW k \in Slots, NEW n \in Nat, NEW j \in Slots
  PROVE  /\ Reserve(k, n)[j].maxOrders = slots[j].maxOrders
         /\ Reserve(k, n)[j].maxUnits = slots[j].maxUnits
         /\ Release(k, n)[j].maxOrders = slots[j].maxOrders
         /\ Release(k, n)[j].maxUnits = slots[j].maxUnits
         /\ j # k => Reserve(k, n)[j] = slots[j] /\ Release(k, n)[j] = slots[j]
         /\ Reserve(k, n)[k].orders = slots[k].orders + 1
         /\ Reserve(k, n)[k].units = slots[k].units + n
         /\ Release(k, n)[k].orders = Floor(slots[k].orders - 1)
         /\ Release(k, n)[k].units = Floor(slots[k].units - n)
<1>1. \A i \in Slots : slots[i] \in Slot
  BY DEF TypeOK
<1>2. DOMAIN slots = Slots
  BY DEF TypeOK
<1> QED
  BY <1>1, <1>2 DEF Reserve, Release, Slot

LEMMA HoldingFinite ==
  ASSUME NEW k
  PROVE  IsFiniteSet(Holding(k)) /\ Cardinality(Holding(k)) \in Nat
<1>1. Holding(k) \subseteq Orders
  BY DEF Holding
<1> QED
  BY <1>1, FiniteAssumption, FS_Subset, FS_CardinalityType

\* Neither a checkout nor a release lets a counter exceed the places held.
LEMMA StepPlaces ==
  ASSUME TypeOK, StableKnowledge, PlacesAreHeld, [Next]_vars
  PROVE  PlacesAreHeld'
<1> SUFFICES ASSUME NEW k \in Slots
             PROVE  slots'[k].orders <= Cardinality(Holding(k)')
  BY DEF PlacesAreHeld
<1>1. /\ slots[k].orders <= Cardinality(Holding(k)) /\ Cardinality(Holding(k)) \in Nat
      /\ slots[k] \in Slot /\ slots[k].orders \in Nat
  BY HoldingFinite DEF PlacesAreHeld, TypeOK, Slot
<1>2. CASE \E s \in Sessions : Commit(s)
  <2>1. PICK s \in Sessions : Commit(s)
    BY <1>2
  <2>2. PICK o \in Orders : o = session[s].order
    BY <2>1, CommitEffect
  <2>3. /\ \A p \in Orders \ {o} : orders'[p] = orders[p]
        /\ Exists(o)'
        /\ Cart[o].slot \in Slots /\ Cart[o].units \in Nat
        /\ orders[o] \in Order
    BY <2>1, <2>2, CommitEffect, BusyTyped DEF Exists, Status
  <2>4. CASE Create(s)
    <3>1. ~Exists(o)
      BY <2>2, <2>4 DEF Create, StableKnowledge, Knows
    <3>2. orders'[o].released = FALSE
      BY <2>2, <2>4 DEF Create, TypeOK
    <3>3. slots' = Reserve(Cart[o].slot, Cart[o].units)
      BY <2>2, <2>4 DEF Create
    <3>4. CASE Cart[o].slot = k
      <4>1. Holding(k)' = Holding(k) \cup {o} /\ o \notin Holding(k)
        BY <2>3, <3>1, <3>2, <3>4 DEF Holding, Exists
      <4>2. Cardinality(Holding(k)') = Cardinality(Holding(k)) + 1
        BY <4>1, HoldingFinite, FS_AddElement
      <4> QED
        BY <1>1, <2>3, <3>3, <3>4, <4>2, CounterValues
    <3>5. CASE Cart[o].slot # k
      <4>1. Holding(k)' = Holding(k)
        BY <2>3, <3>5 DEF Holding, Exists
      <4> QED
        BY <1>1, <2>3, <3>3, <3>5, <4>1, CounterValues
    <3> QED
      BY <3>4, <3>5
  <2>5. CASE WriteCancel(s)
    <3>1. orders'[o].released = TRUE
      BY <2>2, <2>5 DEF WriteCancel, TypeOK
    <3>2. slots' = Release(Cart[o].slot, Cart[o].units)
      BY <2>2, <2>5 DEF WriteCancel
    <3>3. CASE Cart[o].slot = k
      <4>1. Holding(k)' = Holding(k) \ {o}
        BY <2>3, <3>1, <3>3 DEF Holding, Exists
      <4>2. /\ Cardinality(Holding(k)') \in Nat
            /\ Cardinality(Holding(k)') >= Cardinality(Holding(k)) - 1
        <5>1. /\ IsFiniteSet(Holding(k) \ {o})
              /\ Cardinality(Holding(k) \ {o}) =
                   IF o \in Holding(k) THEN Cardinality(Holding(k)) - 1
                                       ELSE Cardinality(Holding(k))
          BY HoldingFinite, FS_RemoveElement
        <5>2. Cardinality(Holding(k) \ {o}) \in Nat
          BY <5>1, FS_CardinalityType
        <5> QED
          BY <1>1, <4>1, <5>1, <5>2
      <4>3. slots'[k].orders = Floor(slots[k].orders - 1)
        BY <2>3, <3>2, <3>3, CounterValues
      <4> QED
        BY <1>1, <4>2, <4>3 DEF Floor
    <3>4. CASE Cart[o].slot # k
      <4>1. Holding(k)' = Holding(k)
        BY <2>3, <3>4 DEF Holding, Exists
      <4> QED
        BY <1>1, <2>3, <3>2, <3>4, <4>1, CounterValues
    <3> QED
      BY <3>3, <3>4
  <2>6. CASE WriteMove(s) \/ AttachProof(s) \/ Verify(s) \/ Reject(s) \/ Refund(s)
    <3>1. slots' = slots /\ \E to : orders' = [orders EXCEPT ![o].status = to]
      BY <2>2, <2>6 DEF WriteMove, AttachProof, Verify, Reject, Refund
    <3>2. orders'[o].released = orders[o].released
      BY <2>3, <3>1 DEF TypeOK, Order
    <3>3. Exists(o)
      BY <2>2, <2>6 DEF WriteMove, AttachProof, Verify, Reject, Refund, StableKnowledge, Knows
    <3>4. Holding(k)' = Holding(k)
      BY <2>3, <3>2, <3>3 DEF Holding, Exists
    <3> QED
      BY <1>1, <3>1, <3>4
  <2> QED
    BY <2>1, <2>4, <2>5, <2>6 DEF Commit
<1>3. CASE \A s \in Sessions : ~Commit(s)
  <2>1. Holding(k)' = Holding(k)
    BY <1>3, OnlyCommitsWrite DEF Holding, Exists
  <2>2. slots'[k].orders = slots[k].orders \/ slots'[k].orders = 0
    <3>1. CASE \E s \in Sessions, o \in Orders : Request(s, o)
      BY <3>1 DEF Request, Quote, CheckCancel, StaffRead, ReadForProof, LoadPayment, Begin
    <3>2. CASE \E s \in Sessions : Proceed(s) \/ Abort(s)
      BY <3>2 DEF Proceed, Abort, CountUnpaid, CustomerRead, LoadOrder, Continue
    <3>3. CASE \E j \in Slots : Materialise(j)
      <4>1. PICK j \in Slots : Materialise(j)
        BY <3>3
      <4> QED
        BY <1>1, <4>1 DEF Materialise, AbsentSlot, TypeOK
    <3>4. CASE \E j \in Slots : SetCapacity(j) \/ SetLocked(j)
      <4>1. PICK j \in Slots : SetCapacity(j) \/ SetLocked(j)
        BY <3>4
      <4>2. CASE SetCapacity(j)
        <5>1. PICK m : slots' = [slots EXCEPT ![j].maxOrders = m.orders,
                                              ![j].maxUnits = m.units]
          BY <4>2 DEF SetCapacity
        <5> QED
          BY <1>1, <5>1 DEF TypeOK, Slot
      <4>3. CASE SetLocked(j)
        BY <1>1, <4>3 DEF SetLocked, TypeOK, Slot
      <4> QED
        BY <4>1, <4>2, <4>3
    <3>5. CASE (\E r \in StockRows : SetDailyStock(r)) \/ UNCHANGED vars
      BY <3>5 DEF SetDailyStock, vars
    <3> QED
      BY <1>3, <3>1, <3>2, <3>3, <3>4, <3>5 DEF Next, Manage
  <2> QED
    BY <1>1, <2>1, <2>2
<1> QED
  BY <1>2, <1>3

-----------------------------------------------------------------------------
(* The limits.                                                             *)

\* A checkout counts only what fits; a release only lowers.
LEMMA CommitWithin ==
  ASSUME TypeOK, StableKnowledge, NeverOversold, NEW s \in Sessions, Commit(s)
  PROVE  NeverOversold'
<1>1. PICK o \in Orders : o = session[s].order
  BY CommitEffect
<1>2. /\ Cart[o].slot \in Slots /\ Cart[o].units \in Nat
      /\ Cart[o].qty \in [StockRows -> Nat]
      /\ Cart[o].promo \in Promos \cup {NoPromo}
  BY <1>1, CartAssumption DEF CartType
<1>3. /\ \A j \in Slots : /\ slots[j].orders \in Nat /\ slots[j].units \in Nat
                          /\ slots[j].maxOrders \in Nat /\ slots[j].maxUnits \in Nat
                          /\ slots[j].orders <= slots[j].maxOrders
                          /\ slots[j].units <= slots[j].maxUnits
      /\ \A r \in StockRows : stock[r] \in Stock /\ stock[r].used <= stock[r].total
      /\ \A p \in Promos : used[p] \in Nat /\ PromoCap[p] \in Nat
                          /\ (PromoCap[p] # 0 => used[p] <= PromoCap[p])
  BY LimitAssumption DEF TypeOK, NeverOversold, Slot
<1>4. CASE Create(s)
  <2>1. /\ Fits(Cart[o].slot, Cart[o].units)
        /\ StockFits(o)
        /\ Cart[o].promo # NoPromo =>
             PromoCap[Cart[o].promo] = 0 \/ used[Cart[o].promo] + 1 <= PromoCap[Cart[o].promo]
        /\ slots' = Reserve(Cart[o].slot, Cart[o].units)
        /\ stock' = [r \in StockRows |->
                       IF stock[r].counted
                         THEN [stock[r] EXCEPT !.used = @ + Cart[o].qty[r]] ELSE stock[r]]
        /\ used' = CountUse(Cart[o].promo, 1)
    BY <1>1, <1>4 DEF Create
  <2>2. \A j \in Slots : /\ slots'[j].orders <= slots'[j].maxOrders
                         /\ slots'[j].units <= slots'[j].maxUnits
    BY <1>2, <1>3, <2>1, CounterValues, SMTT(30) DEF Fits
  <2>3. \A r \in StockRows : stock'[r].used <= stock'[r].total
    <3> SUFFICES ASSUME NEW r \in StockRows PROVE stock'[r].used <= stock'[r].total
      OBVIOUS
    <3>1. CASE stock[r].counted
      <4>1. stock[r].used + Cart[o].qty[r] <= stock[r].total
        BY <2>1, <3>1 DEF StockFits
      <4>2. stock'[r] = [stock[r] EXCEPT !.used = @ + Cart[o].qty[r]]
        BY <2>1, <3>1
      <4>3. stock'[r].used = stock[r].used + Cart[o].qty[r] /\ stock'[r].total = stock[r].total
        BY <1>3, <4>2 DEF Stock
      <4> QED
        BY <4>1, <4>3
    <3>2. CASE ~stock[r].counted
      BY <1>3, <2>1, <3>2
    <3> QED
      BY <3>1, <3>2
  <2>4. \A p \in Promos : PromoCap[p] # 0 => used'[p] <= PromoCap[p]
    <3> SUFFICES ASSUME NEW p \in Promos, PromoCap[p] # 0 PROVE used'[p] <= PromoCap[p]
      OBVIOUS
    <3>1. CASE p = Cart[o].promo
      BY <1>3, <2>1, <3>1, NullAssumption DEF CountUse, Floor
    <3>2. CASE p # Cart[o].promo
      BY <1>3, <2>1, <3>2 DEF CountUse
    <3> QED
      BY <3>1, <3>2
  <2> QED
    BY <2>2, <2>3, <2>4 DEF NeverOversold
<1>5. CASE WriteCancel(s)
  <2>1. /\ slots' = Release(Cart[o].slot, Cart[o].units)
        /\ used' = CountUse(Cart[o].promo, -1)
        /\ stock' = stock
    BY <1>1, <1>5 DEF WriteCancel
  <2>2. \A j \in Slots : /\ slots'[j].orders <= slots'[j].maxOrders
                         /\ slots'[j].units <= slots'[j].maxUnits
    <3> SUFFICES ASSUME NEW j \in Slots
                 PROVE  /\ slots'[j].orders <= slots'[j].maxOrders
                        /\ slots'[j].units <= slots'[j].maxUnits
      OBVIOUS
    <3>1. slots'[j].maxOrders = slots[j].maxOrders /\ slots'[j].maxUnits = slots[j].maxUnits
      BY <1>2, <2>1, CounterValues
    <3>2. slots'[j].orders <= slots[j].orders /\ slots'[j].units <= slots[j].units
      <4>1. CASE j = Cart[o].slot
        <5>1. /\ slots'[j].orders = Floor(slots[j].orders - 1)
              /\ slots'[j].units = Floor(slots[j].units - Cart[o].units)
          BY <1>2, <2>1, <4>1, CounterValues
        <5>2. \A a, b \in Nat : Floor(a - b) <= a
          BY DEF Floor
        <5> QED
          BY <1>2, <1>3, <5>1, <5>2
      <4>2. CASE j # Cart[o].slot
        BY <1>2, <1>3, <2>1, <4>2, CounterValues
      <4> QED
        BY <4>1, <4>2
    <3>3. slots'[j].orders \in Int /\ slots'[j].units \in Int
      <4>1. slots' \in [Slots -> Slot]
        BY <1>2, <2>1, CountersTyped
      <4> QED
        BY <4>1 DEF Slot
    <3> QED
      BY <1>3, <3>1, <3>2, <3>3
  <2>3. \A p \in Promos : PromoCap[p] # 0 => used'[p] <= PromoCap[p]
    BY <1>3, <2>1 DEF CountUse, Floor
  <2> QED
    BY <1>3, <2>1, <2>2, <2>3 DEF NeverOversold
<1>6. CASE WriteMove(s) \/ AttachProof(s) \/ Verify(s) \/ Reject(s) \/ Refund(s)
  <2>1. UNCHANGED <<slots, stock, used>>
    BY <1>6 DEF WriteMove, AttachProof, Verify, Reject, Refund
  <2> QED
    BY <2>1 DEF NeverOversold
<1> QED
  BY <1>4, <1>5, <1>6 DEF Commit

LEMMA ManageWithin ==
  ASSUME TypeOK, NeverOversold, Manage
  PROVE  NeverOversold'
<1>1. \A j \in Slots : slots[j] \in Slot /\ slots[j].orders \in Nat /\ slots[j].units \in Nat
  BY DEF TypeOK, Slot
<1>2. CASE \E k \in Slots : Materialise(k)
  <2>1. PICK k \in Slots, m \in Capacities :
          /\ slots' = [slots EXCEPT ![k] = [AbsentSlot EXCEPT !.present = TRUE,
                         !.maxOrders = m.orders, !.maxUnits = m.units]]
          /\ UNCHANGED <<stock, used>>
    BY <1>2 DEF Materialise
  <2>2. m.orders \in Nat /\ m.units \in Nat
    BY LimitAssumption
  <2> QED
    BY <2>1, <2>2 DEF NeverOversold, AbsentSlot, TypeOK
<1>3. CASE \E k \in Slots : SetCapacity(k)
  <2>1. PICK k \in Slots, m \in Capacities :
          /\ slots[k].orders <= m.orders /\ slots[k].units <= m.units
          /\ slots' = [slots EXCEPT ![k].maxOrders = m.orders, ![k].maxUnits = m.units]
          /\ UNCHANGED <<stock, used>>
    BY <1>3 DEF SetCapacity
  <2>2. \A j \in Slots \ {k} : slots'[j] = slots[j]
    BY <2>1 DEF TypeOK
  <2>3. /\ slots'[k].orders = slots[k].orders /\ slots'[k].units = slots[k].units
        /\ slots'[k].maxOrders = m.orders /\ slots'[k].maxUnits = m.units
    BY <1>1, <2>1 DEF TypeOK, Slot
  <2> QED
    BY <2>1, <2>2, <2>3 DEF NeverOversold
<1>4. CASE \E k \in Slots : SetLocked(k)
  <2>1. PICK k \in Slots, locked \in BOOLEAN :
          slots' = [slots EXCEPT ![k].locked = locked] /\ UNCHANGED <<stock, used>>
    BY <1>4 DEF SetLocked
  <2>2. \A j \in Slots : /\ slots'[j].orders = slots[j].orders
                         /\ slots'[j].units = slots[j].units
                         /\ slots'[j].maxOrders = slots[j].maxOrders
                         /\ slots'[j].maxUnits = slots[j].maxUnits
    BY <1>1, <2>1 DEF TypeOK, Slot
  <2> QED
    BY <2>1, <2>2 DEF NeverOversold
<1>5. CASE \E r \in StockRows : SetDailyStock(r)
  <2>1. PICK r \in StockRows, total \in StockTotals :
          /\ stock' = [stock EXCEPT ![r].counted = TRUE,
                                    ![r].total = IF total < stock[r].used
                                                   THEN stock[r].used ELSE total]
          /\ UNCHANGED <<slots, used>>
    BY <1>5 DEF SetDailyStock
  <2>2. \A q \in StockRows \ {r} : stock'[q] = stock[q]
    BY <2>1 DEF TypeOK
  <2>3. /\ stock[r] \in Stock /\ stock[r].used \in Nat /\ total \in Nat
    BY LimitAssumption DEF TypeOK, Stock
  <2>4. /\ stock'[r].used = stock[r].used
        /\ stock'[r].total = IF total < stock[r].used THEN stock[r].used ELSE total
    BY <2>1, <2>3 DEF TypeOK, Stock
  <2>5. stock'[r].used <= stock'[r].total
    BY <2>3, <2>4
  <2> QED
    BY <2>1, <2>2, <2>5 DEF NeverOversold
<1> QED
  BY <1>2, <1>3, <1>4, <1>5 DEF Manage

LEMMA StepWithin ==
  ASSUME TypeOK, StableKnowledge, NeverOversold, [Next]_vars
  PROVE  NeverOversold'
<1>1. CASE \E s \in Sessions, o \in Orders : Request(s, o)
  BY <1>1 DEF Request, Quote, CheckCancel, StaffRead, ReadForProof, LoadPayment, Begin, NeverOversold
<1>2. CASE \E s \in Sessions : Proceed(s) \/ Abort(s)
  BY <1>2 DEF Proceed, Abort, CountUnpaid, CustomerRead, LoadOrder, Continue, NeverOversold
<1>3. CASE \E s \in Sessions : Commit(s)
  BY <1>3, CommitWithin
<1>4. CASE Manage
  BY <1>4, ManageWithin
<1>5. CASE UNCHANGED vars
  BY <1>5 DEF vars, NeverOversold
<1> QED
  BY <1>1, <1>2, <1>3, <1>4, <1>5 DEF Next

-----------------------------------------------------------------------------
(* The theorems.                                                           *)

LEMMA InitInv == Init => IInv
<1> SUFFICES ASSUME Init PROVE IInv
  OBVIOUS
<1>1. TypeOK
  BY InitTyped
<1>2. StableKnowledge
  BY DEF Init, Idle, StableKnowledge, Knows
<1>3. PaidBeforeKitchen /\ OpenCodesUnique /\ CancelledIsReleased
  BY DEF Init, NoRow, PaidBeforeKitchen, OpenCodesUnique, Open, CancelledIsReleased
<1>4. PlacesAreHeld
  <2>1. \A k \in Slots : slots[k].orders = 0
    BY DEF Init, AbsentSlot
  <2> QED
    BY <2>1, HoldingFinite DEF PlacesAreHeld
<1>5. NeverOversold
  BY LimitAssumption DEF Init, AbsentSlot, NeverOversold
<1> QED
  BY <1>1, <1>2, <1>3, <1>4, <1>5 DEF IInv, NoCapacityLeak

LEMMA StepInv == IInv /\ [Next]_vars => IInv'
BY StepTyped, StepKnowledge, StepPaid, StepCodes, StepReleased, StepPlaces, StepWithin
   DEF IInv, NoCapacityLeak

LEMMA Invariant == Spec => []IInv
BY InitInv, StepInv, PTL DEF Spec

\* The tables keep the types of their columns, whatever the sessions do.
THEOREM TypeCorrect == Spec => []TypeOK
<1>1. IInv => TypeOK
  BY DEF IInv
<1> QED
  BY <1>1, Invariant, PTL

\* No slot, dish or promotion is counted past its limit, however checkouts,
\* cancellations and the managers' edits interleave (Create, WriteCancel, Manage).
THEOREM LimitsHold == Spec => []NeverOversold
<1>1. IInv => NeverOversold
  BY DEF IInv
<1> QED
  BY <1>1, Invariant, PTL

\* A cancelled order's capacity has been given back and no slot counts a place
\* that no order holds, whatever cancellations race (Transition).
THEOREM PlacesNeverLeak == Spec => []NoCapacityLeak
<1>1. IInv => NoCapacityLeak
  BY DEF IInv
<1> QED
  BY <1>1, Invariant, PTL

\* Two orders of a store waiting for money never share a kode unik, even when a
\* stale upload or rejection reopens an order (AttachProof, Reject, Create).
THEOREM KodeUnikUnique == Spec => []OpenCodesUnique
<1>1. IInv => OpenCodesUnique
  BY DEF IInv
<1> QED
  BY <1>1, Invariant, PTL

\* An order is in the kitchen, at the counter or refunded only with a verified
\* payment in its history (Verify, Transition, Refund).
THEOREM KitchenSeesPaidOnly == Spec => []PaidBeforeKitchen
<1>1. IInv => PaidBeforeKitchen
  BY DEF IInv
<1> QED
  BY <1>1, Invariant, PTL

\* The facts a transaction read and relies on at its commit are still true.
THEOREM KnowledgeIsStable == Spec => []StableKnowledge
<1>1. IInv => StableKnowledge
  BY DEF IInv
<1> QED
  BY <1>1, Invariant, PTL
=============================================================================
