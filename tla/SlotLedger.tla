----------------------------- MODULE SlotLedger -----------------------------
(***************************************************************************)
(* What the slot rows promise, said without counters: a slot is a set of   *)
(* bookings inside two limits (BR-2.3.7).  An order is booked once, only   *)
(* while there is room on both axes, and leaves once (BR-2.3.12); a limit  *)
(* moves only where the bookings still fit (BR-2.3.16).                    *)
(***************************************************************************)
EXTENDS Integers, FiniteSets

Sums == INSTANCE FiniteSetsExt

CONSTANTS Orders, Slots,
          SlotOf,     \* SlotOf[o], the slot order o asks for
          Units       \* Units[o], its weight for the kitchen

VARIABLES
  limit,      \* limit[k]: the two limits of slot k
  booked,     \* booked[k]: the orders that hold a place in slot k
  gone        \* the orders that held one and gave it back

ledger == <<limit, booked, gone>>

LInit == /\ limit \in [Slots -> {[orders |-> 0, units |-> 0]}]
         /\ booked = [k \in Slots |-> {}]
         /\ gone = {}

Within(S, m) == /\ Cardinality(S) <= m.orders
                /\ Sums!MapThenSumSet(LAMBDA o : Units[o], S) <= m.units

Book(o) ==
  LET k == SlotOf[o] IN
  /\ o \notin booked[k] \cup gone
  /\ Within(booked[k] \cup {o}, limit[k])
  /\ booked' = [booked EXCEPT ![k] = @ \cup {o}]
  /\ UNCHANGED <<limit, gone>>

Leave(o) ==
  LET k == SlotOf[o] IN
  /\ o \in booked[k]
  /\ booked' = [booked EXCEPT ![k] = @ \ {o}]
  /\ gone' = gone \cup {o}
  /\ UNCHANGED limit

\* To any limits the bookings are within.
Resize(k) ==
  /\ limit'[k] \in [orders : Nat, units : Nat]
  /\ limit' = [limit EXCEPT ![k] = limit'[k]]
  /\ Within(booked[k], limit'[k])
  /\ UNCHANGED <<booked, gone>>

LNext == \/ \E o \in Orders : Book(o) \/ Leave(o)
         \/ \E k \in Slots : Resize(k)

LSpec == LInit /\ [][LNext]_ledger
=============================================================================
